------------------------------- MODULE Lobby -------------------------------
(***************************************************************************)
(* The lobby of a network game and its start: a host that keeps the one    *)
(* list of places and broadcasts it, clients that mirror it, and sessions  *)
(* that each node builds from what it holds when the game begins.          *)
(*                                                                         *)
(* A client is named by the peer id its connection was given, so whoever   *)
(* dials again is another one.  Races, teams and policies ride along with  *)
(* the places and are left out.                                            *)
(***************************************************************************)
EXTENDS Integers, FiniteSetsExt, SequencesExt

CONSTANTS
  Client,      \* the peer ids of the clients, ascending as they connect
  Slot,        \* the player slots, the host's first
  Limit,       \* how many watchers the host admits
  Mode,        \* the session modes the host may choose
  Foreign,     \* the clients that may be of another build
  MaxEdits,    \* bound: how often the host changes the places
  MaxAsks      \* bound: how often the clients ask for another place

ASSUME LobbyAssumption ==
  /\ IsFiniteSet(Client) /\ Client = 1 .. Cardinality(Client)
  /\ IsFiniteSet(Slot) /\ Slot # {} /\ Slot = 0 .. Cardinality(Slot) - 1
  /\ Foreign \subseteq Client
  /\ Mode \subseteq {"star", "meshHosted", "decentralized"}
  /\ {Limit, MaxEdits, MaxAsks} \subseteq Nat

VARIABLES
  lobby,      \* the places, and the mode, as the host has them
  ports,      \* the clients whose Join the host has taken
  host,       \* where the host's node is
  up, down,   \* the socket of each client, towards the host and back
  client,     \* where each client's node is and what it holds
  knocks,     \* who has dialed the control listener of each node
  edits, asks

lobbyVars == <<lobby, ports, host, up, down, client, knocks, edits, asks>>

Host == 0
Id == Client \cup {Host}
Watching == -1
Human(p) == [kind |-> "human", peer |-> p]
Vacant(kind) == [kind |-> kind, peer |-> Host]
Occupant == {Human(p) : p \in Id} \cup {Vacant(kind) : kind \in {"open", "ai", "closed"}}

NoLobby == [slots |-> <<>>, watchers |-> <<>>, mode |-> "none"]

LobbyInit ==
  /\ \E mode \in Mode :
       lobby = [slots |-> [s \in Slot |-> IF s = 0 THEN Human(Host) ELSE Vacant("open")],
                watchers |-> <<>>, mode |-> mode]
  /\ ports = {}
  /\ host = [at |-> "lobby", links |-> "none", expects |-> {}]
  /\ up = [c \in Client |-> <<>>] /\ down = [c \in Client |-> <<>>]
  /\ client = [c \in Client |-> [at |-> "away", fit |-> TRUE, mirror |-> NoLobby, seat |-> 0,
                                 table |-> {}, links |-> "none", expects |-> {}]]
  /\ knocks = [n \in Id |-> <<>>]
  /\ edits = 0 /\ asks = 0

-----------------------------------------------------------------------------
(* The places.                                                              *)

Open(l) == {s \in Slot : l.slots[s].kind = "open"}
SlotsOf(l, p) == {s \in Slot : l.slots[s] = Human(p)}
Seated(l) == {p \in Id : SlotsOf(l, p) # {}}
Placed(l) == Seated(l) \cup Range(l.watchers)
Vacate(l, p) ==
  [l EXCEPT !.slots = [s \in Slot |-> IF @[s] = Human(p) THEN Vacant("open") ELSE @[s]]]
\* A watcher is listed once (OnePlace), so that the first entry is all there is.
OffWatch(l, p) == [l EXCEPT !.watchers = RemoveFirst(@, p)]
TakeSlot(l, p) == [l EXCEPT !.slots[Min(Open(l))] = Human(p)]

\* Mutant: a player who turns to watching keeps the slot.
AdmitWatcher_KeepsSlot(l, p) ==
  IF p \in Range(l.watchers) \/ Len(l.watchers) >= Limit THEN l
  ELSE [l EXCEPT !.watchers = Append(@, p)]

AdmitWatcher(l, p) ==
  IF p \in Range(l.watchers) \/ Len(l.watchers) >= Limit THEN l
  ELSE [Vacate(l, p) EXCEPT !.watchers = Append(@, p)]

\* Mutant: a watcher gives up the place before there is a slot for it.
SeatWatcher_Eager(l, p) ==
  LET off == OffWatch(l, p) IN
  IF p \notin Range(l.watchers) \/ Open(l) = {} THEN off ELSE TakeSlot(off, p)

SeatWatcher(l, p) ==
  IF p \notin Range(l.watchers) \/ Open(l) = {} THEN l
  ELSE TakeSlot(OffWatch(l, p), p)

Seat(l, p) == IF Open(l) # {} THEN TakeSlot(l, p) ELSE AdmitWatcher(l, p)

Unseat(l, p) ==
  IF SlotsOf(l, p) # {} THEN Vacate(l, p)
  ELSE OffWatch(l, p)

-----------------------------------------------------------------------------
(* The control channel of the lobby: a star around the host.                *)

Linked == {c \in Client : client[c].at \in {"lobby", "playing"}}

SendDown(queues, msgs) == [c \in Client |-> IF c \in Linked THEN queues[c] \o msgs ELSE queues[c]]
StateMsg(l) == [kind |-> "state", lobby |-> l]
Closed == [kind |-> "closed"]

\* What an event at the host makes of the places.
Moved(l, event) ==
  LET p == event.from IN
  CASE event.kind = "connected" -> Seat(l, p)
    [] event.kind = "lost" -> Unseat(l, p)
    [] event.kind = "join" -> IF event.fit THEN l ELSE Unseat(l, p)
    [] event.kind = "observe" -> AdmitWatcher(l, p)
    [] event.kind = "play" -> SeatWatcher(l, p)

\* A client of another build is refused, and its place is free again.
Joins(event) == event.kind = "join" /\ event.fit
Refused(event) == event.kind = "join" /\ ~event.fit
Refusal(event) == IF Refused(event) THEN <<[kind |-> "rejected", peer |-> event.from]>> ELSE <<>>
News(event) ==
  IF Joins(event) \/ Moved(lobby, event) # lobby THEN <<StateMsg(Moved(lobby, event))>> ELSE <<>>

Takes(c, event) ==
  /\ host.at = "lobby" /\ up[c] # <<>>
  /\ lobby' = Moved(lobby, event)
  /\ ports' = IF Joins(event) THEN ports \cup {c}
              ELSE IF Refused(event) \/ event.kind = "lost" THEN ports \ {c} ELSE ports
  /\ up' = [up EXCEPT ![c] = Tail(@)]
  /\ UNCHANGED <<host, client, knocks, edits, asks>>

\* Mutant: the new places are not sent.
HostPoll_Silent(c) ==
  LET event == Head(up[c]) IN
    Takes(c, event) /\ down' = SendDown(down, Refusal(event))

\* One event the host polls; the events of one poll are sent as one change,
\* which is as if the events between had been sent and not yet read.
HostPoll(c) ==
  LET event == Head(up[c]) IN
    Takes(c, event) /\ down' = SendDown(down, Refusal(event) \o News(event))

\* Mutant: the host changes the places and tells nobody.
Edit_Silent(l) ==
  /\ host.at = "lobby" /\ edits < MaxEdits
  /\ edits' = edits + 1
  /\ lobby' = l
  /\ UNCHANGED <<ports, host, up, down, client, knocks, asks>>

\* The host's user changes the places.
Edit(l) ==
  /\ host.at = "lobby" /\ edits < MaxEdits
  /\ edits' = edits + 1
  /\ lobby' = l
  /\ down' = SendDown(down, <<StateMsg(l)>>)
  /\ UNCHANGED <<ports, host, up, client, knocks, asks>>

NextKind == [open |-> "ai", ai |-> "closed", closed |-> "open"]

\* Mutant: a slot somebody sits in is cycled too.
CycleKind_Any(s) ==
  LET kind == lobby.slots[s].kind IN
  Edit([lobby EXCEPT !.slots[s] = Vacant(IF kind = "human" THEN "ai" ELSE NextKind[kind])])

\* A slot a client occupies is left alone.
CycleKind(s) ==
  /\ lobby.slots[s].kind # "human"
  /\ Edit([lobby EXCEPT !.slots[s] = Vacant(NextKind[lobby.slots[s].kind])])

\* Its own place moves like any other.
HostMoves ==
  LET l == IF Host \in Range(lobby.watchers) THEN SeatWatcher(lobby, Host)
                                             ELSE AdmitWatcher(lobby, Host) IN
  l # lobby /\ Edit(l)

-----------------------------------------------------------------------------
(* The clients.                                                             *)

\* The host's listener gives out the ids; a client of another build joins too.
Dial(c, fit) ==
  /\ host.at = "lobby" /\ (fit \/ c \in Foreign)
  /\ client[c].at = "away" /\ \A d \in Client : d < c => client[d].at # "away"
  /\ client' = [client EXCEPT ![c].at = "lobby", ![c].fit = fit]
  /\ up' = [up EXCEPT ![c] = <<[kind |-> "connected", from |-> c],
                               [kind |-> "join", from |-> c, fit |-> fit]>>]
  /\ UNCHANGED <<lobby, ports, host, down, knocks, edits, asks>>

\* Nobody reads a lobby's messages once it is over.
SendUp(c, kind) ==
  IF host.at = "lobby" THEN [up EXCEPT ![c] = Append(@, [kind |-> kind, from |-> c])] ELSE up

\* A client asks to watch, or to play, by the place it believes it has; what it
\* asks for once the lobby is over has no effect and is left out.
Ask(c) ==
  /\ client[c].at = "lobby" /\ host.at = "lobby" /\ asks < MaxAsks
  /\ asks' = asks + 1
  /\ up' = SendUp(c, IF client[c].seat = Watching THEN "play" ELSE "observe")
  /\ UNCHANGED <<lobby, ports, host, down, client, knocks, edits>>

Gone(node) == [node EXCEPT !.at = "menu", !.links = "none", !.expects = {}]

Leave(c) ==
  /\ client[c].at = "lobby"
  /\ client' = [client EXCEPT ![c] = Gone(@)]
  /\ up' = SendUp(c, "lost")
  /\ down' = [down EXCEPT ![c] = <<>>]
  /\ UNCHANGED <<lobby, ports, host, knocks, edits, asks>>

\* The place a node takes itself to have: none reported, the last one known.
MirroredSeat(l, c, seat) ==
  IF l = NoLobby THEN seat
  ELSE IF SlotsOf(l, c) # {} THEN Min(SlotsOf(l, c))
  ELSE IF c \in Range(l.watchers) THEN Watching ELSE seat

\* The messages of one poll; a refusal or the end of the link ends it at once.
Read(c, msgs) ==
  LET turn == SelectInSeq(msgs, LAMBDA m : m.kind = "closed" \/ (m.kind = "rejected" /\ m.peer = c))
      heard == IF turn = 0 THEN msgs ELSE SubSeq(msgs, 1, turn)
      state == SelectLastInSeq(heard, LAMBDA m : m.kind = "state")
      start == SelectLastInSeq(heard, LAMBDA m : m.kind = "start")
  IN [mirror |-> IF state = 0 THEN client[c].mirror ELSE heard[state].lobby,
      table |-> IF start = 0 THEN {} ELSE heard[start].table,
      started |-> start # 0, turned |-> turn # 0]

\* Mutant: whoever has the higher id dials.
Dials_Higher(table, n) == {m \in table \ {n} : m < n}

\* The lower id dials: n calls the higher ones, and expects the lower ones.
Dials(table, n) == {m \in table \ {n} : m > n}
Awaits(table, n) == {m \in table : m < n}

\* A listener is there from the Join on until its node has gone.
Listens(m) == IF m = Host THEN host.at # "menu" ELSE client[m].at \in {"lobby", "playing"}

\* Where the table of a start lists a node: players by slot, then watchers, as
\* in the lobby, which keeps its places from then on (host_endpoint_table).
Listed(m) ==
  LET listing == [i \in 1 .. Cardinality(Slot) |-> lobby.slots[i - 1].peer] \o lobby.watchers
  IN Min({i \in DOMAIN listing : listing[i] = m})

\* Node n enters a decentralized game: it dials down the list up to the first
\* refusal, then waits for the others.
Meshed(table, n) ==
  LET refused == {m \in Dials(table, n) : ~Listens(m)}
      reached == {m \in Dials(table, n) : \A r \in refused : Listed(m) < Listed(r)} IN
  [links |-> IF refused # {} THEN "failed" ELSE IF Awaits(table, n) = {} THEN "up" ELSE "linking",
   expects |-> Awaits(table, n),
   knocks |-> [m \in Id |-> IF m \in reached THEN Append(knocks[m], n) ELSE knocks[m]]]

\* One poll of a client, whatever has reached it: it mirrors, is turned away,
\* or starts with what it holds.
ClientPoll(c) ==
  /\ client[c].at = "lobby"
  /\ \E k \in 1 .. Len(down[c]) :
       LET read == Read(c, SubSeq(down[c], 1, k))
           seat == MirroredSeat(read.mirror, c, client[c].seat)
           leaves == read.turned \/ (read.started /\ read.mirror = NoLobby)
           mesh == Meshed(read.table, c)
           held == [client[c] EXCEPT !.mirror = read.mirror, !.seat = seat, !.table = read.table]
           links == read.mirror.mode = "decentralized"
       IN /\ down' = [down EXCEPT ![c] = IF leaves THEN <<>> ELSE SubSeq(@, k + 1, Len(@))]
          /\ \/ /\ leaves
                /\ client' = [client EXCEPT ![c] = Gone(@)]
                /\ up' = SendUp(c, "lost")
                /\ UNCHANGED knocks
             \/ /\ ~leaves /\ ~read.started
                /\ client' = [client EXCEPT ![c] = held]
                /\ UNCHANGED <<up, knocks>>
             \/ /\ ~leaves /\ read.started
                /\ client' = [client EXCEPT ![c] =
                      IF links THEN [held EXCEPT !.at = "playing", !.links = mesh.links,
                                                 !.expects = mesh.expects]
                               ELSE [held EXCEPT !.at = "playing"]]
                /\ knocks' = IF links THEN mesh.knocks ELSE knocks
                /\ UNCHANGED up
  /\ UNCHANGED <<lobby, ports, host, edits, asks>>

-----------------------------------------------------------------------------
(* The start.                                                               *)

\* The host leaves the lobby without a game, or the game ends on it.
HostGone ==
  /\ host' = [at |-> "menu", links |-> "none", expects |-> {}]
  /\ down' = SendDown(down, <<Closed>>)
  /\ up' = [c \in Client |-> <<>>]
  /\ UNCHANGED knocks

HostLeaves ==
  /\ host.at = "lobby" /\ HostGone
  /\ UNCHANGED <<lobby, ports, client, edits, asks>>

\* A mesh needs to know where every client listens, or the lobby is lost.
\* A decentralized game puts its own links in the place of the lobby's.
HostStarts ==
  LET table == Placed(lobby)
      known == lobby.mode = "star" \/ table \ {Host} \subseteq ports
      start == [kind |-> "start", table |-> IF lobby.mode = "star" THEN {} ELSE table]
      mesh == Meshed(table, Host)
  IN /\ host.at = "lobby"
     /\ \/ ~known /\ HostGone
        \/ /\ known /\ lobby.mode # "decentralized"
           /\ host' = [host EXCEPT !.at = "playing"]
           /\ down' = SendDown(down, <<start>>)
           /\ up' = [c \in Client |-> <<>>]
           /\ UNCHANGED knocks
        \/ /\ known /\ lobby.mode = "decentralized"
           /\ host' = [at |-> "playing", links |-> mesh.links, expects |-> mesh.expects]
           /\ down' = SendDown(down, <<start, Closed>>)
           /\ up' = [c \in Client |-> <<>>]
           /\ knocks' = mesh.knocks
     /\ UNCHANGED <<lobby, ports, client, edits, asks>>

\* A listener takes the next dialer, and wants only those it expects.
Accept(c) ==
  /\ client[c].at = "playing" /\ client[c].links = "linking" /\ knocks[c] # <<>>
  /\ LET p == Head(knocks[c])
         rest == client[c].expects \ {p} IN
       client' = [client EXCEPT
           ![c].expects = rest,
           ![c].links = IF p \notin client[c].expects THEN "failed"
                        ELSE IF rest = {} THEN "up" ELSE @]
  /\ knocks' = [knocks EXCEPT ![c] = Tail(@)]
  /\ UNCHANGED <<lobby, ports, host, up, down, edits, asks>>

\* The links time out: somebody expected has gone, or never dials.
NeverDials(n, c) ==
  IF n = Host THEN host.at = "menu" ELSE
    \/ client[n].at = "menu"
    \/ client[n].at = "playing" /\ c \notin client[n].table

GiveUp(c) ==
  /\ client[c].at = "playing" /\ client[c].links = "linking"
  /\ \E n \in client[c].expects : NeverDials(n, c) /\ n \notin Range(knocks[c])
  /\ client' = [client EXCEPT ![c].links = "failed"]
  /\ UNCHANGED <<lobby, ports, host, up, down, knocks, edits, asks>>

LobbyNext ==
  \/ HostMoves \/ HostLeaves \/ HostStarts
  \/ \E s \in Slot : CycleKind(s)
  \/ \E c \in Client :
       \/ \E fit \in BOOLEAN : Dial(c, fit)
       \/ HostPoll(c) \/ Ask(c) \/ Leave(c) \/ ClientPoll(c) \/ Accept(c) \/ GiveUp(c)

LobbySpec == LobbyInit /\ [][LobbyNext]_lobbyVars

-----------------------------------------------------------------------------
(* Properties.                                                              *)

\* Every variable has its type.
Link == {"none", "linking", "up", "failed"}
Place == [slots: [Slot -> Occupant], watchers: Seq(Id), mode: Mode]
Event == [kind: {"connected", "lost", "observe", "play"}, from: Client]
         \cup [kind: {"join"}, from: Client, fit: BOOLEAN]
Message == [kind: {"state"}, lobby: Place] \cup [kind: {"start"}, table: SUBSET Id]
           \cup [kind: {"rejected"}, peer: Client] \cup {Closed}
Guest == [at: {"away", "lobby", "playing", "menu"}, fit: BOOLEAN,
          mirror: Place \cup {NoLobby}, seat: Slot \cup {Watching}, table: SUBSET Id,
          links: Link, expects: SUBSET Id]
LobbyTypeOK ==
  /\ lobby \in Place /\ ports \subseteq Client
  /\ host \in [at: {"lobby", "playing", "menu"}, links: Link, expects: SUBSET Id]
  /\ up \in [Client -> Seq(Event)] /\ down \in [Client -> Seq(Message)]
  /\ client \in [Client -> Guest]
  /\ knocks \in [Id -> Seq(Id)] /\ {edits, asks} \subseteq Nat

\* However requests, departures and the host's own edits cross, nobody sits in
\* two places at once (admit_watcher, seat_watcher, seat).
OnePlace ==
  /\ \A s, t \in Slot :
        lobby.slots[s].kind = "human" /\ lobby.slots[s] = lobby.slots[t] => s = t
  /\ IsInjective(lobby.watchers)
  /\ Seated(lobby) \cap Range(lobby.watchers) = {}

\* Who has a place keeps one, until it leaves or is refused: no edit of the host
\* and no move of another takes it away (set_occupant behind cycle_kind).
PlaceKept ==
  [][\A c \in Client : client[c].at = "lobby" /\ client[c].fit /\ c \in Placed(lobby)
       => c \in Placed(lobby')]_lobbyVars

\* A client the host knows of, and that has read everything, sees the places
\* as the host has them (every change is broadcast).
MirrorsAgree ==
  host.at = "lobby" =>
    \A c \in Client :
      client[c].at = "lobby" /\ down[c] = <<>> /\ up[c] = <<>> => client[c].mirror = lobby

\* "Every node starts from the same list, so the rosters route every slot's
\* frames identically" (start_host, start_client).
EveryoneStartsAlike ==
  \A c \in Client : client[c].at = "playing" => client[c].mirror = lobby

\* A decentralized game in which every node stays links them all: nobody of its
\* table meets a peer it does not expect, or one that never dials.  That is, if
\* all who start have a place; who has none dials all the same (mesh_connect).
MeshForms ==
  (\A c \in Client : client[c].at = "playing" => c \in Placed(lobby)) =>
    \A c \in Placed(lobby) \cap Client :
      client[c].links = "failed" => \E d \in Placed(lobby) \cap Client : client[d].at = "menu"

\* Who has read all the host had sent is not left behind in the lobby: it has
\* started, or learnt that the lobby is over.
StartReachesAll ==
  host.at # "lobby" =>
    \A c \in Client : client[c].at = "lobby" => down[c] # <<>>

\* What a client held is free again once the host has learnt that it went, or
\* was refused; nobody's place is lost with it (unseat).
GoneHoldNone ==
  host.at = "lobby" =>
    \A c \in Client : client[c].at = "menu" /\ up[c] = <<>> => c \notin Placed(lobby)

\* The places as a whole: well formed, one for each, none for who has gone
\* (LobbyHost::apply).
LobbyInv == LobbyTypeOK /\ OnePlace /\ GoneHoldNone

\* Whoever plays has started from the host's list, and none is left waiting in
\* a lobby that has no host: the start or the end of the link is on its way to
\* it (LobbyHost::start).  Not that a start takes everyone along: a client that
\* reads both in one poll is told of the end alone and goes to the menu, with a
\* place or without (LobbyClient::poll).
StartsTogether == EveryoneStartsAlike /\ StartReachesAll
=============================================================================
