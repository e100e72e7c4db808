------------------------------- MODULE Replay -------------------------------
(***************************************************************************)
(* A recording and its playback: record_input writing what a running game  *)
(* executed, tick by tick, to a stream that may fail or be cut off, and    *)
(* supply_replay_input feeding what could be read back through the same    *)
(* lockstep path.                                                          *)
(*                                                                         *)
(* The simulation is deterministic, so the state of a game is the history  *)
(* of what its ticks ran with.  A player whose command is "fall" loses its *)
(* last building by it.  The drop of a player is decided elsewhere (Drops) *)
(* for the current tick or a later one.                                    *)
(***************************************************************************)
EXTENDS Integers, FiniteSetsExt, SequencesExt

CONSTANTS
  Seats,      \* the players of the recorded game
  Local,      \* the player of the node that records
  Conducts,   \* DefeatConducts of that node: "conclude" or "spectate"
  Latency,    \* SYNC_LATENCY
  CheckEvery, \* CHECKSUM_INTERVAL
  Failing,    \* what a failing write may leave behind: "nothing", "torn"
  MaxFails,   \* bound: how many writes fail
  MaxPauses,  \* bound: how often the viewer pauses or resumes
  EndTick     \* bound: the recorded game does not execute this tick

ASSUME ReplayAssumption ==
  /\ IsFiniteSet(Seats) /\ Local \in Seats /\ "nobody" \notin Seats
  /\ Conducts \subseteq {"conclude", "spectate"}
  /\ Failing \subseteq {"nothing", "torn"}
  /\ {Latency, MaxFails, MaxPauses, EndTick} \subseteq Nat /\ CheckEvery \in Nat \ {0}

VARIABLES
  live,    \* the session of the recorded game
  file,    \* the chunks behind the header of the recording
  fails,   \* how many writes have failed
  view,    \* the session of the playback
  pauses

replayVars == <<live, file, fails, view, pauses>>

Unset == EndTick + 1
Commands == {"idle", "order", "fall"}
Session0 ==
  [tick |-> 0, result |-> "none", dropped |-> [p \in Seats |-> Unset],
   fallen |-> [p \in Seats |-> Unset], history |-> <<>>]

ReplayInit ==
  /\ \E conduct \in Conducts :
       live = [session |-> Session0, next |-> 0, at |-> "running", conduct |-> conduct]
  /\ file = <<>> /\ fails = 0
  /\ view = [session |-> Session0, at |-> "closed", log |-> <<>>, blocked |-> FALSE,
             paused |-> FALSE, done |-> FALSE, mismatch |-> FALSE, verified |-> -1,
             frames |-> {[player |-> p, tick |-> t, command |-> "idle"] :
                           p \in Seats, t \in 0 .. Latency - 1}]
  /\ pauses = 0

-----------------------------------------------------------------------------
(* A session executes a tick.                                               *)

Required(s, t) == {p \in Seats : t < s.dropped[p] /\ t < s.fallen[p]}
OutOf(s, p) == s.dropped[p] <= s.tick \/ s.fallen[p] <= s.tick

\* check_game_result: whoever lost the last building is out from the next tick
\* on; the game ends once one side is left, or, for the node of a player that
\* has lost, as its conduct has it.  A viewer has no player to lose with.
Checked(s, local, fell) ==
  LET marked == [s EXCEPT !.fallen = [p \in Seats |-> IF p \in fell /\ ~OutOf(s, p)
                                                      THEN s.tick + 1 ELSE @[p]]]
      left == {p \in Seats \ fell : ~OutOf(s, p) /\ s.fallen[p] = Unset}
      lost == local \in Seats /\ s.dropped[local] > s.tick /\ local \notin left
  IN [marked EXCEPT !.result =
        IF Cardinality(left) <= 1 THEN "over"
        ELSE IF lost /\ live.conduct = "conclude" THEN "defeat" ELSE "none"]

\* A player that has fallen once holds no building ever after.
Advance(s, local, commands) ==
  LET fell == {p \in DOMAIN commands : commands[p] = "fall"}
              \cup {p \in Seats : s.fallen[p] # Unset}
      ran == [s EXCEPT !.history = Append(@, commands)]
  IN [Checked(ran, local, fell) EXCEPT !.tick = @ + 1]

-----------------------------------------------------------------------------
(* Recording.                                                               *)

Torn == [kind |-> "torn"]

DroppedAt(s, t) == {p \in Seats : s.dropped[p] = t}

\* The record of an executed tick; idle players are left out.
RecordOf(s, t) ==
  [kind |-> "record", tick |-> t,
   inputs |-> {<<p, s.history[t + 1][p]>> : p \in {q \in Required(s, t) :
                                                     s.history[t + 1][q] # "idle"}},
   dropped |-> DroppedAt(s, t),
   checksum |-> IF t = s.tick - 1 /\ t % CheckEvery = 0 THEN <<s.history>> ELSE <<>>]

\* (mutant) A tick whose write failed counts as recorded.
Record_SkipsFailed(s) ==
  \E k \in 0 .. s.tick - live.next :
    LET records == [i \in 1 .. k |-> RecordOf(s, live.next + i - 1)]
        failed == k < s.tick - live.next IN
    /\ live' = [live EXCEPT !.session = s, !.next = @ + k + (IF failed THEN 1 ELSE 0)]
    /\ \/ ~failed /\ file' = file \o records /\ UNCHANGED fails
       \/ /\ failed /\ fails < MaxFails /\ fails' = fails + 1
          /\ \E left \in Failing :
               file' = file \o records \o IF left = "torn" THEN <<Torn>> ELSE <<>>

\* record_input: every completed tick not yet recorded, until a write fails.
Record(s) ==
  \E k \in 0 .. s.tick - live.next :
    LET records == [i \in 1 .. k |-> RecordOf(s, live.next + i - 1)]
        failed == k < s.tick - live.next IN
    /\ live' = [live EXCEPT !.session = s, !.next = @ + k]
    /\ \/ ~failed /\ file' = file \o records /\ UNCHANGED fails
       \/ /\ failed /\ fails < MaxFails /\ fails' = fails + 1
          /\ \E left \in Failing :
               file' = file \o records \o IF left = "torn" THEN <<Torn>> ELSE <<>>

\* What a tick may run with: the first ticks were seeded idle, and (a bound) no
\* two players give a command in the same tick.
Inputs(s) ==
  LET idle == [p \in Required(s, s.tick) |-> "idle"] IN
  {idle} \cup IF s.tick < Latency THEN {}
              ELSE {[idle EXCEPT ![p] = c] : p \in DOMAIN idle, c \in Commands}

\* The recorded game executes a tick, with what its players have committed.
LiveTick ==
  LET s == live.session IN
  /\ live.at = "running" /\ s.result = "none" /\ s.tick < EndTick
  /\ \E commands \in Inputs(s) :
     \E after \in {Advance(s, Local, commands)} : Record(after)
  /\ UNCHANGED <<view, pauses>>

\* A step that executes nothing, blocked or over: what is left is recorded.
LiveIdle ==
  live.at = "running" /\ live.next < live.session.tick /\ Record(live.session)
  /\ UNCHANGED <<view, pauses>>

\* A player is dropped, from the current tick on or from a later one.
DecideDrop(p) ==
  LET s == live.session IN
  /\ live.at = "running" /\ s.result = "none" /\ s.dropped[p] = Unset
  /\ \E from \in s.tick .. EndTick :
       live' = [live EXCEPT !.session.dropped[p] = from]
  /\ UNCHANGED <<file, fails, view, pauses>>

\* The game is left, or its process dies: at any moment, in a tick that has
\* run and is not recorded, or in the middle of a chunk.
Cut ==
  LET s == live.session IN
  /\ live.at = "running"
  /\ live' = [live EXCEPT !.at = "ended"]
  /\ \/ UNCHANGED file
     \/ s.result = "none" /\ s.tick < EndTick /\ Required(s, s.tick) # {}
        /\ file' = Append(file, Torn)
  /\ UNCHANGED <<fails, view, pauses>>

-----------------------------------------------------------------------------
(* Reading and playback.                                                    *)

Records == {i \in DOMAIN file : file[i].kind = "record"}
Torns == DOMAIN file \ Records

\* Replay::read: a chunk cut off at the end is dropped, but behind one there is
\* no telling where a chunk begins.
Readable == Torns \subseteq {Len(file)}
Log == SubSeq(file, 1, IF Torns = {} THEN Len(file) ELSE Len(file) - 1)

Watch ==
  /\ live.at = "ended" /\ view.at = "closed"
  /\ view' = [view EXCEPT !.at = IF Readable THEN "playing" ELSE "refused",
                          !.log = IF Readable THEN Log ELSE <<>>]
  /\ UNCHANGED <<live, file, fails, pauses>>

At(t) == {i \in DOMAIN view.log : view.log[i].tick = t}
RecordAt(t) == view.log[Max(At(t))]
LastTick == IF view.log = <<>> THEN -1 ELSE Max({view.log[i].tick : i \in DOMAIN view.log})
Holds(t) == t <= LastTick

\* (mutant) The drops of the recording are not applied again.
Reapplied_Never(s) == s

Reapplied(s) ==
  IF At(s.tick) = {} THEN s
  ELSE [s EXCEPT !.dropped = [p \in Seats |->
          IF p \in RecordAt(s.tick).dropped /\ @[p] > s.tick THEN s.tick ELSE @[p]]]

\* (mutant) Only the players with a recorded command are supplied.
Supplied_NoIdle(s, t) ==
  IF ~Holds(t) THEN {}
  ELSE {[player |-> x[1], tick |-> t, command |-> x[2]] : x \in RecordAt(t).inputs}

\* What the recording says each player still in the game does at a tick.
Supplied(s, t) ==
  IF ~Holds(t) THEN {}
  ELSE {[player |-> p, tick |-> t, command |->
           IF At(t) # {} /\ \E x \in RecordAt(t).inputs : x[1] = p
           THEN (CHOOSE x \in RecordAt(t).inputs : x[1] = p)[2] ELSE "idle"] :
        p \in {q \in Seats : ~OutOf(s, q)}}

\* (mutant) The executor also runs where the recording holds nothing.
Exhausted_Never(t) == FALSE

Exhausted(t) == ~Holds(t)

Committed(frames, s) ==
  [p \in Required(s, s.tick) |->
     (CHOOSE f \in frames : f.player = p /\ f.tick = s.tick).command]

\* verify_replay_checksum, once for each tick that has been completed.
Verified(v) ==
  LET t == v.session.tick - 1
      expected == IF t >= 0 /\ At(t) # {} THEN RecordAt(t).checksum ELSE <<>>
  IN IF v.mismatch \/ v.verified = t \/ expected = <<>> THEN v
     ELSE [v EXCEPT !.verified = t, !.mismatch = v.session.history # expected[1]]

\* One step of the playback: the recording supplies, the executor executes, the
\* checksum is compared.
PlayStep ==
  LET sources == Holds(view.session.tick) /\ view.session.result = "none" IN
  /\ view.at = "playing" /\ ~view.paused
  /\ \E s \in {IF sources THEN Reapplied(view.session) ELSE view.session} :
     \E frames \in {IF sources THEN view.frames \cup Supplied(s, s.tick + Latency)
                     ELSE view.frames} :
     LET ready == \A p \in Required(s, s.tick) :
                    \E f \in frames : f.player = p /\ f.tick = s.tick
         runs == s.result = "none" /\ ~Exhausted(s.tick) /\ ready
     IN \E after \in {IF runs THEN Advance(s, "nobody", Committed(frames, s)) ELSE s} :
          view' = Verified([view EXCEPT
            !.session = after, !.frames = frames,
            !.done = @ \/ ~Holds(s.tick),
            !.blocked = IF s.result # "none" THEN @
                        ELSE Exhausted(s.tick) \/ ~ready])
  /\ UNCHANGED <<live, file, fails, pauses>>

\* A pause of the viewer holds everything but itself.
TogglePause ==
  /\ view.at = "playing" /\ pauses < MaxPauses
  /\ pauses' = pauses + 1
  /\ view' = [view EXCEPT !.paused = ~@]
  /\ UNCHANGED <<live, file, fails>>

ReplayNext ==
  \/ LiveTick \/ LiveIdle \/ Cut \/ Watch \/ PlayStep \/ TogglePause
  \/ \E p \in Seats : DecideDrop(p)

ReplaySpec == ReplayInit /\ [][ReplayNext]_replayVars

-----------------------------------------------------------------------------
(* Properties.                                                              *)

\* Every variable has its type; a tick is recorded after it has run, and a
\* player's drop at one tick only.
ReplayTypeOK ==
  /\ live.session.tick = Len(live.session.history)
  /\ live.next \in 0 .. live.session.tick
  /\ \A i \in DOMAIN file : file[i] = Torn \/ file[i].tick < live.session.tick
  /\ \A i, j \in Records : i # j => file[i].dropped \cap file[j].dropped = {}
  /\ view.session.tick = Len(view.session.history)
  /\ view.session.result \in {"none", "over", "defeat"}
  /\ view.at \in {"closed", "playing", "refused"}

\* The records of the stream cover the first ticks of the game, each once and in
\* turn, whatever writes failed and wherever the stream ends (Recorder, record_input).
RecordsInOrder ==
  /\ {file[i].tick : i \in Records} = 0 .. live.next - 1
  /\ \A i, j \in Records : i < j => file[i].tick < file[j].tick

\* Playback "retraces the original game" (replay/mod.rs): every tick it has run
\* ran with the players and the commands of the recorded one, and who was out
\* of the recorded game by then is out of it.
Retraces ==
  LET s == view.session IN
  view.at = "playing" =>
    /\ IsPrefix(s.history, live.session.history)
    /\ s.result = "none" \/ s.result = live.session.result \/ live.session.result = "defeat"
    /\ ~view.mismatch

\* No tick is played that nobody recorded, not even the seeded ones
\* (replay_exhausted).
NothingInvented == view.session.tick <= LastTick + 1

\* A playback that has come to its end has played all that was recorded, and one
\* that is held up has come to its end: no tick of a recording blocks.
NoTickBlocks ==
  /\ view.done => view.session.tick = LastTick + 1
  /\ view.blocked => view.done

\* The recording is whole (record_input).
ReplayInv == ReplayTypeOK /\ RecordsInOrder

\* The playback runs what the recording holds, all of it and nothing else
\* (replay_exhausted, supply_replay_input).
PlaysTheRecording == NothingInvented /\ NoTickBlocks

\* A recording that is watched without a break is played to its end
\* (run_playback).
PlayedOut == (view.at = "playing") ~> (view.done \/ view.paused)

ReplayFairSpec == ReplaySpec /\ WF_replayVars(PlayStep)

\* The recording "holds a valid replay up to the last completed tick even if the
\* process stops abruptly" (Recorder).
AlwaysReadable == view.at # "refused"
=============================================================================
