------------------------------- MODULE MCGame -------------------------------
(***************************************************************************)
(* The two parts of a network game for TLC: it gathers in a lobby, up to   *)
(* its start (Lobby), and its nodes play in lockstep (Lockstep).           *)
(***************************************************************************)
EXTENDS MCLockstep, Lobby

VARIABLE part   \* which of the two this is

gameVars == <<part, lobbyVars, vars>>

\* The part that is left out stays as it begins.
GameInit ==
  /\ LobbyInit /\ Init
  /\ \/ part = "lobby"
     \/ part = "play" /\ lobby.mode = "star"

\* Bound: only the lobby of a mesh meets a client of another build, which the
\* host refuses in every mode alike.
FitInStar == lobby.mode = "star" => \A c \in Client : client'[c].fit

GameNext ==
  /\ \/ part = "lobby" /\ LobbyNext /\ FitInStar /\ UNCHANGED vars
     \/ part = "play" /\ Next /\ UNCHANGED lobbyVars
  /\ UNCHANGED part

GameSpec == GameInit /\ [][GameNext]_gameVars
=============================================================================
