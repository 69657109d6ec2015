--------------------------- MODULE PlayerDirectory ---------------------------
(***************************************************************************)
(* What the rest of the proxy relies on when it asks the registry about a  *)
(* player: each connection has an entry of its own, put there when the     *)
(* player starts to play, changed only by the player's own moves, kept as  *)
(* long as the player plays and removed afterwards.                        *)
(***************************************************************************)
CONSTANTS Conns, ServerNames, Servers, Nowhere

VARIABLES
    where,   \* the server a connection is listed on, or Nowhere
    playing  \* connections with a tunnel, or between two tunnels

vars == <<where, playing>>

Init ==
    /\ where = [c \in Conns |-> Nowhere]
    /\ playing = {}

Enter(c) ==
    /\ c \notin playing /\ where[c] = Nowhere
    /\ \E s \in ServerNames : where' = [where EXCEPT ![c] = s]
    /\ playing' = playing \cup {c}

Move(c) ==
    /\ c \in playing
    /\ \E s \in Servers : where' = [where EXCEPT ![c] = s]
    /\ UNCHANGED playing

Quit(c) ==
    /\ c \in playing
    /\ playing' = playing \ {c}
    /\ UNCHANGED where

Remove(c) ==
    /\ c \notin playing
    /\ where[c] # Nowhere
    /\ where' = [where EXCEPT ![c] = Nowhere]
    /\ UNCHANGED playing

Next == \E c \in Conns : Enter(c) \/ Move(c) \/ Quit(c) \/ Remove(c)

Spec == Init /\ [][Next]_vars
=============================================================================
