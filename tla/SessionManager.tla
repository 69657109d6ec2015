--------------------------- MODULE SessionManager ---------------------------
(***************************************************************************)
(* The registry of connected players, session.rs.  The Rust map goes from  *)
(* the lower-case username to a PlayerSession; here a key stands for a     *)
(* lower-case username, and a session keeps the two fields the proxy       *)
(* decides on: the connection whose action_tx it holds, and the name of    *)
(* the current server.  Every operation holds the lock for its whole body, *)
(* so each one is a single step on the map.                                *)
(***************************************************************************)
CONSTANTS
    Conns,       \* client connections (one task each)
    Keys,        \* lower-case usernames
    ServerNames, \* names a server can be called by, configured or not
    NoSession    \* what the map holds for a username it does not contain

Session == [owner : Conns, server : ServerNames]

ASSUME SessionAssumption == NoSession \notin Session

Present(sessions, k) == sessions[k] # NoSession

\* The usernames the map contains: what list_sessions() and count() range over.
Listed(sessions) == {k \in Keys : Present(sessions, k)}

\* register inserts under the lower-case name.  An entry that is already there
\* is replaced, whichever connection it belongs to.
Register(sessions, k, c, s) ==
    [sessions EXCEPT ![k] = [owner |-> c, server |-> s]]

\* Mutant: unregister forgets the removal.
UnregisterKeeps(sessions, k) == sessions

\* unregister removes whatever the name maps to.
Unregister(sessions, k) ==
    [sessions EXCEPT ![k] = NoSession]

\* Mutant: update_server does not find the entry.
UpdateServerMisses(sessions, k, s) == sessions

\* update_server rewrites the current server of the entry, if there is one.
UpdateServer(sessions, k, s) ==
    IF Present(sessions, k)
    THEN [sessions EXCEPT ![k].server = s]
    ELSE sessions
=============================================================================
