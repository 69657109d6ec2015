----------------------------- MODULE PlayerLogin -----------------------------
(***************************************************************************)
(* A player from the handshake to the tunnel: the client's login           *)
(* (ClientHandler) and then, in BackendBridge::run, backend/bridge.rs, the *)
(* login with a backend (BackendLogin) and, if that fails, with the        *)
(* fallback, while the client waits for its login success.                 *)
(***************************************************************************)
EXTENDS ClientHandler

CONSTANTS
    Retries,      \* backend_connect_retry_attempts
    MaxPackets    \* bound: packets a backend sends in one login

ASSUME LoginAssumption == Retries \in Nat /\ MaxPackets \in Nat

VARIABLES
    secret, pc, attempt, sleeps,
    compressed, backend, asked, sent, fromBackend, toBackend, answers, muddled

Login == INSTANCE BackendLogin WITH toProxy <- fromBackend, garbled <- muddled
backendVars == <<secret, pc, attempt, sleeps, compressed, backend, asked, sent,
                 fromBackend, toBackend, answers, muddled>>
vars == <<clientVars, backendVars>>

Init == ClientInit /\ Login!Init

-----------------------------------------------------------------------------
(* run, until the tunnel.                                                   *)

\* The server-connect event: a plugin cancels, which ends the connection without a kick,
\* or chooses the server; a server does not fall back on itself.
BeginLogin ==
    /\ stage = "bridge"
    /\ \/ stage' = "closed" /\ UNCHANGED route
       \/ \E target \in Names :
            /\ route' = [server |-> target,
                         fallback |-> IF route.fallback = target THEN NoServer ELSE route.fallback]
            /\ stage' = "login"
    /\ UNCHANGED <<proxy, toClient, kicked, backendVars>> /\ Local

\* login_backend.
LoginBackend ==
    /\ stage = "login"
    /\ Login!Connect \/ Login!Handle \/ Login!ReadFails
    /\ UNCHANGED clientVars

\* A failed login is followed by one with the fallback, or ends the connection.
FailOver ==
    /\ stage = "login" /\ Login!Restart
    /\ \/ /\ route.fallback # NoServer
          /\ route' = [server |-> route.fallback, fallback |-> NoServer]
          /\ UNCHANGED stage
       \/ route.fallback = NoServer /\ stage' = "closed" /\ UNCHANGED route
    /\ UNCHANGED <<proxy, toClient, kicked>> /\ Local

\* The backend's login success is passed on, in the client's own framing.
Forward ==
    /\ stage = "login" /\ pc = "ok"
    /\ UNCHANGED <<proxy, route, kicked, backendVars>> /\ Local
    /\ Write("loginSuccess", "play")

-----------------------------------------------------------------------------
\* The task of the connection.
Task ==
    \/ Handler /\ UNCHANGED backendVars
    \/ BeginLogin \/ LoginBackend \/ FailOver \/ Forward

\* Both ends of the proxy are external.
Peers ==
    \/ ClientReads /\ UNCHANGED backendVars
    \/ stage = "login" /\ Login!Backend /\ UNCHANGED clientVars

Next == Task \/ Peers
Spec == Init /\ [][Next]_vars

\* The task's waits end: reads, connection attempts and the session server have
\* timeouts, small writes fit the socket's buffer, and event handlers return.
\* Nothing is assumed of the client and the backends.
FairSpec == Spec /\ WF_vars(Task)

-----------------------------------------------------------------------------
(* Properties.  LoginReadable is ClientHandler's.                           *)

\* However silent the client and the backends are, the player gets to play or the
\* connection is closed: no wait of the login, a retry or the failover is without end.
LoginEnds == <>(stage \in {"play", "closed"})

\* The retries of every login are exact (BackendLogin).
AttemptsExact == Login!AttemptsExact

\* Every backend's login requests are answered in order (BackendLogin).
RequestsAnswered == Login!RequestsAnswered

\* Proxy and backend can decode each other's packets (BackendLogin), also after a
\* failover from a backend that had switched compression on.
ConversationReadable == Login!ConversationReadable
=============================================================================
