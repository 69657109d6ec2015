---------------------------- MODULE BackendLogin ----------------------------
(***************************************************************************)
(* BackendBridge::connect_to_backend and login_backend, backend/bridge.rs: *)
(* the attempts to connect, then the login conversation with one backend.  *)
(* A packet carries the compression it was written with.  The backend is   *)
(* external: it asks on plugin channels, announces compression when none   *)
(* of its requests is open, sends packets the proxy passes over, accepts,  *)
(* refuses, or falls silent.                                               *)
(***************************************************************************)
EXTENDS Integers, Sequences

CONSTANTS
    Retries,      \* backend_connect_retry_attempts
    MaxPackets    \* bound: packets the backend sends in one login

Channels == {"vine:player_info", "velocity:player_info", "other"}
Attempts == IF Retries = 0 THEN 1 ELSE Retries

VARIABLES
    secret,       \* the backend's configuration has one
    pc,           \* "connect", "sleep", "login", "refused", "failed" or "ok"
    attempt,      \* the attempt being made
    sleeps,       \* pauses so far
    compressed,   \* the proxy's decoder and encoder for this backend
    backend,      \* the backend's
    asked,        \* channels of the requests the backend has sent, by message id
    sent,         \* packets it has sent
    toProxy, toBackend,
    answers,      \* the answers the backend has read
    garbled       \* a packet was read that its reader could not decode

link == <<compressed, backend, asked, sent, toProxy, toBackend, answers, garbled>>

Init ==
    /\ secret \in BOOLEAN
    /\ pc = "connect" /\ attempt = 1 /\ sleeps = 0
    /\ compressed = FALSE /\ backend = FALSE
    /\ asked = <<>> /\ sent = 0
    /\ toProxy = <<>> /\ toBackend = <<>> /\ answers = <<>>
    /\ garbled = FALSE

-----------------------------------------------------------------------------
(* connect_to_backend.                                                      *)

\* Handshake and login start follow at once; a failing write ends the login.
Connected ==
    /\ pc = "connect"
    /\ pc' \in {"login", "failed"}
    /\ UNCHANGED <<secret, attempt, sleeps, link>>

\* Mutant: the attempts are retries after a first one.
AttemptFailsOneMore ==
    /\ pc = "connect"
    /\ \/ attempt <= Retries /\ pc' = "sleep"
       \/ attempt > Retries /\ pc' = "refused"
    /\ UNCHANGED <<secret, attempt, sleeps, link>>

\* The connection is refused or not made in time.
AttemptFails ==
    /\ pc = "connect"
    /\ \/ attempt < Retries /\ pc' = "sleep"
       \/ attempt >= Retries /\ pc' = "refused"
    /\ UNCHANGED <<secret, attempt, sleeps, link>>

SleepEnds ==
    /\ pc = "sleep"
    /\ attempt' = attempt + 1
    /\ sleeps' = sleeps + 1
    /\ pc' = "connect"
    /\ UNCHANGED <<secret, link>>

-----------------------------------------------------------------------------
(* The loop of login_backend.                                               *)

Read(k) ==
    /\ pc = "login" /\ toProxy # <<>> /\ Head(toProxy).kind = k
    /\ toProxy' = Tail(toProxy)
    /\ garbled' = (garbled \/ Head(toProxy).mode # compressed)
    /\ UNCHANGED <<secret, attempt, sleeps, backend, asked, sent, answers>>

\* A read runs into its timeout, the backend has gone, or the packet does not parse.
ReadFails ==
    /\ pc = "login"
    /\ pc' = "failed"
    /\ UNCHANGED <<secret, attempt, sleeps, link>>

Disconnected ==
    /\ Read("disconnect")
    /\ pc' = "failed"
    /\ UNCHANGED <<compressed, toBackend>>

Answer(id, data) == [id |-> id, data |-> data, mode |-> compressed]

\* Mutant: only the forwarding channels are answered, and even without a secret.
PluginRequestIgnored ==
    /\ Read("request")
    /\ LET r == Head(toProxy) IN
       toBackend' = IF r.channel = "other" THEN toBackend
                    ELSE Append(toBackend, Answer(r.id, r.channel))
    /\ UNCHANGED <<pc, compressed>>

\* The two forwarding channels are answered with the player's data, signed with the
\* secret, without which the login fails; others are answered with None.
PluginRequest ==
    /\ Read("request")
    /\ LET r == Head(toProxy) IN
       \/ /\ r.channel = "other" \/ secret
          /\ toBackend' = Append(toBackend, Answer(r.id, r.channel))
          /\ UNCHANGED pc
       \/ /\ r.channel # "other" /\ ~secret
          /\ pc' = "failed" /\ UNCHANGED toBackend
    /\ UNCHANGED compressed

\* Mutant: a negative threshold compresses too.
SetCompressionAlways ==
    /\ Read("setCompression")
    /\ compressed' = TRUE
    /\ UNCHANGED <<pc, toBackend>>

\* A negative threshold leaves both directions as they are.
SetCompression ==
    /\ Read("setCompression")
    /\ compressed' = (compressed \/ Head(toProxy).threshold >= 0)
    /\ UNCHANGED <<pc, toBackend>>

Success ==
    /\ Read("success")
    /\ pc' = "ok"
    /\ UNCHANGED <<compressed, toBackend>>

Skipped ==
    /\ Read("unknown")
    /\ UNCHANGED <<pc, compressed, toBackend>>

-----------------------------------------------------------------------------
(* The backend.                                                             *)

\* Nothing follows a success or a disconnect.
Emit(p) ==
    /\ pc = "login" /\ sent < MaxPackets
    /\ sent' = IF p.kind \in {"success", "disconnect"} THEN MaxPackets ELSE sent + 1
    /\ toProxy' = Append(toProxy, p)
    /\ UNCHANGED <<secret, pc, attempt, sleeps, compressed, toBackend, answers, garbled>>

Asks ==
    /\ \E c \in Channels :
        /\ Emit([kind |-> "request", id |-> Len(asked) + 1, channel |-> c, mode |-> backend])
        /\ asked' = Append(asked, c)
    /\ UNCHANGED backend

Open == Len(answers) < Len(asked)

Announces ==
    /\ ~Open /\ ~backend
    /\ \E t \in {-1, 0, 256} :
        /\ Emit([kind |-> "setCompression", threshold |-> t, mode |-> backend])
        /\ backend' = (t >= 0)
    /\ UNCHANGED asked

Says ==
    /\ \E k \in {"disconnect", "unknown"} : Emit([kind |-> k, mode |-> backend])
    /\ UNCHANGED <<asked, backend>>

\* A backend accepts a player once its requests are answered.
Accepts ==
    /\ ~Open
    /\ Emit([kind |-> "success", mode |-> backend])
    /\ UNCHANGED <<asked, backend>>

BackendReads ==
    /\ pc = "login" /\ toBackend # <<>>
    /\ toBackend' = Tail(toBackend)
    /\ answers' = Append(answers, Head(toBackend))
    /\ garbled' = (garbled \/ Head(toBackend).mode # backend)
    /\ UNCHANGED <<secret, pc, attempt, sleeps, compressed, backend, asked, sent, toProxy>>

-----------------------------------------------------------------------------
Connect == Connected \/ AttemptFails \/ SleepEnds
Handle == Disconnected \/ PluginRequest \/ SetCompression \/ Success \/ Skipped
Backend == Asks \/ Announces \/ Says \/ Accepts \/ BackendReads

\* The streams of a failed login are dropped; the next login is with another backend.
Restart ==
    /\ pc \in {"refused", "failed"}
    /\ secret' \in BOOLEAN
    /\ pc' = "connect" /\ attempt' = 1 /\ sleeps' = 0
    /\ compressed' = FALSE /\ backend' = FALSE
    /\ asked' = <<>> /\ sent' = 0
    /\ toProxy' = <<>> /\ toBackend' = <<>> /\ answers' = <<>>
    /\ garbled' = FALSE

-----------------------------------------------------------------------------
(* Properties.                                                              *)

\* Every attempt is used before the backend is given up, a retry count of 0 still makes
\* one, and there is a pause between two attempts and none after the last.
AttemptsExact ==
    /\ attempt <= Attempts
    /\ pc = "refused" => attempt = Attempts
    /\ pc # "sleep" => sleeps = attempt - 1

\* Requests are answered once each, in order and on their own channel; those that are
\* not are exactly the ones the proxy has still to read, unless the login has failed.  A
\* backend that asks for the player's data and then gets the player has had them signed
\* with a secret.
RequestsAnswered ==
    LET all == answers \o toBackend
        unread == {i \in DOMAIN toProxy : toProxy[i].kind = "request"} IN
    /\ \A i \in DOMAIN all : all[i].id = i /\ all[i].data = asked[i]
    /\ pc # "failed" => {toProxy[i].id : i \in unread} = Len(all) + 1 .. Len(asked)
    /\ pc = "ok" => secret \/ \A i \in DOMAIN asked : asked[i] = "other"

\* Proxy and backend can decode each other's packets although compression begins in
\* the middle of the conversation, at different moments on the two sides.
ConversationReadable == ~garbled
=============================================================================
