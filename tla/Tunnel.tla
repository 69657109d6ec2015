------------------------------- MODULE Tunnel -------------------------------
(***************************************************************************)
(* bridge_tunnel, backend/bridge.rs, for one player, with the loop of      *)
(* run() that calls it again after a switch or a reroute.  Four futures    *)
(* share the task: client_to_backend, backend_to_client, action_loop and   *)
(* client_writer.  select! drops the other three as soon as one returns,   *)
(* and with them client_rx, the packet client_to_backend has in hand and   *)
(* the map of pending suggestions.  The timers of root completion are      *)
(* tasks of their own; those of an earlier tunnel hold that tunnel's map   *)
(* and a closed channel, so they are forgotten at the exit.                *)
(*                                                                         *)
(* A packet is reduced to what the tunnel does with it.  Chat, commands    *)
(* and custom payloads are packets with an event; Message stands for a     *)
(* Message or a PluginMessage action.                                      *)
(***************************************************************************)
EXTENDS Naturals, Sequences, FiniteSets

CONSTANTS
    Ids,         \* transaction ids of command suggestion requests
    HasFallback, \* a fallback server is configured
    MaxOut,      \* bound: packets waiting in client_rx
    MaxActions,  \* bound: actions waiting in action_rx
    MaxAsked     \* bound: requests with one id, in one tunnel and at the backend

ASSUME TunnelAssumption ==
    /\ HasFallback \in BOOLEAN
    /\ MaxOut \in Nat /\ MaxActions \in Nat /\ MaxAsked \in Nat
    /\ \A i \in Ids : i \notin {"none", "event", "forward"}

VARIABLES
    phase,      \* "tunnel", the arm of run() being executed, or "closed"
    why,        \* what ended the last tunnel
    hand,       \* the packet client_to_backend has read and not finished with
    out,        \* client_rx
    actions,    \* action_rx
    pending,    \* keys of pending_suggestions
    timers,     \* per id, sleeping root completion timers
    woken,      \* per id, timers that have removed the entry, not yet sent
    atBackend,  \* per id, requests the backend has not answered
    asked,      \* per id, requests entered into pending_suggestions
    answered,   \* per id, answers with proxy matches the client has received
    kicks,      \* disconnect packets the proxy wrote to the client
    onFallback, \* current_server_name is the fallback
    skipped     \* packets of the present backend were dropped with client_rx

vars == <<phase, why, hand, out, actions, pending, timers, woken, atBackend, asked,
          answered, kicks, onFallback, skipped>>

\* Groups of variables that most actions leave alone together.
suggesting == <<pending, timers, woken, asked, answered>>
player == <<why, kicks, onFallback, skipped>>

Data == [kind |-> "data"]
Reply == [kind |-> "reply"]          \* a packet of the proxy's own
Answer(i) == [kind |-> "answer", id |-> i]

Message == "Message"
Connect == "Connect"
Disconnect == "Disconnect"

Zero == [i \in Ids |-> 0]
Plus(f, i) == [f EXCEPT ![i] = @ + 1]
Minus(f, i) == [f EXCEPT ![i] = @ - 1]

Init ==
    /\ phase = "tunnel" /\ why = "none" /\ hand = "none"
    /\ out = <<>> /\ actions = <<>>
    /\ pending = {} /\ timers = Zero /\ woken = Zero /\ atBackend = Zero
    /\ asked = Zero /\ answered = Zero
    /\ kicks = 0
    /\ onFallback \in {b \in BOOLEAN : b => HasFallback}
    /\ skipped = FALSE

\* select! returns because of w, and run() goes on with p.
Exit(w, p) ==
    /\ why' = w /\ phase' = p
    /\ hand' = "none" /\ out' = <<>>
    /\ pending' = {} /\ timers' = Zero /\ woken' = Zero
    /\ asked' = Zero /\ answered' = Zero
    /\ skipped' = (skipped \/ \E j \in DOMAIN out : out[j] = Data)
    /\ UNCHANGED <<kicks, onFallback>>

Send(p) == Len(out) < MaxOut /\ out' = Append(out, p)

-----------------------------------------------------------------------------
(* client_to_backend.                                                       *)

\* get_raw_packet has returned a packet that is passed on as it is, or one that
\* plugins are asked about first.
ReadPacket ==
    /\ phase = "tunnel" /\ hand = "none"
    /\ hand' \in {"forward", "event"}
    /\ UNCHANGED <<phase, out, actions, atBackend, suggesting, player>>

\* Arguments of a proxy command: the proxy answers by itself.
SuggestArguments ==
    /\ phase = "tunnel" /\ hand = "none"
    /\ Send(Reply)
    /\ UNCHANGED <<phase, hand, actions, atBackend, suggesting, player>>

\* Mutant: an id that has had a timer gets no other.
SuggestRootOneTimer(i) ==
    /\ phase = "tunnel" /\ hand = "none" /\ asked[i] < MaxAsked /\ atBackend[i] < MaxAsked
    /\ pending' = pending \cup {i}
    /\ timers' = IF asked[i] = 0 THEN Plus(timers, i) ELSE timers
    /\ asked' = Plus(asked, i)
    /\ hand' = i
    /\ UNCHANGED <<phase, out, actions, woken, answered, atBackend, player>>

\* Root completion with some proxy command that matches: the entry is made, or
\* replaced, a timer is spawned, and the request goes on to the backend.
SuggestRoot(i) ==
    /\ phase = "tunnel" /\ hand = "none" /\ asked[i] < MaxAsked /\ atBackend[i] < MaxAsked
    /\ pending' = pending \cup {i}
    /\ timers' = Plus(timers, i)
    /\ asked' = Plus(asked, i)
    /\ hand' = i
    /\ UNCHANGED <<phase, out, actions, woken, answered, atBackend, player>>

\* The plugins have had the event: cancelled, a proxy command, or passed on.  The
\* command runs here and may send its player a text, and then a Connect (/server).
EventDone ==
    /\ phase = "tunnel" /\ hand = "event"
    /\ \/ hand' \in {"none", "forward"} /\ UNCHANGED actions
       \/ /\ hand' = "none"
          /\ \E sent \in {<<Message>>, <<Message, Connect>>} :
               /\ Len(actions) + Len(sent) <= MaxActions
               /\ actions' = actions \o sent
    /\ UNCHANGED <<phase, out, atBackend, suggesting, player>>

\* The packet is written to the backend.
Forward ==
    /\ phase = "tunnel" /\ hand \in Ids \cup {"forward"}
    /\ hand' = "none"
    /\ atBackend' = IF hand \in Ids THEN Plus(atBackend, hand) ELSE atBackend
    /\ UNCHANGED <<phase, out, actions, suggesting, player>>

\* Mutant: a failed write is followed by another tunnel with the same backend.
ForwardFailsResumes ==
    /\ phase = "tunnel" /\ hand \in Ids \cup {"forward"}
    /\ Exit("backend", "tunnel")
    /\ UNCHANGED <<actions, atBackend>>

ForwardFails ==
    /\ phase = "tunnel" /\ hand \in Ids \cup {"forward"}
    /\ Exit("backend", "rerouting")
    /\ UNCHANGED <<actions, atBackend>>

\* The client's stream ends, or the packet limiter says no.
ClientEnds ==
    /\ phase = "tunnel" /\ hand = "none"
    /\ Exit("client", "closed")
    /\ UNCHANGED <<actions, atBackend>>

-----------------------------------------------------------------------------
(* backend_to_client.                                                       *)

\* Any packet but PlayDisconnect and an answer to a suggestion request; a Commands
\* packet has the proxy's commands put into it on the way.
BackendPacket ==
    /\ phase = "tunnel"
    /\ Send(Data)
    /\ UNCHANGED <<phase, hand, actions, atBackend, suggesting, player>>

\* The backend's answer takes the entry and is merged with its matches; without an
\* entry it is passed on unchanged.
BackendAnswer(i) ==
    /\ phase = "tunnel" /\ atBackend[i] > 0
    /\ atBackend' = Minus(atBackend, i)
    /\ Send(IF i \in pending THEN Answer(i) ELSE Data)
    /\ pending' = pending \ {i}
    /\ UNCHANGED <<phase, hand, actions, timers, woken, asked, answered, player>>

\* PlayDisconnect, or the end of the backend's stream.
BackendEnds ==
    /\ phase = "tunnel"
    /\ Exit("backend", "rerouting")
    /\ UNCHANGED <<actions, atBackend>>

-----------------------------------------------------------------------------
(* The timers of root completion.                                           *)

\* Mutant: the timer answers although the backend's answer has taken the entry.
TimerWakesBlind(i) ==
    /\ phase = "tunnel" /\ timers[i] > 0
    /\ timers' = Minus(timers, i)
    /\ pending' = pending \ {i}
    /\ woken' = Plus(woken, i)
    /\ UNCHANGED <<phase, hand, out, actions, atBackend, asked, answered, player>>

\* Mutant: the timer only clears the entry away.
TimerWakesSilent(i) ==
    /\ phase = "tunnel" /\ timers[i] > 0
    /\ timers' = Minus(timers, i)
    /\ pending' = pending \ {i}
    /\ UNCHANGED <<phase, hand, out, actions, atBackend, woken, asked, answered, player>>

\* 200 ms are over: the timer takes the entry, if there is one.
TimerWakes(i) ==
    /\ phase = "tunnel" /\ timers[i] > 0
    /\ timers' = Minus(timers, i)
    /\ pending' = pending \ {i}
    /\ woken' = IF i \in pending THEN Plus(woken, i) ELSE woken
    /\ UNCHANGED <<phase, hand, out, actions, atBackend, asked, answered, player>>

\* ... and sends the matches.
TimerAnswers(i) ==
    /\ phase = "tunnel" /\ woken[i] > 0
    /\ woken' = Minus(woken, i)
    /\ out' = Append(out, Answer(i))
    /\ UNCHANGED <<phase, hand, actions, atBackend, pending, timers, asked,
                   answered, player>>

-----------------------------------------------------------------------------
(* action_loop and client_writer.                                           *)

TakeMessage ==
    /\ phase = "tunnel" /\ actions # <<>> /\ Head(actions) = Message
    /\ Send(Reply)
    /\ actions' = Tail(actions)
    /\ UNCHANGED <<phase, hand, atBackend, suggesting, player>>

TakeConnect ==
    /\ phase = "tunnel" /\ actions # <<>> /\ Head(actions) = Connect
    /\ actions' = Tail(actions)
    /\ Exit("connect", "switching")
    /\ UNCHANGED <<atBackend>>

\* Mutant: the kick packet gets through before the exit and is sent again after it.
TakeDisconnectWrites ==
    /\ phase = "tunnel" /\ actions # <<>> /\ Head(actions) = Disconnect
    /\ actions' = Tail(actions)
    /\ why' = "kick" /\ phase' = "rerouting"
    /\ kicks' = kicks + 1
    /\ UNCHANGED <<hand, out, onFallback, skipped, suggesting, atBackend>>

\* A disconnect packet goes into client_rx, which the exit drops in the same poll.
TakeDisconnect ==
    /\ phase = "tunnel" /\ actions # <<>> /\ Head(actions) = Disconnect
    /\ actions' = Tail(actions)
    /\ Exit("kick", "rerouting")
    /\ UNCHANGED <<atBackend>>

\* client_writer writes and flushes the next packet.
Write ==
    /\ phase = "tunnel" /\ out # <<>>
    /\ out' = Tail(out)
    /\ answered' = [i \in Ids |-> IF Head(out) = Answer(i) THEN answered[i] + 1 ELSE answered[i]]
    /\ UNCHANGED <<phase, hand, actions, atBackend, pending, timers, woken, asked, player>>

WriteFails ==
    /\ phase = "tunnel" /\ out # <<>>
    /\ Exit("client", "closed")
    /\ UNCHANGED <<actions, atBackend>>

-----------------------------------------------------------------------------
(* run() between two tunnels; BackendBridge has its state, here is what the *)
(* client notices.                                                          *)

\* A plugin cancels the switch: the tunnel is entered again with the same backend.
SwitchCancelled ==
    /\ phase = "switching"
    /\ phase' = "tunnel"
    /\ UNCHANGED <<hand, out, actions, atBackend, suggesting, player>>

\* The new backend, or the fallback in its place, has taken the player.
Switched ==
    /\ phase = "switching"
    /\ phase' = "tunnel"
    /\ onFallback' \in {b \in BOOLEAN : b => HasFallback}
    /\ atBackend' = Zero /\ skipped' = FALSE
    /\ UNCHANGED <<why, kicks, hand, out, actions, suggesting>>

\* No such server, or the login failed: only the failed fallback says goodbye.
SwitchFails ==
    /\ phase = "switching"
    /\ phase' = "closed"
    /\ kicks' \in {kicks} \cup {k \in {kicks + 1} : HasFallback}
    /\ UNCHANGED <<why, onFallback, skipped, hand, out, actions, atBackend, suggesting>>

Rerouted ==
    /\ phase = "rerouting" /\ HasFallback /\ ~onFallback
    /\ phase' = "tunnel"
    /\ onFallback' = TRUE /\ atBackend' = Zero /\ skipped' = FALSE
    /\ UNCHANGED <<why, kicks, hand, out, actions, suggesting>>

\* disconnect_client, without a fallback to go to or because it failed.
RerouteFails ==
    /\ phase = "rerouting"
    /\ phase' = "closed"
    /\ kicks' = kicks + 1
    /\ UNCHANGED <<why, onFallback, skipped, hand, out, actions, atBackend, suggesting>>

\* A command, the console or a plugin sends through action_tx.
SendAction ==
    /\ phase # "closed" /\ Len(actions) < MaxActions
    /\ \E a \in {Message, Connect, Disconnect} : actions' = Append(actions, a)
    /\ UNCHANGED <<phase, hand, out, atBackend, suggesting, player>>

ClientToBackend ==
    \/ ReadPacket \/ SuggestArguments \/ EventDone \/ Forward \/ ForwardFails \/ ClientEnds
    \/ \E i \in Ids : SuggestRoot(i)
BackendToClient == BackendPacket \/ BackendEnds \/ \E i \in Ids : BackendAnswer(i)
Timers == \E i \in Ids : TimerWakes(i) \/ TimerAnswers(i)
ActionLoop == TakeMessage \/ TakeConnect \/ TakeDisconnect
ClientWriter == Write \/ WriteFails
BetweenTunnels == SwitchCancelled \/ Switched \/ SwitchFails \/ Rerouted \/ RerouteFails

Next ==
    \/ ClientToBackend \/ BackendToClient \/ Timers \/ ActionLoop \/ ClientWriter
    \/ BetweenTunnels \/ SendAction

Spec == Init /\ [][Next]_vars

\* Timers run out, and the task polls its writer.
FairSpec ==
    /\ Spec
    /\ WF_vars(Write)
    /\ \A i \in Ids : WF_vars(TimerWakes(i)) /\ WF_vars(TimerAnswers(i))

-----------------------------------------------------------------------------
(* Properties.                                                              *)

\* An entry of pending_suggestions cannot leak: as long as it is there, a timer that
\* will remove it is still asleep, also when ids are reused.
PendingHasTimer == \A i \in pending : timers[i] > 0

Waiting(i) == Cardinality({j \in DOMAIN out : out[j] = Answer(i)})

\* The proxy's matches are sent at most once per request: the answer and the timer,
\* which race for the entry, never both use it.
MatchesSentOnce ==
    \A i \in Ids :
        answered[i] + Waiting(i) + woken[i] + Cardinality(pending \cap {i}) <= asked[i]

\* A player dropped by a kick or by their backend gets one disconnect packet, not
\* none, and not one from action_loop and one from run().
KickPacketOnce ==
    /\ kicks <= 1
    /\ phase = "closed" /\ why \in {"kick", "backend"} => kicks = 1

\* A root completion request brings the client the proxy's matches, whatever the
\* backend does, unless the tunnel ends.
RequestAnswered ==
    \A i \in Ids : (asked[i] > 0) ~> (answered[i] > 0 \/ phase # "tunnel")

\* A player misses packets of the backend they are on only when a plugin has cancelled
\* a switch, the one case in which run() enters the tunnel again with the same backend.
GapOnlyByCancel == phase = "tunnel" /\ skipped => why = "connect"
=============================================================================
