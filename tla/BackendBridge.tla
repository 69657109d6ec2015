---------------------------- MODULE BackendBridge ----------------------------
(***************************************************************************)
(* BackendBridge::run, backend/bridge.rs: one task per player, from the    *)
(* first ServerConnect event to the cleanup after the tunnel has ended,    *)
(* together with what the tasks share: the SessionManager, the counter     *)
(* online_players, and the action channel of each player, which other      *)
(* tasks, commands and plugins reach through the registry.                 *)
(*                                                                         *)
(* A step ends where the task awaits or touches shared state.  A backend   *)
(* login is one step with two outcomes.  The channel keeps the actions     *)
(* that end a tunnel, Connect and Disconnect: Message and PluginMessage    *)
(* only produce packets, and nothing in the repository sends a Transfer.   *)
(***************************************************************************)
EXTENDS Integers, Sequences, FiniteSets, SessionManager

CONSTANTS
    NameOf,      \* the lower-case username of a connection's player
    Servers,     \* the configured servers
    Fallback,    \* fallback_server of the bridge, or NoServer
    NoServer,
    PluginNames, \* target_server values a ServerConnect handler may write
    MaxQueue     \* bound: actions waiting in one channel

ASSUME BridgeAssumption ==
    /\ IsFiniteSet(Conns)
    /\ NameOf \in [Conns -> Keys]
    /\ Servers \subseteq ServerNames /\ PluginNames \subseteq ServerNames
    /\ NoServer \notin ServerNames
    /\ Fallback \in Servers \cup {NoServer}
    /\ MaxQueue \in Nat

VARIABLES
    stage,    \* where the task is in run()
    current,  \* current_server_name
    target,   \* the server being logged in to
    attached, \* the server whose socket backend_decoder/encoder hold
    queue,    \* action_rx
    sessions, \* SessionManager::sessions
    online,   \* online_players
    held,     \* connections whose action_tx was read from the registry, unused yet
    joined,   \* players announced by PlayerJoin, not yet by PlayerDisconnect
    told,     \* server_name of the player's last ServerConnected event
    rerouted, \* players a failure has moved to the fallback since that event
    kicked    \* connections that have taken a Disconnect action

vars == <<stage, current, target, attached, queue, sessions, online, held,
          joined, told, rerouted, kicked>>

\* The stages, in program order.
BeforeCount == {"idle", "connectEvent", "login", "loginFallback", "forward"}
Welcome     == {"fireConnected", "fireJoin", "register"}
Playing     == {"tunnel", "switchEvent", "switchLogin", "switched",
                "switchFallback", "recover"}
Closing     == {"fireDisconnect", "unregister"}
Registered  == Playing \cup Closing
CountedIn   == Welcome \cup Registered \cup {"uncount"}
Stages      == BeforeCount \cup CountedIn

Connect(s) == [kind |-> "Connect", server |-> s]
Disconnect == [kind |-> "Disconnect"]
PlayerAction == {Connect(s) : s \in Servers} \cup {Disconnect}

Init ==
    /\ stage = [c \in Conns |-> "idle"]
    /\ current = [c \in Conns |-> NoServer]
    /\ target = [c \in Conns |-> NoServer]
    /\ attached = [c \in Conns |-> NoServer]
    /\ queue = [c \in Conns |-> <<>>]
    /\ sessions = [k \in Keys |-> NoSession]
    /\ online = 0
    /\ held = {}
    /\ joined = {}
    /\ told = [c \in Conns |-> NoServer]
    /\ rerouted = {}
    /\ kicked = {}

Goto(c, s) == stage' = [stage EXCEPT ![c] = s]
Set(f, c, v) == [f EXCEPT ![c] = v]

\* run() returns: its locals are dropped, the receiver of the channel with them,
\* so that a sender still held by someone fails from now on.
Return(c) ==
    /\ Goto(c, "idle")
    /\ current' = Set(current, c, NoServer)
    /\ target' = Set(target, c, NoServer)
    /\ attached' = Set(attached, c, NoServer)
    /\ queue' = Set(queue, c, <<>>)
    /\ held' = held \ {c}
    /\ told' = Set(told, c, NoServer)
    /\ rerouted' = rerouted \ {c}
    /\ kicked' = kicked \ {c}

-----------------------------------------------------------------------------
(* Up to the tunnel.                                                        *)

\* A client has logged in and the router has found server s for its host.
Start(c) ==
    /\ stage[c] = "idle"
    /\ \E s \in Servers : current' = Set(current, c, s)
    /\ Goto(c, "connectEvent")
    /\ UNCHANGED <<target, attached, queue, sessions, online, held, joined, told, rerouted, kicked>>

\* The first ServerConnect event.  A handler may cancel it, or rename the target;
\* an unknown name is kept as the server's name while self.config is used.
ConnectEvent(c) ==
    /\ stage[c] = "connectEvent"
    /\ \/ Return(c)
       \/ \E t \in PluginNames \cup {current[c]} :
            /\ current' = Set(current, c, t)
            /\ target' = Set(target, c, IF t \in Servers THEN t ELSE current[c])
            /\ Goto(c, "login")
            /\ UNCHANGED <<attached, queue, held, told, rerouted, kicked>>
    /\ UNCHANGED <<sessions, online, joined>>

\* A fallback is configured and it is not the server that has just failed.
CanFallback(s) == Fallback # NoServer /\ Fallback # s

\* Mutant: the fallback is logged in to under the name of the failed server.
LoginKeepsName(c) ==
    /\ stage[c] = "login"
    /\ \/ /\ attached' = Set(attached, c, target[c])
          /\ Goto(c, "forward")
          /\ UNCHANGED <<current, target, queue, held, told, rerouted, kicked>>
       \/ /\ CanFallback(current[c])
          /\ target' = Set(target, c, Fallback)
          /\ Goto(c, "loginFallback")
          /\ UNCHANGED <<current, attached, queue, held, told, rerouted, kicked>>
       \/ ~CanFallback(current[c]) /\ Return(c)
    /\ UNCHANGED <<sessions, online, joined>>

\* The first login; when it fails the fallback is tried once.
Login(c) ==
    /\ stage[c] = "login"
    /\ \/ /\ attached' = Set(attached, c, target[c])
          /\ Goto(c, "forward")
          /\ UNCHANGED <<current, target, queue, held, told, rerouted, kicked>>
       \/ /\ CanFallback(current[c])
          /\ current' = Set(current, c, Fallback)
          /\ target' = Set(target, c, Fallback)
          /\ Goto(c, "loginFallback")
          /\ UNCHANGED <<attached, queue, held, told, rerouted, kicked>>
       \/ ~CanFallback(current[c]) /\ Return(c)
    /\ UNCHANGED <<sessions, online, joined>>

LoginFallback(c) ==
    /\ stage[c] = "loginFallback"
    /\ \/ /\ attached' = Set(attached, c, target[c])
          /\ Goto(c, "forward")
          /\ UNCHANGED <<current, target, queue, held, told, rerouted, kicked>>
       \/ Return(c)
    /\ UNCHANGED <<sessions, online, joined>>

\* Mutant: the player is counted before the packet is written.
ForwardSuccessLeaks(c) ==
    /\ stage[c] = "forward"
    /\ online' = online + 1
    /\ \/ /\ Goto(c, "fireConnected")
          /\ target' = Set(target, c, NoServer)
          /\ UNCHANGED <<current, attached, queue, held, told, rerouted, kicked>>
       \/ Return(c)
    /\ UNCHANGED <<sessions, joined>>

\* Login success goes to the client, then online_players.fetch_add.
ForwardSuccess(c) ==
    /\ stage[c] = "forward"
    /\ \/ /\ online' = online + 1
          /\ Goto(c, "fireConnected")
          /\ target' = Set(target, c, NoServer)
          /\ UNCHANGED <<current, attached, queue, held, told, rerouted, kicked>>
       \/ Return(c) /\ UNCHANGED online
    /\ UNCHANGED <<sessions, joined>>

\* Mutant: PlayerJoin is left out.
FireConnectedSkipsJoin(c) ==
    /\ stage[c] = "fireConnected"
    /\ told' = Set(told, c, current[c])
    /\ Goto(c, "register")
    /\ UNCHANGED <<current, target, attached, queue, sessions, online, held, joined, rerouted, kicked>>

FireConnected(c) ==
    /\ stage[c] = "fireConnected"
    /\ told' = Set(told, c, current[c])
    /\ Goto(c, "fireJoin")
    /\ UNCHANGED <<current, target, attached, queue, sessions, online, held, joined, rerouted, kicked>>

FireJoin(c) ==
    /\ stage[c] = "fireJoin"
    /\ joined' = joined \cup {c}
    /\ Goto(c, "register")
    /\ UNCHANGED <<current, target, attached, queue, sessions, online, held, told, rerouted, kicked>>

\* The channel is made and the session registered.
RegisterSession(c) ==
    /\ stage[c] = "register"
    /\ sessions' = Register(sessions, NameOf[c], c, current[c])
    /\ Goto(c, "tunnel")
    /\ UNCHANGED <<current, target, attached, queue, online, held, joined, told, rerouted, kicked>>

-----------------------------------------------------------------------------
(* The tunnel and its exits.                                                *)

\* The arm for BackendDisconnected: log in to the fallback, or kick and leave.
BackendDisconnected(c) ==
    \/ CanFallback(current[c]) /\ Goto(c, "recover")
    \/ ~CanFallback(current[c]) /\ Goto(c, "fireDisconnect")

\* Mutant: run() returns where it should break out of the loop.
ClientGoneReturns(c) ==
    /\ stage[c] = "tunnel"
    /\ Return(c)
    /\ UNCHANGED <<sessions, online, joined>>

\* The client's stream ends, a write to it fails, or it floods the proxy.
ClientGone(c) ==
    /\ stage[c] = "tunnel"
    /\ Goto(c, "fireDisconnect")
    /\ UNCHANGED <<current, target, attached, queue, sessions, online, held, joined, told, rerouted, kicked>>

\* The backend's stream ends, a write to it fails, or it sends PlayDisconnect.
BackendGone(c) ==
    /\ stage[c] = "tunnel"
    /\ BackendDisconnected(c)
    /\ UNCHANGED <<current, target, attached, queue, sessions, online, held, joined, told, rerouted, kicked>>

\* action_loop takes a Connect.
TakeConnect(c) ==
    /\ stage[c] = "tunnel"
    /\ queue[c] # <<>> /\ Head(queue[c]).kind = "Connect"
    /\ target' = Set(target, c, Head(queue[c]).server)
    /\ queue' = Set(queue, c, Tail(queue[c]))
    /\ Goto(c, "switchEvent")
    /\ UNCHANGED <<current, attached, sessions, online, held, joined, told, rerouted, kicked>>

\* Mutant: the kick only sends its packet and the tunnel goes on.
TakeDisconnectStays(c) ==
    /\ stage[c] = "tunnel"
    /\ queue[c] # <<>> /\ Head(queue[c]).kind = "Disconnect"
    /\ queue' = Set(queue, c, Tail(queue[c]))
    /\ UNCHANGED <<stage, current, target, attached, sessions, online, held, joined, told, rerouted, kicked>>

\* action_loop takes a Disconnect: the tunnel ends as if the backend had closed.
TakeDisconnect(c) ==
    /\ stage[c] = "tunnel"
    /\ queue[c] # <<>> /\ Head(queue[c]).kind = "Disconnect"
    /\ kicked' = kicked \cup {c}
    /\ queue' = Set(queue, c, Tail(queue[c]))
    /\ BackendDisconnected(c)
    /\ UNCHANGED <<current, target, attached, sessions, online, held, joined, told, rerouted>>

\* ServerConnect for a switch: cancelled, renamed to a server that does not
\* exist (the player leaves), or go on to the login.
SwitchEvent(c) ==
    /\ stage[c] = "switchEvent"
    /\ \/ Goto(c, "tunnel") /\ target' = Set(target, c, NoServer)
       \/ \E t \in PluginNames \cup {target[c]} :
            \/ /\ t \in Servers
               /\ target' = Set(target, c, t)
               /\ Goto(c, "switchLogin")
            \/ /\ t \notin Servers
               /\ target' = Set(target, c, NoServer)
               /\ Goto(c, "fireDisconnect")
    /\ UNCHANGED <<current, attached, queue, sessions, online, held, joined, told, rerouted, kicked>>

\* A login on another backend has succeeded: the new halves replace the old ones,
\* current_server_name is assigned and the session updated.
MoveTo(c, s) ==
    /\ current' = Set(current, c, s)
    /\ attached' = Set(attached, c, s)
    /\ target' = Set(target, c, NoServer)
    /\ sessions' = UpdateServer(sessions, NameOf[c], s)

SwitchLogin(c) ==
    /\ stage[c] = "switchLogin"
    /\ \/ MoveTo(c, target[c]) /\ Goto(c, "switched")
       \/ /\ target' = Set(target, c, NoServer)
          /\ \/ CanFallback(target[c]) /\ Goto(c, "switchFallback")
             \/ ~CanFallback(target[c]) /\ Goto(c, "fireDisconnect")
          /\ UNCHANGED <<current, attached, sessions>>
    /\ UNCHANGED <<queue, online, held, joined, told, rerouted, kicked>>

\* Mutant: a switch is not announced.
FireSwitchedSkipped(c) ==
    /\ stage[c] = "switched"
    /\ Goto(c, "tunnel")
    /\ UNCHANGED <<current, target, attached, queue, sessions, online, held, joined, told, rerouted, kicked>>

FireSwitched(c) ==
    /\ stage[c] = "switched"
    /\ told' = Set(told, c, current[c])
    /\ rerouted' = rerouted \ {c}
    /\ Goto(c, "tunnel")
    /\ UNCHANGED <<current, target, attached, queue, sessions, online, held, joined, kicked>>

\* The switch failed: the fallback is tried, whatever became of the old backend.
SwitchFallback(c) ==
    /\ stage[c] = "switchFallback"
    /\ \/ /\ MoveTo(c, Fallback)
          /\ rerouted' = rerouted \cup {c}
          /\ Goto(c, "tunnel")
       \/ /\ Goto(c, "fireDisconnect")
          /\ UNCHANGED <<current, target, attached, sessions, rerouted>>
    /\ UNCHANGED <<queue, online, held, joined, told, kicked>>

\* The backend is gone: the fallback is tried once.
Recover(c) ==
    /\ stage[c] = "recover"
    /\ \/ /\ MoveTo(c, Fallback)
          /\ rerouted' = rerouted \cup {c}
          /\ Goto(c, "tunnel")
       \/ /\ Goto(c, "fireDisconnect")
          /\ UNCHANGED <<current, target, attached, sessions, rerouted>>
    /\ UNCHANGED <<queue, online, held, joined, told, kicked>>

-----------------------------------------------------------------------------
(* Cleanup.                                                                 *)

FireDisconnect(c) ==
    /\ stage[c] = "fireDisconnect"
    /\ joined' = joined \ {c}
    /\ Goto(c, "unregister")
    /\ UNCHANGED <<current, target, attached, queue, sessions, online, held, told, rerouted, kicked>>

UnregisterSession(c) ==
    /\ stage[c] = "unregister"
    /\ sessions' = Unregister(sessions, NameOf[c])
    /\ Goto(c, "uncount")
    /\ UNCHANGED <<current, target, attached, queue, online, held, joined, told, rerouted, kicked>>

\* online_players.fetch_sub, and run() returns.
Uncount(c) ==
    /\ stage[c] = "uncount"
    /\ online' = online - 1
    /\ Return(c)
    /\ UNCHANGED <<sessions, joined>>

-----------------------------------------------------------------------------
(* Commands, the console and plugins.                                       *)

\* /server s typed by the player: refused when the registry already has the
\* player on s, else a Connect goes into the player's own channel.
ServerCommand(c) ==
    /\ stage[c] = "tunnel" /\ Len(queue[c]) < MaxQueue
    /\ \E s \in Servers :
        /\ ~(Present(sessions, NameOf[c]) /\ sessions[NameOf[c]].server = s)
        /\ queue' = Set(queue, c, Append(queue[c], Connect(s)))
    /\ UNCHANGED <<stage, current, target, attached, sessions, online, held, joined, told, rerouted, kicked>>

\* Somebody reads the registry: get_session and list_sessions clone the senders.
Lookup ==
    /\ \E K \in SUBSET Listed(sessions) :
        /\ K # {}
        /\ held' = held \cup {sessions[k].owner : k \in K}
    /\ UNCHANGED <<stage, current, target, attached, queue, sessions, online, joined, told, rerouted, kicked>>

\* ... and sends through a clone it holds, perhaps the last one outstanding: /send,
\* connect_player, disconnect_player.
SendHeld(c) ==
    /\ c \in held /\ Len(queue[c]) < MaxQueue
    /\ \E a \in PlayerAction : queue' = Set(queue, c, Append(queue[c], a))
    /\ held' \in {held, held \ {c}}
    /\ UNCHANGED <<stage, current, target, attached, sessions, online, joined, told, rerouted, kicked>>

-----------------------------------------------------------------------------
\* Steps of a player's own task that await a client, a backend or a plugin.  A write to the
\* client has no timeout, an event is over when every handler has returned, and the timeout
\* of a login starts again with every packet.
Awaiting(c) ==
    \/ ConnectEvent(c) \/ Login(c) \/ LoginFallback(c) \/ ForwardSuccess(c)
    \/ FireConnected(c) \/ FireJoin(c)
    \/ SwitchEvent(c) \/ SwitchLogin(c) \/ FireSwitched(c) \/ SwitchFallback(c)
    \/ Recover(c) \/ FireDisconnect(c)

\* Steps it takes without anybody's help.
Alone(c) ==
    \/ RegisterSession(c) \/ TakeConnect(c) \/ TakeDisconnect(c)
    \/ UnregisterSession(c) \/ Uncount(c)

Task(c) == Awaiting(c) \/ Alone(c)

\* What clients, backends and operators may do, at any time or never.
Environment(c) ==
    Start(c) \/ ClientGone(c) \/ BackendGone(c) \/ ServerCommand(c) \/ SendHeld(c)

Next == Lookup \/ \E c \in Conns : Task(c) \/ Environment(c)

Spec == Init /\ [][Next]_vars

\* The runtime polls every task that can go on.  A tunnel takes its actions in the same task
\* in which the player's commands run, so that they come to an end is part of this (see
\* CommandsFinish).  Nothing is assumed of clients, backends and plugins.
FairSpec == Spec /\ \A c \in Conns : WF_vars(Alone(c))

-----------------------------------------------------------------------------
(* Properties.                                                              *)

\* Types of the variables; online_players is a usize and must not wrap below 0.
TypeOK ==
    /\ stage \in [Conns -> Stages]
    /\ current \in [Conns -> ServerNames \cup {NoServer}]
    /\ target \in [Conns -> Servers \cup {NoServer}]
    /\ attached \in [Conns -> Servers \cup {NoServer}]
    /\ queue \in [Conns -> Seq(PlayerAction)]
    /\ sessions \in [Keys -> Session \cup {NoSession}]
    /\ online \in Nat
    /\ held \subseteq Conns
    /\ joined \subseteq Conns
    /\ told \in [Conns -> ServerNames \cup {NoServer}]
    /\ rerouted \subseteq Conns
    /\ kicked \subseteq Conns

Counted == {c \in Conns : stage[c] \in CountedIn}

\* online_players is exactly the number of tasks between fetch_add and fetch_sub:
\* no early return, failed login, failed switch or kick leaks or double-frees a slot.
OnlineExact == online = Cardinality(Counted)

\* A session in the registry always belongs to a task that has registered and not
\* yet unregistered under that name, even when two players share a name.
NoGhostSession ==
    \A k \in Keys : Present(sessions, k) =>
        /\ NameOf[sessions[k].owner] = k
        /\ stage[sessions[k].owner] \in Registered

\* get-player-count (the registry) never exceeds the status count (the counter).
RegistryWithinOnline == Cardinality(Listed(sessions)) <= online

\* A player found in the registry has been announced to plugins by PlayerJoin and
\* not yet taken back by PlayerDisconnect, except right before unregister.
ListedWereAnnounced ==
    \A k \in Keys : Present(sessions, k) =>
        \/ sessions[k].owner \in joined
        \/ stage[sessions[k].owner] = "unregister"

\* From register to unregister the player is found in the registry, under their
\* own connection and on the server the bridge believes they are on.
PlayersListed ==
    \A c \in Conns : stage[c] \in Registered =>
        sessions[NameOf[c]] = [owner |-> c, server |-> current[c]]

\* While playing on a server known by a configured name, packets really go there:
\* name and socket only part company when a plugin invents a name.
NameMatchesBackend ==
    \A c \in Conns : stage[c] \in Playing /\ current[c] \in Servers =>
        attached[c] = current[c]

\* Whenever packets flow, the last ServerConnected event named the player's server, unless
\* since then a lost backend or a failed switch has moved the player to the fallback, which
\* fires no event; a player who joins the fallback or switches to it is announced.
PluginViewCurrent ==
    \A c \in Conns : stage[c] = "tunnel" =>
        told[c] = current[c] \/ (c \in rerouted /\ current[c] = Fallback)

\* A player who has been kicked by a Disconnect action is not tunnelled again.
KickSticks == \A c \in kicked : stage[c] # "tunnel"

\* Whatever a connection's task awaits comes, or fails.
Answered(c) == WF_vars(Awaiting(c))

\* A Disconnect waiting in a player's channel ends the connection, through any switches
\* queued before it, if only what this connection itself awaits comes or fails: nothing
\* another connection does or leaves undone, also one under the same name, can hold it up.
KickEnds ==
    \A c \in Conns : Answered(c) =>
        ((\E i \in DOMAIN queue[c] : queue[c][i] = Disconnect) ~> (stage[c] = "idle"))

\* The registry as the rest of the proxy sees it.
Where ==
    [c \in Conns |-> IF sessions[NameOf[c]] # NoSession /\ sessions[NameOf[c]].owner = c
                     THEN sessions[NameOf[c]].server ELSE NoServer]
PlayingConns == {c \in Conns : stage[c] \in Playing}

Directory == INSTANCE PlayerDirectory
    WITH where <- Where, playing <- PlayingConns, Nowhere <- NoServer

\* With distinct names the bridge tasks and the registry implement the directory:
\* nobody's entry is touched by anybody else's connection, and it is there as long
\* as the player plays.
ImplementsDirectory == Directory!Spec

\* No two connections share a lower-case username.
UniqueNames == \A c, d \in Conns : NameOf[c] = NameOf[d] => c = d
=============================================================================
