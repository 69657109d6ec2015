------------------------- MODULE BackendBridgeProofs -------------------------
(***************************************************************************)
(* The properties of BackendBridge for any number of connections, names,   *)
(* servers and queued actions.                                             *)
(***************************************************************************)
EXTENDS BackendBridge, FiniteSetTheorems, TLAPS

\* What a task knows of its servers at each stage; TypeOK is not inductive without.
Located ==
    \A c \in Conns :
        /\ stage[c] # "idle" => current[c] \in ServerNames
        /\ stage[c] = "connectEvent" => current[c] \in Servers
        /\ stage[c] \in {"login", "loginFallback", "switchEvent", "switchLogin"}
            => target[c] \in Servers
        /\ stage[c] \in {"loginFallback", "switchFallback", "recover"}
            => Fallback \in Servers

IInv == TypeOK /\ Located /\ OnlineExact

\* Taking the first action leaves a queue of actions.
LEMMA HeadOfQueue ==
    ASSUME NEW q \in Seq(PlayerAction), q # <<>>
    PROVE  /\ Head(q) \in PlayerAction
           /\ Tail(q) \in Seq(PlayerAction)
           /\ Head(q).kind = "Connect" => Head(q).server \in Servers
<1>1. Head(q) \in PlayerAction /\ Tail(q) \in Seq(PlayerAction)
  OBVIOUS
<1>2. ASSUME NEW a \in PlayerAction, a.kind = "Connect" PROVE a.server \in Servers
  <2>1. CASE a = Disconnect
    BY <1>2, <2>1 DEF Disconnect
  <2>2. CASE a # Disconnect
    BY <2>2 DEF PlayerAction, Connect
  <2> QED BY <2>1, <2>2
<1> QED BY <1>1, <1>2

\* The counted tasks can be counted.
LEMMA CountedFinite == IsFiniteSet(Counted) /\ Cardinality(Counted) \in Nat
<1>1. Counted \subseteq Conns BY DEF Counted
<1>2. IsFiniteSet(Counted) BY <1>1, FS_Subset, BridgeAssumption
<1> QED BY <1>2, FS_CardinalityType

\* No task has started: Init establishes the invariant.
LEMMA InitIInv == Init => IInv
<1> SUFFICES ASSUME Init PROVE IInv
  OBVIOUS
<1> USE DEF Init
<1>1. TypeOK
  BY DEF TypeOK, Stages, BeforeCount
<1>2. Located
  BY DEF Located
<1>3. OnlineExact
  <2>1. Counted = {} BY DEF Counted, CountedIn, Welcome, Registered, Playing, Closing
  <2> QED BY <2>1, FS_EmptySet DEF OnlineExact
<1> QED BY <1>1, <1>2, <1>3 DEF IInv

\* update_server keeps the registry a map of sessions.
LEMMA UpdateServerType ==
    ASSUME NEW k \in Keys, NEW s \in ServerNames,
           sessions \in [Keys -> Session \cup {NoSession}]
    PROVE  UpdateServer(sessions, k, s) \in [Keys -> Session \cup {NoSession}]
<1>1. CASE sessions[k] = NoSession
  BY <1>1 DEF UpdateServer, Present
<1>2. CASE sessions[k] # NoSession
  <2>1. [sessions[k] EXCEPT !.server = s] \in Session
    BY <1>2 DEF Session
  <2>2. UpdateServer(sessions, k, s)
          = [sessions EXCEPT ![k] = [sessions[k] EXCEPT !.server = s]]
    BY <1>2 DEF UpdateServer, Present
  <2> QED BY <2>1, <2>2
<1> QED BY <1>1, <1>2

\* Dropping the locals of run() is always type correct.
LEMMA ReturnTypes ==
    ASSUME TypeOK, Located, online' \in Nat, NEW c \in Conns,
           Return(c), UNCHANGED <<sessions, joined>>
    PROVE  TypeOK' /\ Located'
<1> USE DEF TypeOK, Located, Goto, Set, Return, Stages, BeforeCount
<1>1. TypeOK' OBVIOUS
<1>2. Located' OBVIOUS
<1> QED BY <1>1, <1>2

\* Moving to a configured server is type correct.
LEMMA MoveTypes ==
    ASSUME TypeOK, Located, NEW c \in Conns, NEW s \in Servers, NEW t \in {"switched", "tunnel"},
           MoveTo(c, s), Goto(c, t), stage[c] # "idle", rerouted' \subseteq Conns,
           UNCHANGED <<queue, online, held, joined, told, kicked>>
    PROVE  TypeOK' /\ Located'
<1> USE BridgeAssumption DEF TypeOK, Located, Goto, Set, MoveTo, Stages, CountedIn, Registered, Playing
<1>1. sessions' \in [Keys -> Session \cup {NoSession}]
  BY UpdateServerType, Zenon
<1>2. TypeOK' BY <1>1
<1>3. Located' OBVIOUS
<1> QED BY <1>2, <1>3

\* Every step of a task, a command or a plugin keeps the types and Located.
LEMMA TypeStep ==
    ASSUME TypeOK, Located, online' \in Nat, [Next]_vars
    PROVE  TypeOK' /\ Located'
<1> USE BridgeAssumption DEF TypeOK, Located, Session, Goto, Set, Return, Stages, BeforeCount,
      CountedIn, Welcome, Registered, Playing, Closing
<1>1. CASE UNCHANGED vars
  BY <1>1 DEF vars
<1>2. CASE Lookup
  BY <1>2, SessionAssumption DEF Lookup, Listed, Present
<1>3. ASSUME NEW c \in Conns, Task(c) \/ Environment(c)
      PROVE  TypeOK' /\ Located'
  <2>1. CASE ConnectEvent(c)
    <3>1. CASE Return(c)
      BY <2>1, <3>1, ReturnTypes DEF ConnectEvent
    <3>2. ASSUME NEW t \in PluginNames \cup {current[c]},
                 current' = Set(current, c, t),
                 target' = Set(target, c, IF t \in Servers THEN t ELSE current[c]),
                 Goto(c, "login"), UNCHANGED <<attached, queue, held, told, rerouted, kicked>>
          PROVE  TypeOK' /\ Located'
      BY <2>1, <3>2 DEF ConnectEvent
    <3> QED BY <2>1, <3>1, <3>2, Zenon DEF ConnectEvent
  <2>2. CASE Login(c)
    <3>1. CASE Return(c)
      BY <2>2, <3>1, ReturnTypes DEF Login
    <3>2. CASE Goto(c, "forward") /\ attached' = Set(attached, c, target[c])
                 /\ UNCHANGED <<current, target, queue, held, told, rerouted, kicked>>
      BY <2>2, <3>2 DEF Login
    <3>3. CASE Goto(c, "loginFallback") /\ CanFallback(current[c])
                 /\ current' = Set(current, c, Fallback) /\ target' = Set(target, c, Fallback)
                 /\ UNCHANGED <<attached, queue, held, told, rerouted, kicked>>
      <4>1. Fallback \in Servers BY <3>3 DEF CanFallback
      <4> QED BY <2>2, <3>3, <4>1 DEF Login
    <3> QED BY <2>2, <3>1, <3>2, <3>3, Zenon DEF Login
  <2>3. CASE LoginFallback(c)
    <3>1. CASE Return(c)
      BY <2>3, <3>1, ReturnTypes DEF LoginFallback
    <3>2. CASE ~Return(c)
      BY <2>3, <3>2, Zenon DEF LoginFallback
    <3> QED BY <3>1, <3>2, SMTT(40)
  <2>4. CASE ForwardSuccess(c)
    <3>1. CASE Return(c)
      BY <2>4, <3>1, ReturnTypes DEF ForwardSuccess
    <3>2. CASE /\ online' = online + 1 /\ Goto(c, "fireConnected")
               /\ target' = Set(target, c, NoServer)
               /\ UNCHANGED <<current, attached, queue, held, told, rerouted, kicked>>
      BY <2>4, <3>2 DEF ForwardSuccess
    <3> QED BY <2>4, <3>1, <3>2, Zenon DEF ForwardSuccess
  <2>5. CASE FireConnected(c)
    BY <2>5 DEF FireConnected
  <2>6. CASE FireJoin(c)
    BY <2>6 DEF FireJoin
  <2>7. CASE RegisterSession(c)
    BY <2>7 DEF RegisterSession, Register
  <2>8. CASE TakeConnect(c)
    BY <2>8, HeadOfQueue, Zenon DEF TakeConnect
  <2>9. CASE TakeDisconnect(c)
    BY <2>9, HeadOfQueue, Zenon DEF TakeDisconnect, BackendDisconnected, CanFallback
  <2>10. CASE SwitchEvent(c)
    <3>1. CASE stage' = Set(stage, c, "tunnel") /\ target' = Set(target, c, NoServer)
      BY <2>10, <3>1 DEF SwitchEvent
    <3>2. ASSUME NEW t \in Servers, target' = Set(target, c, t), Goto(c, "switchLogin")
          PROVE  TypeOK' /\ Located'
      BY <2>10, <3>2 DEF SwitchEvent
    <3>3. CASE target' = Set(target, c, NoServer) /\ Goto(c, "fireDisconnect")
      BY <2>10, <3>3 DEF SwitchEvent
    <3> QED BY <2>10, <3>1, <3>2, <3>3, SMTT(40) DEF SwitchEvent
  <2>11. CASE SwitchLogin(c)
    <3>1. CASE MoveTo(c, target[c]) /\ Goto(c, "switched")
      BY <2>11, <3>1, MoveTypes, Zenon DEF SwitchLogin
    <3>2. CASE /\ target' = Set(target, c, NoServer)
               /\ CanFallback(target[c]) /\ Goto(c, "switchFallback")
               /\ UNCHANGED <<current, attached, sessions>>
      <4>1. Fallback \in Servers BY <3>2 DEF CanFallback
      <4> QED BY <2>11, <3>2, <4>1 DEF SwitchLogin
    <3>3. CASE /\ target' = Set(target, c, NoServer) /\ Goto(c, "fireDisconnect")
               /\ UNCHANGED <<current, attached, sessions>>
      BY <2>11, <3>3 DEF SwitchLogin
    <3> QED BY <2>11, <3>1, <3>2, <3>3 DEF SwitchLogin
  <2>12. CASE FireSwitched(c)
    BY <2>12 DEF FireSwitched
  <2>13. CASE SwitchFallback(c)
    <3>1. CASE MoveTo(c, Fallback) /\ rerouted' = rerouted \cup {c} /\ Goto(c, "tunnel")
      <4>1. rerouted' \subseteq Conns BY <3>1
      <4> QED BY <2>13, <3>1, <4>1, MoveTypes, Zenon DEF SwitchFallback
    <3>2. CASE Goto(c, "fireDisconnect") /\ UNCHANGED <<current, target, attached, sessions, rerouted>>
      BY <2>13, <3>2 DEF SwitchFallback
    <3> QED BY <2>13, <3>1, <3>2 DEF SwitchFallback
  <2>14. CASE Recover(c)
    <3>1. CASE MoveTo(c, Fallback) /\ rerouted' = rerouted \cup {c} /\ Goto(c, "tunnel")
      <4>1. rerouted' \subseteq Conns BY <3>1
      <4> QED BY <2>14, <3>1, <4>1, MoveTypes, Zenon DEF Recover
    <3>2. CASE Goto(c, "fireDisconnect") /\ UNCHANGED <<current, target, attached, sessions, rerouted>>
      BY <2>14, <3>2 DEF Recover
    <3> QED BY <2>14, <3>1, <3>2 DEF Recover
  <2>15. CASE FireDisconnect(c)
    BY <2>15 DEF FireDisconnect
  <2>16. CASE UnregisterSession(c)
    BY <2>16 DEF UnregisterSession, Unregister
  <2>17. CASE Uncount(c)
    BY <2>17 DEF Uncount
  <2>18. CASE Start(c)
    BY <2>18 DEF Start
  <2>19. CASE ClientGone(c)
    BY <2>19 DEF ClientGone
  <2>20. CASE BackendGone(c)
    BY <2>20, Zenon DEF BackendGone, BackendDisconnected, CanFallback
  <2>21. CASE ServerCommand(c)
    BY <2>21 DEF ServerCommand, PlayerAction, Connect
  <2>22. CASE SendHeld(c)
    BY <2>22 DEF SendHeld
  <2> QED BY <1>3, <2>1, <2>2, <2>3, <2>4, <2>5, <2>6, <2>7, <2>8, <2>9, <2>10, <2>11, <2>12, <2>13, <2>14, <2>15, <2>16, <2>17, <2>18, <2>19, <2>20, <2>21, <2>22, Zenon DEF Task, Awaiting, Alone, Environment
<1> QED BY <1>1, <1>2, <1>3 DEF Next

\* A task that stays on its side of the two counter operations leaves the set of
\* counted tasks alone.
LEMMA CountedStays ==
    ASSUME TypeOK, NEW c \in Conns, NEW t, stage' = [stage EXCEPT ![c] = t],
           stage[c] \in CountedIn <=> t \in CountedIn
    PROVE  Counted' = Counted
BY DEF TypeOK, Counted

\* Every step keeps the counter equal to the number of counted tasks: only ForwardSuccess
\* and Uncount change either, and they change both.
LEMMA OnlineStep ==
    ASSUME TypeOK, OnlineExact, [Next]_vars
    PROVE  online' \in Nat /\ OnlineExact'
<1> USE DEF Goto, BeforeCount, CountedIn, Welcome, Registered, Playing, Closing
<1>1. SUFFICES ASSUME NEW c \in Conns, Task(c) \/ Environment(c)
               PROVE  online' \in Nat /\ OnlineExact'
  <2>1. CASE UNCHANGED vars \/ Lookup
    BY <2>1, Zenon DEF vars, Lookup, OnlineExact, Counted, TypeOK
  <2> QED BY <2>1, Zenon DEF Next
<1>2. CASE ForwardSuccess(c) /\ online' = online + 1 /\ Goto(c, "fireConnected")
  <2>1. Counted' = Counted \cup {c} /\ c \notin Counted
    BY <1>2 DEF ForwardSuccess, Counted, TypeOK
  <2>2. Cardinality(Counted') = Cardinality(Counted) + 1
    BY <2>1, CountedFinite, FS_AddElement
  <2> QED BY <1>2, <2>2 DEF OnlineExact, TypeOK
<1>3. CASE Uncount(c)
  <2>1. Counted' = Counted \ {c} /\ c \in Counted
    BY <1>3 DEF Uncount, Return, Counted, TypeOK
  <2>2. Cardinality(Counted') = Cardinality(Counted) - 1 /\ Cardinality(Counted') \in Nat
    <3>1. Cardinality(Counted') = Cardinality(Counted) - 1
      BY <2>1, CountedFinite, FS_RemoveElement
    <3>2. IsFiniteSet(Counted \ {c})
      BY CountedFinite, FS_Subset
    <3> QED BY <3>1, <3>2, <2>1, FS_CardinalityType
  <2> QED BY <1>3, <2>2 DEF Uncount, OnlineExact, TypeOK
<1>4. ASSUME online' = online, Counted' = Counted
      PROVE  online' \in Nat /\ OnlineExact'
  BY <1>4 DEF OnlineExact, TypeOK
<1>5. CASE ForwardSuccess(c) /\ Return(c) /\ UNCHANGED online
  BY <1>4, <1>5, CountedStays, Zenon DEF ForwardSuccess, Return
<1>6. CASE ConnectEvent(c)
  BY <1>4, <1>6, CountedStays DEF ConnectEvent, Return
<1>7. CASE Login(c)
  BY <1>4, <1>7, CountedStays, Zenon DEF Login, Return
<1>8. CASE LoginFallback(c)
  BY <1>4, <1>8, CountedStays DEF LoginFallback, Return
<1>9. CASE FireConnected(c)
  BY <1>4, <1>9, CountedStays, Zenon DEF FireConnected
<1>10. CASE FireJoin(c)
  BY <1>4, <1>10, CountedStays, Zenon DEF FireJoin
<1>11. CASE RegisterSession(c)
  BY <1>4, <1>11, CountedStays, Zenon DEF RegisterSession
<1>12. CASE TakeConnect(c)
  BY <1>4, <1>12, CountedStays, Zenon DEF TakeConnect
<1>13. CASE TakeDisconnect(c)
  BY <1>4, <1>13, CountedStays DEF TakeDisconnect, BackendDisconnected
<1>14. CASE SwitchEvent(c)
  BY <1>4, <1>14, CountedStays DEF SwitchEvent
<1>15. CASE SwitchLogin(c)
  BY <1>4, <1>15, CountedStays DEF SwitchLogin
<1>16. CASE FireSwitched(c)
  BY <1>4, <1>16, CountedStays, Zenon DEF FireSwitched
<1>17. CASE SwitchFallback(c)
  BY <1>4, <1>17, CountedStays DEF SwitchFallback
<1>18. CASE Recover(c)
  BY <1>4, <1>18, CountedStays DEF Recover
<1>19. CASE FireDisconnect(c)
  BY <1>4, <1>19, CountedStays, Zenon DEF FireDisconnect
<1>20. CASE UnregisterSession(c)
  BY <1>4, <1>20, CountedStays, Zenon DEF UnregisterSession
<1>21. CASE Start(c)
  BY <1>4, <1>21, CountedStays, Zenon DEF Start
<1>22. CASE ClientGone(c)
  BY <1>4, <1>22, CountedStays, Zenon DEF ClientGone
<1>23. CASE BackendGone(c)
  BY <1>4, <1>23, CountedStays DEF BackendGone, BackendDisconnected
<1>24. CASE ServerCommand(c)
  BY <1>4, <1>24 DEF ServerCommand, Counted
<1>25. CASE SendHeld(c)
  BY <1>4, <1>25 DEF SendHeld, Counted
<1> QED BY <1>1, <1>2, <1>3, <1>5, <1>6, <1>7, <1>8, <1>9, <1>10, <1>11, <1>12, <1>13, <1>14, <1>15, <1>16, <1>17, <1>18, <1>19, <1>20, <1>21, <1>22, <1>23, <1>24, <1>25 DEF Task, Awaiting, Alone, Environment, ForwardSuccess

\* Together: the invariant is inductive.
LEMMA IInvStep == IInv /\ [Next]_vars => IInv'
BY TypeStep, OnlineStep DEF IInv

\* run() counts a player in and out exactly once on every path, so the counter that
\* the status ping shows is the number of players being served, and never wraps.
THEOREM OnlineCorrect == Spec => [](TypeOK /\ OnlineExact)
<1>1. IInv => TypeOK /\ OnlineExact
  BY DEF IInv
<1> QED BY InitIInv, IInvStep, <1>1, PTL DEF Spec

-----------------------------------------------------------------------------
(* The registry.  Every step of a task is one of four things to it.         *)

Enters(c) ==
    /\ stage[c] = "register" /\ Goto(c, "tunnel")
    /\ sessions' = Register(sessions, NameOf[c], c, current[c])
    /\ current' = current

Moves(c) ==
    /\ stage[c] \in Playing
    /\ \E t \in {"switched", "tunnel"} : Goto(c, t)
    /\ \E s \in Servers : MoveTo(c, s)

Leaves(c) ==
    /\ stage[c] = "unregister" /\ Goto(c, "uncount")
    /\ sessions' = Unregister(sessions, NameOf[c])
    /\ current' = current

Keeps(c) ==
    /\ sessions' = sessions
    /\ \E t \in Stages :
        /\ Goto(c, t)
        /\ stage[c] \in Registered <=> t \in Registered
        /\ t \in Playing => stage[c] \in Playing
        /\ t \in Registered => current' = current
    /\ \A d \in Conns \ {c} : current'[d] = current[d]

\* Every step of a task, or of somebody who sends it an action, is one of the four.
LEMMA RegistrySteps ==
    ASSUME TypeOK, Located, NEW c \in Conns, Task(c) \/ Environment(c)
    PROVE  Enters(c) \/ Moves(c) \/ Leaves(c) \/ Keeps(c)
<1> USE DEF Goto, Set, Stages, BeforeCount, CountedIn, Welcome, Registered, Playing, Closing
<1>1. CASE RegisterSession(c)
  BY <1>1, Zenon DEF RegisterSession, Enters
<1>2. CASE UnregisterSession(c)
  BY <1>2 DEF UnregisterSession, Leaves
<1>3. CASE SwitchLogin(c)
  <2>1. CASE MoveTo(c, target[c]) /\ Goto(c, "switched")
    BY <1>3, <2>1 DEF SwitchLogin, Moves, Located
  <2>2. CASE ~(MoveTo(c, target[c]) /\ Goto(c, "switched"))
    BY <1>3, <2>2 DEF SwitchLogin, Keeps
  <2> QED BY <2>1, <2>2
<1>4. CASE SwitchFallback(c) \/ Recover(c)
  <2>1. CASE MoveTo(c, Fallback) /\ Goto(c, "tunnel")
    BY <1>4, <2>1 DEF SwitchFallback, Recover, Moves, Located
  <2>2. CASE ~(MoveTo(c, Fallback) /\ Goto(c, "tunnel"))
    BY <1>4, <2>2 DEF SwitchFallback, Recover, Keeps
  <2> QED BY <2>1, <2>2
<1>5. CASE ConnectEvent(c)
  BY <1>5 DEF ConnectEvent, Return, Keeps, TypeOK
<1>6. CASE Login(c)
  BY <1>6 DEF Login, Return, Keeps, TypeOK
<1>7. CASE LoginFallback(c)
  BY <1>7 DEF LoginFallback, Return, Keeps, TypeOK
<1>8. CASE ForwardSuccess(c)
  BY <1>8 DEF ForwardSuccess, Return, Keeps, TypeOK
<1>9. CASE FireConnected(c)
  BY <1>9 DEF FireConnected, Keeps, TypeOK
<1>10. CASE FireJoin(c)
  BY <1>10 DEF FireJoin, Keeps, TypeOK
<1>11. CASE TakeConnect(c)
  BY <1>11 DEF TakeConnect, Keeps, TypeOK
<1>12. CASE TakeDisconnect(c)
  BY <1>12 DEF TakeDisconnect, BackendDisconnected, Keeps, TypeOK
<1>13. CASE SwitchEvent(c)
  BY <1>13 DEF SwitchEvent, Keeps, TypeOK
<1>14. CASE FireSwitched(c)
  BY <1>14 DEF FireSwitched, Keeps, TypeOK
<1>15. CASE FireDisconnect(c)
  BY <1>15 DEF FireDisconnect, Keeps, TypeOK
<1>16. CASE Uncount(c)
  BY <1>16 DEF Uncount, Return, Keeps, TypeOK
<1>17. CASE Start(c)
  BY <1>17 DEF Start, Keeps, TypeOK
<1>18. CASE ClientGone(c)
  BY <1>18 DEF ClientGone, Keeps, TypeOK
<1>19. CASE BackendGone(c)
  BY <1>19 DEF BackendGone, BackendDisconnected, Keeps, TypeOK
<1>20. CASE ServerCommand(c)
  BY <1>20 DEF ServerCommand, Keeps, TypeOK
<1>21. CASE SendHeld(c)
  BY <1>21 DEF SendHeld, Keeps, TypeOK
<1> QED
  BY <1>1, <1>2, <1>3, <1>4, <1>5, <1>6, <1>7, <1>8, <1>9, <1>10, <1>11, <1>12, <1>13, <1>14, <1>15, <1>16, <1>17, <1>18, <1>19, <1>20, <1>21 DEF Task, Awaiting, Alone, Environment

\* Each of the four keeps every entry with an owner who has it registered.
LEMMA GhostStep ==
    ASSUME TypeOK, Located, NoGhostSession, [Next]_vars
    PROVE  NoGhostSession'
<1> USE BridgeAssumption, SessionAssumption DEF TypeOK, NoGhostSession, Present, Session, Goto
<1>1. CASE UNCHANGED vars \/ Lookup
  BY <1>1 DEF vars, Lookup
<1>2. ASSUME NEW c \in Conns, Task(c) \/ Environment(c) PROVE NoGhostSession'
  <2>1. CASE Enters(c)
    BY <2>1 DEF Enters, Register, Registered, Playing
  <2>2. CASE Moves(c)
    <3> PICK t \in {"switched", "tunnel"}, s \in Servers : Goto(c, t) /\ MoveTo(c, s)
      BY <2>2, Zenon DEF Moves
    <3>1. stage[c] \in Registered /\ stage'[c] \in Registered
      BY <2>2 DEF Moves, Registered, Playing
    <3>2. \A k \in Keys : sessions'[k] # NoSession =>
             sessions[k] # NoSession /\ sessions'[k].owner = sessions[k].owner
      BY DEF MoveTo, UpdateServer
    <3>3. \A d \in Conns : stage[d] \in Registered => stage'[d] \in Registered
      BY <3>1
    <3>4. \A k \in Keys : sessions[k] # NoSession => sessions[k].owner \in Conns
      OBVIOUS
    <3> QED BY ONLY NoGhostSession, <3>2, <3>3, <3>4 DEF NoGhostSession, Present
  <2>3. CASE Leaves(c)
    BY <2>3 DEF Leaves, Unregister
  <2>4. CASE Keeps(c)
    BY <2>4 DEF Keeps
  <2> QED BY <1>2, <2>1, <2>2, <2>3, <2>4, RegistrySteps, Zenon
<1> QED BY <1>1, <1>2, Zenon DEF Next

\* A session never outlives its task: cleanup removes the entry before run() returns,
\* also for players who share a name and overwrite each other's entries.
THEOREM NoGhosts == Spec => []NoGhostSession
<1>1. Init => NoGhostSession
  BY DEF Init, NoGhostSession, Present
<1>2. IInv /\ NoGhostSession /\ [Next]_vars => NoGhostSession'
  BY GhostStep DEF IInv
<1> QED BY InitIInv, IInvStep, <1>1, <1>2, PTL DEF Spec

\* The registry never lists more players than the counter counts: each listed name
\* leads to a task of its own that is counted.
THEOREM RegistryCounted == Spec => []RegistryWithinOnline
<1>1. ASSUME IInv, NoGhostSession PROVE RegistryWithinOnline
  <2> DEFINE owner == [k \in Listed(sessions) |-> sessions[k].owner]
  <2>1. \A k \in Listed(sessions) :
           NameOf[sessions[k].owner] = k /\ sessions[k].owner \in Counted
    BY <1>1, SessionAssumption
    DEF IInv, TypeOK, NoGhostSession, Listed, Present, Session, Counted, CountedIn
  <2>2. owner \in Injection(Listed(sessions), Counted)
    BY <2>1 DEF Injection, IsInjective
  <2>3. Cardinality(Listed(sessions)) <= Cardinality(Counted)
    BY <2>2, CountedFinite, FS_Injection
  <2> QED BY <1>1, <2>3 DEF RegistryWithinOnline, IInv, OnlineExact
<1> QED BY OnlineCorrect, NoGhosts, InitIInv, IInvStep, <1>1, PTL DEF Spec

\* The stages between PlayerJoin and PlayerDisconnect.
Announced ==
    \A c \in Conns :
        stage[c] \in {"register", "fireDisconnect"} \cup Playing => c \in joined

\* A task reaches register only through FireJoin, and FireDisconnect only before unregister.
LEMMA AnnouncedStep ==
    ASSUME TypeOK, Announced, [Next]_vars
    PROVE  Announced'
<1> USE DEF TypeOK, Announced, Goto, Set, Playing
<1>1. CASE UNCHANGED vars \/ Lookup
  BY <1>1 DEF vars, Lookup
<1>2. ASSUME NEW c \in Conns, Task(c) \/ Environment(c) PROVE Announced'
  <2>1. CASE \/ ConnectEvent(c) \/ Login(c) \/ LoginFallback(c) \/ ForwardSuccess(c)
             \/ FireConnected(c) \/ Uncount(c) \/ Start(c)
    BY <2>1, Zenon DEF ConnectEvent, Login, LoginFallback, ForwardSuccess, FireConnected, Uncount,
       Start, Return
  <2>2. CASE FireJoin(c) \/ RegisterSession(c)
    BY <2>2 DEF FireJoin, RegisterSession
  <2>3. CASE \/ TakeConnect(c) \/ TakeDisconnect(c) \/ ClientGone(c) \/ BackendGone(c)
             \/ ServerCommand(c) \/ SendHeld(c)
    BY <2>3, Zenon DEF TakeConnect, TakeDisconnect, ClientGone, BackendGone, ServerCommand, SendHeld,
       BackendDisconnected
  <2>4. CASE \/ SwitchEvent(c) \/ SwitchLogin(c) \/ FireSwitched(c) \/ SwitchFallback(c)
             \/ Recover(c)
    BY <2>4 DEF SwitchEvent, SwitchLogin, FireSwitched, SwitchFallback, Recover
  <2>5. CASE FireDisconnect(c) \/ UnregisterSession(c)
    BY <2>5, Zenon DEF FireDisconnect, UnregisterSession
  <2> QED BY <1>2, <2>1, <2>2, <2>3, <2>4, <2>5 DEF Task, Awaiting, Alone, Environment
<1> QED BY <1>1, <1>2 DEF Next

\* Whoever looks a player up finds only players that PlayerJoin has announced and
\* PlayerDisconnect has not taken back, but for the moment before unregister.
THEOREM Announcements == Spec => []ListedWereAnnounced
<1>1. Init => Announced
  BY DEF Init, Announced, Playing
<1>2. IInv /\ Announced /\ [Next]_vars => Announced'
  BY AnnouncedStep DEF IInv
<1>3. TypeOK /\ NoGhostSession /\ Announced => ListedWereAnnounced
  BY SessionAssumption
  DEF TypeOK, NoGhostSession, Announced, ListedWereAnnounced, Present, Session, Registered, Closing
<1>4. IInv => TypeOK
  BY DEF IInv
<1> QED BY NoGhosts, InitIInv, IInvStep, <1>1, <1>2, <1>3, <1>4, PTL DEF Spec

\* With distinct names nobody else's step touches an entry.
LEMMA ListedStep ==
    ASSUME UniqueNames, TypeOK, Located, PlayersListed, [Next]_vars
    PROVE  PlayersListed'
<1> USE BridgeAssumption, SessionAssumption DEF TypeOK, PlayersListed, UniqueNames, Goto, Session
<1>1. CASE UNCHANGED vars \/ Lookup
  BY <1>1 DEF vars, Lookup
<1>2. ASSUME NEW c \in Conns, Task(c) \/ Environment(c) PROVE PlayersListed'
  <2>1. CASE Enters(c)
    BY <2>1 DEF Enters, Register, Registered, Playing
  <2>2. CASE Moves(c)
    <3> PICK t \in {"switched", "tunnel"}, s \in Servers : Goto(c, t) /\ MoveTo(c, s)
      BY <2>2, Zenon DEF Moves
    <3>1. sessions[NameOf[c]] = [owner |-> c, server |-> current[c]]
      BY <2>2 DEF Moves, Registered
    <3>2. sessions'[NameOf[c]] = [owner |-> c, server |-> s]
      <4>1. sessions[NameOf[c]] \in Session /\ sessions[NameOf[c]] # NoSession
        BY <3>1, <2>2, Located DEF Moves, Located, Playing
      <4> QED BY <3>1, <4>1 DEF MoveTo, UpdateServer, Present
    <3>3. \A d \in Conns \ {c} : sessions'[NameOf[d]] = sessions[NameOf[d]]
      BY DEF MoveTo, UpdateServer
    <3> QED BY <3>2, <3>3 DEF MoveTo, Set
  <2>3. CASE Leaves(c)
    BY <2>3 DEF Leaves, Unregister, Registered, Playing, Closing
  <2>4. CASE Keeps(c)
    BY <2>4 DEF Keeps
  <2> QED BY <1>2, <2>1, <2>2, <2>3, <2>4, RegistrySteps, Zenon
<1> QED BY <1>1, <1>2, Zenon DEF Next

\* With distinct names every player is listed under their own connection, on the
\* server the bridge has them on, from register to unregister.
THEOREM PlayersAreListed == UniqueNames /\ Spec => []PlayersListed
<1> SUFFICES ASSUME UniqueNames PROVE Spec => []PlayersListed
  OBVIOUS
<1>1. Init => PlayersListed
  BY DEF Init, PlayersListed, Registered, Playing, Closing
<1>2. IInv /\ PlayersListed /\ [Next]_vars => PlayersListed'
  BY ListedStep DEF IInv
<1> QED BY InitIInv, IInvStep, <1>1, <1>2, PTL DEF Spec

-----------------------------------------------------------------------------
(* The bridge implements the directory.                                     *)

\* An entry of the registry is not the absence of one.
LEMMA EntryPresent ==
    ASSUME NEW c \in Conns, NEW s \in ServerNames
    PROVE  [owner |-> c, server |-> s] # NoSession
BY SessionAssumption DEF Session

\* An entry of c's own moves only c.
LEMMA WhereMoves ==
    ASSUME NEW c \in Conns, NEW s, sessions'[NameOf[c]] # NoSession,
           sessions'[NameOf[c]] = [owner |-> c, server |-> s],
           \A d \in Conns \ {c} : sessions'[NameOf[d]] = sessions[NameOf[d]]
    PROVE  Where' = [Where EXCEPT ![c] = s]
<1>1. Where'[c] = s
  BY DEF Where
<1>2. ASSUME NEW d \in Conns \ {c} PROVE Where'[d] = Where[d]
  BY <1>2 DEF Where
<1>3. Where = [d \in Conns |-> Where[d]] /\ Where' = [d \in Conns |-> Where'[d]]
  BY DEF Where
<1> HIDE DEF Where
<1> QED BY <1>1, <1>2, <1>3

\* Every step is a step of the directory, or one it does not see.
LEMMA DirectoryStep ==
    ASSUME UniqueNames, TypeOK, Located, NoGhostSession, PlayersListed, [Next]_vars
    PROVE  [Directory!Next]_(Directory!vars)
<1> USE BridgeAssumption, SessionAssumption
    DEF TypeOK, UniqueNames, PlayersListed, Goto, Session, Where, PlayingConns
<1>1. CASE UNCHANGED vars \/ Lookup
  BY <1>1 DEF vars, Lookup, Directory!vars
<1>2. ASSUME NEW c \in Conns, Task(c) \/ Environment(c)
      PROVE  [Directory!Next]_(Directory!vars)
  <2>1. CASE Enters(c)
    <3>1. Where[c] = NoServer /\ c \notin PlayingConns
      BY <2>1, Zenon DEF Enters, NoGhostSession, Present, Registered, Playing, Closing
    <3>2. current[c] \in ServerNames
      BY <2>1 DEF Enters, Located
    <3>3. Where' = [Where EXCEPT ![c] = current[c]]
      <4>1. sessions'[NameOf[c]] = [owner |-> c, server |-> current[c]]
        BY <2>1 DEF Enters, Register
      <4>2. sessions'[NameOf[c]] # NoSession
        BY ONLY <3>2, <4>1, EntryPresent
      <4>3. \A d \in Conns \ {c} : sessions'[NameOf[d]] = sessions[NameOf[d]]
        BY <2>1 DEF Enters, Register
      <4> QED BY <4>1, <4>2, <4>3, WhereMoves, Zenon
    <3>4. PlayingConns' = PlayingConns \cup {c}
      BY <2>1 DEF Enters, Playing
    <3> QED BY <3>1, <3>2, <3>3, <3>4, Zenon DEF Directory!Next, Directory!Enter
  <2>2. CASE Moves(c)
    <3> PICK t \in {"switched", "tunnel"}, s \in Servers : Goto(c, t) /\ MoveTo(c, s)
      BY <2>2, Zenon DEF Moves
    <3>1. sessions[NameOf[c]] = [owner |-> c, server |-> current[c]]
           /\ sessions[NameOf[c]] \in Session /\ sessions[NameOf[c]] # NoSession
      BY <2>2 DEF Moves, Registered, Located, Playing
    <3>2. sessions'[NameOf[c]] = [owner |-> c, server |-> s]
      BY <3>1 DEF MoveTo, UpdateServer, Present
    <3>3. \A d \in Conns \ {c} : sessions'[NameOf[d]] = sessions[NameOf[d]]
      BY DEF MoveTo, UpdateServer
    <3>4. Where' = [Where EXCEPT ![c] = s]
      <4>1. s \in ServerNames
        BY BridgeAssumption
      <4>2. sessions'[NameOf[c]] # NoSession
        BY ONLY <3>2, <4>1, EntryPresent
      <4> QED BY <3>2, <3>3, <4>2, WhereMoves, Zenon
    <3>5. PlayingConns' = PlayingConns /\ c \in PlayingConns
      BY <2>2 DEF Moves, Playing
    <3> QED BY <3>4, <3>5, Zenon DEF Directory!Next, Directory!Move
  <2>3. CASE Leaves(c)
    <3>1. Where' = [Where EXCEPT ![c] = NoServer]
      BY <2>3, Zenon DEF Leaves, Unregister
    <3>2. Where[c] # NoServer
      <4>1. current[c] \in ServerNames /\ stage[c] \in Registered
        BY <2>3 DEF Leaves, Registered, Closing, Located
      <4>2. sessions[NameOf[c]] = [owner |-> c, server |-> current[c]]
        BY <4>1
      <4>3. sessions[NameOf[c]] # NoSession
        BY ONLY <4>1, <4>2, EntryPresent
      <4> QED BY <4>1, <4>2, <4>3
    <3>3. PlayingConns' = PlayingConns /\ c \notin PlayingConns
      BY <2>3 DEF Leaves, Playing
    <3> QED BY <3>1, <3>2, <3>3, Zenon DEF Directory!Next, Directory!Remove
  <2>4. CASE Keeps(c)
    <3>1. Where' = Where
      BY <2>4 DEF Keeps
    <3>2. CASE c \in PlayingConns /\ c \notin PlayingConns'
      <4>1. PlayingConns' = PlayingConns \ {c}
        BY <2>4, <3>2 DEF Keeps
      <4> QED BY <3>1, <3>2, <4>1, Zenon DEF Directory!Next, Directory!Quit
    <3>3. CASE ~(c \in PlayingConns /\ c \notin PlayingConns')
      <4>1. PlayingConns' = PlayingConns
        BY <2>4, <3>3 DEF Keeps
      <4> QED BY <3>1, <4>1, Zenon DEF Directory!vars
    <3> QED BY <3>2, <3>3
  <2> QED BY <1>2, <2>1, <2>2, <2>3, <2>4, RegistrySteps
<1> QED BY <1>1, <1>2, Zenon DEF Next

\* With distinct names, the tasks, the registry and everybody's races on them
\* implement a directory in which each player's entry is their own.
THEOREM BridgeImplementsDirectory == UniqueNames /\ Spec => ImplementsDirectory
<1> SUFFICES ASSUME UniqueNames PROVE Spec => Directory!Spec
  BY DEF ImplementsDirectory
<1>1. Init => Directory!Init
  BY BridgeAssumption DEF Init, Directory!Init, Where, PlayingConns, Playing
<1>2. IInv /\ NoGhostSession /\ PlayersListed /\ [Next]_vars => [Directory!Next]_(Directory!vars)
  BY DirectoryStep DEF IInv
<1>3. Spec => []IInv
  BY InitIInv, IInvStep, PTL DEF Spec
<1> QED BY <1>1, <1>2, <1>3, NoGhosts, PlayersAreListed, PTL DEF Spec, Directory!Spec

-----------------------------------------------------------------------------
(* Names and sockets.                                                       *)

\* The name and the socket agree from the choice of the configuration on.
Wired ==
    \A c \in Conns : current[c] \in Servers =>
        /\ stage[c] \in {"login", "loginFallback"} => target[c] = current[c]
        /\ stage[c] \in {"forward"} \cup Welcome \cup Playing => attached[c] = current[c]

\* Name and socket change together on every login, switch and reroute.
LEMMA WiredStep ==
    ASSUME TypeOK, Wired, [Next]_vars
    PROVE  Wired'
<1> USE DEF TypeOK, Wired, Goto, Set, Playing, Welcome
<1>1. CASE UNCHANGED vars \/ Lookup
  BY <1>1, Zenon DEF vars, Lookup
<1>2. ASSUME NEW c \in Conns, Task(c) \/ Environment(c) PROVE Wired'
  <2>0. CASE Return(c)
    BY <2>0, Zenon DEF Return
  <2>1. CASE ConnectEvent(c) \/ Start(c)
    <3>1. CASE Start(c)
      BY <3>1 DEF Start
    <3>2. CASE ConnectEvent(c)
      <4>1. ASSUME NEW t, current' = Set(current, c, t), Goto(c, "login"),
                   target' = Set(target, c, IF t \in Servers THEN t ELSE current[c]),
                   attached' = attached
            PROVE  Wired'
        BY <4>1
      <4> QED BY <2>0, <3>2, <4>1 DEF ConnectEvent
    <3> QED BY <2>1, <3>1, <3>2, Zenon
  <2>2. CASE Login(c) \/ LoginFallback(c)
    <3>1. CASE Login(c)
      BY <2>0, <3>1 DEF Login
    <3>2. CASE LoginFallback(c)
      BY <2>0, <3>2, Zenon DEF LoginFallback
    <3> QED BY <2>2, <3>1, <3>2, Zenon
  <2>3. CASE ForwardSuccess(c) \/ FireConnected(c) \/ FireJoin(c) \/ RegisterSession(c)
    BY <2>3 DEF ForwardSuccess, FireConnected, FireJoin, RegisterSession, Return
  <2>4. CASE \/ TakeConnect(c) \/ TakeDisconnect(c) \/ ClientGone(c) \/ BackendGone(c)
             \/ ServerCommand(c) \/ SendHeld(c)
    BY <2>4, Zenon DEF TakeConnect, TakeDisconnect, ClientGone, BackendGone, ServerCommand, SendHeld,
       BackendDisconnected
  <2>5. CASE SwitchEvent(c) \/ FireSwitched(c)
    BY <2>5 DEF SwitchEvent, FireSwitched
  <2>6. CASE SwitchLogin(c) \/ SwitchFallback(c) \/ Recover(c)
    <3>1. ASSUME NEW s, NEW t \in {"switched", "tunnel"}, MoveTo(c, s), Goto(c, t) PROVE Wired'
      BY <3>1 DEF MoveTo
    <3>2. ASSUME NEW t \in {"switchFallback", "fireDisconnect"}, Goto(c, t),
                 stage[c] \in Playing, UNCHANGED <<current, attached>>,
                 target' = target \/ target' = Set(target, c, NoServer)
          PROVE  Wired'
      BY <3>2
    <3>3. CASE SwitchLogin(c)
      BY <3>1, <3>2, <3>3 DEF SwitchLogin
    <3>4. CASE SwitchFallback(c)
      BY <3>1, <3>2, <3>4 DEF SwitchFallback
    <3>5. CASE Recover(c)
      BY <3>1, <3>2, <3>5 DEF Recover
    <3> QED BY <2>6, <3>3, <3>4, <3>5, Zenon
  <2>7. CASE FireDisconnect(c) \/ UnregisterSession(c) \/ Uncount(c)
    BY <2>7 DEF FireDisconnect, UnregisterSession, Uncount, Return
  <2> QED
    BY <1>2, <2>1, <2>2, <2>3, <2>4, <2>5, <2>6, <2>7, Zenon DEF Task, Awaiting, Alone, Environment
<1> QED BY <1>1, <1>2, Zenon DEF Next

\* The name in current_server_name, the registry and the events is the server whose
\* socket the tunnel uses, unless it is a name no server is configured under.
THEOREM NamesMatchBackends == Spec => []NameMatchesBackend
<1>1. Init => Wired
  BY DEF Init, Wired, Playing, Welcome
<1>2. IInv /\ Wired /\ [Next]_vars => Wired'
  BY WiredStep DEF IInv
<1>3. Wired => NameMatchesBackend
  BY DEF Wired, NameMatchesBackend
<1> QED BY InitIInv, IInvStep, <1>1, <1>2, <1>3, PTL DEF Spec

-----------------------------------------------------------------------------
(* What plugins were told.                                                  *)

Settled == {"fireJoin", "register", "tunnel", "switchEvent", "switchLogin",
            "switchFallback", "recover"}

\* From the first ServerConnected event on, between a switch and its event excepted.
Informed ==
    \A c \in Conns : stage[c] \in Settled =>
        told[c] = current[c] \/ (c \in rerouted /\ current[c] = Fallback)

\* A name is assigned only on the way to an event, or it is the fallback's.
LEMMA InformedStep ==
    ASSUME TypeOK, Informed, [Next]_vars
    PROVE  Informed'
<1> USE DEF TypeOK, Informed, Settled, Goto, Set
<1>1. CASE UNCHANGED vars \/ Lookup
  BY <1>1, Zenon DEF vars, Lookup
<1>2. ASSUME NEW c \in Conns, Task(c) \/ Environment(c) PROVE Informed'
  <2>0. CASE Return(c)
    BY <2>0 DEF Return
  <2>1. ASSUME NEW v, NEW t \in {"connectEvent", "login", "loginFallback", "switched"},
               current' = Set(current, c, v), Goto(c, t), UNCHANGED <<told, rerouted>>
        PROVE  Informed'
    BY <2>1
  <2>3. CASE Start(c)
    BY <2>1, <2>3 DEF Start
  <2>4. CASE ConnectEvent(c)
    BY <2>0, <2>1, <2>4, SMTT(30) DEF ConnectEvent
  <2>5. CASE Login(c) \/ LoginFallback(c) \/ ForwardSuccess(c)
    <3>1. CASE Login(c)
      <4>1. CASE Goto(c, "forward") /\ UNCHANGED <<current, told, rerouted>>
        BY <4>1
      <4>2. CASE Goto(c, "loginFallback") /\ current' = Set(current, c, Fallback) /\ UNCHANGED <<told, rerouted>>
        BY <4>2
      <4> QED BY <2>0, <3>1, <4>1, <4>2, Zenon DEF Login
    <3>2. CASE LoginFallback(c)
      <4>1. CASE Goto(c, "forward") /\ UNCHANGED <<current, told, rerouted>>
        BY <4>1
      <4> QED BY <2>0, <3>2, <4>1, Zenon DEF LoginFallback
    <3>3. CASE ForwardSuccess(c)
      <4>1. CASE Goto(c, "fireConnected") /\ UNCHANGED <<current, told, rerouted>>
        BY <4>1
      <4> QED BY <2>0, <3>3, <4>1, Zenon DEF ForwardSuccess
    <3> QED BY <2>5, <3>1, <3>2, <3>3
  <2>6. CASE FireConnected(c) \/ FireSwitched(c)
    BY <2>6 DEF FireConnected, FireSwitched
  <2>7. CASE FireJoin(c) \/ RegisterSession(c) \/ FireDisconnect(c) \/ UnregisterSession(c)
    BY <2>7 DEF FireJoin, RegisterSession, FireDisconnect, UnregisterSession
  <2>8. CASE TakeConnect(c) \/ TakeDisconnect(c) \/ ClientGone(c) \/ BackendGone(c)
    BY <2>8 DEF TakeConnect, TakeDisconnect, ClientGone, BackendGone, BackendDisconnected
  <2>9. CASE ServerCommand(c) \/ SendHeld(c)
    BY <2>9, Zenon DEF ServerCommand, SendHeld
  <2>10. CASE SwitchEvent(c)
    BY <2>10 DEF SwitchEvent
  <2>11. CASE SwitchLogin(c) \/ SwitchFallback(c) \/ Recover(c)
    <3>1. CASE MoveTo(c, Fallback) /\ rerouted' = rerouted \cup {c} /\ Goto(c, "tunnel") /\ told' = told
      BY <3>1 DEF MoveTo
    <3>2. CASE MoveTo(c, target[c]) /\ Goto(c, "switched") /\ UNCHANGED <<told, rerouted>>
      BY <3>2 DEF MoveTo
    <3>3. CASE /\ Goto(c, "fireDisconnect") \/ Goto(c, "switchFallback")
               /\ stage[c] \in Settled /\ UNCHANGED <<current, told, rerouted>>
      BY <3>3, SMTT(30)
    <3> QED BY <2>11, <3>1, <3>2, <3>3 DEF SwitchLogin, SwitchFallback, Recover
  <2>12. CASE Uncount(c)
    BY <2>0, <2>12 DEF Uncount
  <2> QED
    BY <1>2, <2>3, <2>4, <2>5, <2>6, <2>7, <2>8, <2>9, <2>10, <2>11, <2>12, Zenon
    DEF Task, Awaiting, Alone, Environment
<1> QED BY <1>1, <1>2, Zenon DEF Next

\* Plugins that follow ServerConnected know where a player is whenever packets flow,
\* for any interleaving of switches, failures and kicks, the silent moves to the
\* fallback after a failure apart.
THEOREM PluginsKnowServer == Spec => []PluginViewCurrent
<1>1. Init => Informed
  BY DEF Init, Informed, Settled
<1>2. IInv /\ Informed /\ [Next]_vars => Informed'
  BY InformedStep DEF IInv
<1>3. Informed => PluginViewCurrent
  BY DEF Informed, PluginViewCurrent, Settled
<1> QED BY InitIInv, IInvStep, <1>1, <1>2, <1>3, PTL DEF Spec
=============================================================================
