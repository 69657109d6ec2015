------------------------- MODULE CommandTreeProofs --------------------------
(***************************************************************************)
(* The dispatcher's lock: there is no way out of a stall; a plugin that    *)
(* registers in on_load can get into a cycle only with the console; there  *)
(* is none if plugins have one name each, or if commands are registered in *)
(* on_load and nobody uses the console.  The tree of commands a client     *)
(* gets: the backend's lines, the proxy's commands and nothing else.       *)
(***************************************************************************)
EXTENDS CommandTree, FiniteSetTheorems, SequenceTheorems, TLAPS

OneName == MaxNames \in {0, 1}
OnLoadOnly == Console = {} /\ RegistersIn = {"onLoad"}

\* A sender that waits for a plugin has found one of its commands, and a plugin that
\* waits for the lock has a name left to register.
Aimed ==
    /\ \A s \in Senders : sender[s] = "plugin" => target[s] \in Plugins /\ names[target[s]] > 0
    /\ \A p \in Plugins : writing[p] => names[p] < MaxNames

\* The command a guest handles is one that its sender still waits for.
Linked ==
    \A p \in Plugins, s \in Senders :
        serves[p] = s => target[s] = p /\ sender[s] = "plugin"

\* Before all plugins are loaded no player's task uses the dispatcher.
PlayersLater == ~Serving => \A s \in Senders \ Console : sender[s] = "idle"

\* Only on_load waits to write.
LoadWrites == \A p \in Plugins : writing[p] => guest[p] = "onLoad"

\* Init establishes all of it.
LEMMA InitInv == Init => TypeOK /\ Aimed /\ Linked /\ PlayersLater /\ LoadWrites
  BY DispatcherAssumption, SMTT(40) DEF Init, TypeOK, Aimed, Linked, PlayersLater, LoadWrites, None

\* Types and aims are kept by every step, whatever plugins and senders do.
LEMMA AimedStep == ASSUME TypeOK, Aimed, [Next]_vars PROVE TypeOK' /\ Aimed'
  <1> USE DispatcherAssumption DEF TypeOK, Aimed, None
  <1>1. CASE UNCHANGED vars
    BY <1>1 DEF vars
  <1>2. ASSUME NEW s \in Senders, Types(s) PROVE TypeOK' /\ Aimed'
    BY <1>2 DEF Types, Step
  <1>3. ASSUME NEW s \in Senders, HasCommand(s) \/ ListPermitted(s) PROVE TypeOK' /\ Aimed'
    BY <1>3 DEF HasCommand, ListPermitted, Step
  <1>4. ASSUME NEW s \in Senders, HandleCommand(s) \/ Suggest(s) PROVE TypeOK' /\ Aimed'
    BY <1>4 DEF HandleCommand, Suggest, Holds, Named, Step
  <1>5. ASSUME NEW s \in Senders, BuiltinReturns(s) PROVE TypeOK' /\ Aimed'
    BY <1>5 DEF BuiltinReturns, Step
  <1>6. ASSUME NEW s \in Senders, CommandCall(s) PROVE TypeOK' /\ Aimed'
    <2>1. target[s] \in Plugins
      BY <1>6 DEF CommandCall
    <2> QED
      BY <1>6, <2>1 DEF CommandCall
  <1>7. ASSUME NEW p \in Plugins, Load(p) PROVE TypeOK' /\ Aimed'
    BY <1>7 DEF Load
  <1>8. ASSUME NEW p \in Plugins, Event(p) PROVE TypeOK' /\ Aimed'
    BY <1>8 DEF Event
  <1>9. ASSUME NEW p \in Plugins, Register(p) PROVE TypeOK' /\ Aimed'
    BY <1>9 DEF Register
  <1>10. ASSUME NEW p \in Plugins, Registered(p) PROVE TypeOK' /\ Aimed'
    BY <1>10 DEF Registered
  <1>11. ASSUME NEW p \in Plugins, Returns(p) PROVE TypeOK' /\ Aimed'
    BY <1>11 DEF Returns
  <1> QED
    BY <1>1, <1>2, <1>3, <1>4, <1>5, <1>6, <1>7, <1>8, <1>9, <1>10, <1>11
    DEF Next, SenderStep, GuestStep

\* So are the links between guests and the senders they serve.
LEMMA LinkedStep == ASSUME TypeOK, Aimed, Linked, [Next]_vars PROVE Linked'
  <1> USE DispatcherAssumption DEF TypeOK, Linked, None
  <1>1. CASE UNCHANGED vars
    BY <1>1 DEF vars
  <1>2. ASSUME NEW s \in Senders, SenderStep(s) PROVE Linked'
    <2>1. CASE Types(s) \/ HasCommand(s) \/ ListPermitted(s) \/ BuiltinReturns(s)
      BY <2>1 DEF Types, HasCommand, ListPermitted, BuiltinReturns, Step
    <2>2. CASE HandleCommand(s) \/ Suggest(s)
      BY <2>2 DEF HandleCommand, Suggest, Holds, Step
    <2>3. CASE CommandCall(s)
      BY <2>3 DEF CommandCall, Aimed
    <2> QED BY <1>2, <2>1, <2>2, <2>3 DEF SenderStep
  <1>3. ASSUME NEW p \in Plugins, Load(p) \/ Event(p) \/ Register(p) \/ Registered(p) PROVE Linked'
    BY <1>3 DEF Load, Event, Register, Registered
  <1>4. ASSUME NEW p \in Plugins, Returns(p) PROVE Linked'
    BY <1>4 DEF Returns
  <1> QED
    BY <1>1, <1>2, <1>3, <1>4 DEF Next, GuestStep

\* So is the order of loading and players: a loaded plugin is never loaded again.
LEMMA PlayersLaterStep == ASSUME TypeOK, Aimed, PlayersLater, [Next]_vars PROVE PlayersLater'
  <1> USE DEF TypeOK, PlayersLater, Serving
  <1>1. CASE UNCHANGED vars
    BY <1>1 DEF vars
  <1>2. ASSUME NEW s \in Senders, SenderStep(s) PROVE PlayersLater'
    <2>1. CASE Types(s)
      BY <2>1 DEF Types, Step
    <2>2. CASE HasCommand(s) \/ ListPermitted(s) \/ BuiltinReturns(s)
      BY <2>2 DEF HasCommand, ListPermitted, BuiltinReturns, Step
    <2>3. CASE HandleCommand(s) \/ Suggest(s)
      BY <2>3 DEF HandleCommand, Suggest, Holds, Step
    <2>4. CASE CommandCall(s)
      BY <2>4 DEF CommandCall, Aimed
    <2> QED BY <1>2, <2>1, <2>2, <2>3, <2>4 DEF SenderStep
  <1>3. ASSUME NEW p \in Plugins, GuestStep(p) PROVE PlayersLater'
    <2>1. CASE Load(p) \/ Event(p)
      BY <2>1 DEF Load, Event
    <2>2. CASE Register(p) \/ Registered(p)
      BY <2>2 DEF Register, Registered
    <2>3. CASE Returns(p)
      BY <2>3 DEF Returns
    <2> QED BY <1>3, <2>1, <2>2, <2>3 DEF GuestStep
  <1> QED
    BY <1>1, <1>2, <1>3 DEF Next

\* Under OnLoadOnly a plugin that waits to write stays in on_load.
LEMMA LoadWritesStep == ASSUME OnLoadOnly, TypeOK, Aimed, LoadWrites, [Next]_vars PROVE LoadWrites'
  <1> USE DEF TypeOK, LoadWrites
  <1>1. CASE UNCHANGED vars
    BY <1>1 DEF vars
  <1>2. ASSUME NEW s \in Senders, SenderStep(s) PROVE LoadWrites'
    <2>1. CASE Types(s) \/ HasCommand(s) \/ ListPermitted(s) \/ HandleCommand(s) \/ Suggest(s) \/ BuiltinReturns(s)
      BY <2>1 DEF Types, HasCommand, ListPermitted, HandleCommand, Suggest, Holds, BuiltinReturns
    <2>2. CASE CommandCall(s)
      BY <2>2 DEF CommandCall, Aimed
    <2> QED BY <1>2, <2>1, <2>2 DEF SenderStep
  <1>3. ASSUME NEW p \in Plugins, GuestStep(p) PROVE LoadWrites'
    BY <1>3 DEF GuestStep, Load, Event, Register, Registered, Returns, OnLoadOnly
  <1> QED
    BY <1>1, <1>2, <1>3 DEF Next

\* Making trees adds nothing to what the dispatcher does: what holds of it holds with them.
LEMMA TreeIsDispatcher == TreeSpec => Spec
  <1>1. TreeInit => Init
    BY DEF TreeInit
  <1>2. [TreeNext]_treeVars => [Next]_vars
    BY DEF TreeNext, CommandsPacket, Next, SenderStep, treeVars
  <1> QED
    BY <1>1, <1>2, PTL DEF TreeSpec, Spec

\* A writer that waits keeps everybody out who does not hold the lock yet; who holds it
\* waits for the writer's plugin, or for a worker.
LEMMA StallStep ==
    ASSUME TypeOK, Aimed, Linked, Stalled, [Next]_vars
    PROVE  Stalled' /\ Readers' \subseteq Readers /\ names' = names
  <1> DEFINE Same == sender' = sender /\ target' = target /\ writing' = writing /\ names' = names
  <1>1. ASSUME Same PROVE Stalled' /\ Readers' \subseteq Readers /\ names' = names
    BY <1>1 DEF Stalled, Starved, NoCycle, LockCycle, FreeWorker, Busy, Writers, MayRead, Readers
  <1>2. CASE UNCHANGED vars
    BY <1>1, <1>2 DEF vars
  <1>3. ~MayRead /\ ~MayWrite
    BY DEF Stalled, Starved, NoCycle, LockCycle, MayRead, MayWrite, Readers
  <1>4. CASE Starved /\ Next
    <2>1. ~FreeWorker /\ \A s \in Senders : sender[s] # "builtin"
      BY <1>4 DEF Starved, Readers
    <2> QED
      BY <1>3, <1>4, <2>1 DEF Next, SenderStep, GuestStep, Types, HasCommand, ListPermitted,
         HandleCommand, Suggest, Holds, BuiltinReturns, CommandCall, Load, Event, Register,
         Registered, Returns, Step
  <1>5. ASSUME NEW p \in Plugins, LockCycle(p), Next
        PROVE  Stalled' /\ Readers' \subseteq Readers /\ names' = names
    <2>1. PICK s \in Senders : sender[s] = "plugin" /\ target[s] = p
      BY <1>5 DEF LockCycle
    <2>2. SUFFICES /\ writing'[p] /\ sender'[s] = "plugin" /\ target'[s] = p
                   /\ Readers' \subseteq Readers /\ names' = names
      BY DEF Stalled, NoCycle, LockCycle
    <2> USE DEF TypeOK, Readers
    <2>3. writing[p]
      BY <1>5 DEF LockCycle
    <2>4. ASSUME NEW t \in Senders, Types(t) \/ BuiltinReturns(t)
          PROVE  /\ writing'[p] /\ sender'[s] = "plugin" /\ target'[s] = p
                 /\ Readers' \subseteq Readers /\ names' = names
      BY <2>1, <2>3, <2>4 DEF Types, BuiltinReturns, Step
    <2>5. ASSUME NEW t \in Senders, CommandCall(t)
          PROVE  /\ writing'[p] /\ sender'[s] = "plugin" /\ target'[s] = p
                 /\ Readers' \subseteq Readers /\ names' = names
      BY <2>1, <2>3, <2>5 DEF CommandCall
    <2>6. ASSUME NEW q \in Plugins, Load(q) \/ Event(q) \/ Register(q)
          PROVE  /\ writing'[p] /\ sender'[s] = "plugin" /\ target'[s] = p
                 /\ Readers' \subseteq Readers /\ names' = names
      BY <2>1, <2>3, <2>6 DEF Load, Event, Register
    <2>7. ASSUME NEW q \in Plugins, Returns(q)
          PROVE  /\ writing'[p] /\ sender'[s] = "plugin" /\ target'[s] = p
                 /\ Readers' \subseteq Readers /\ names' = names
      <3>1. q # p
        BY <2>3, <2>7 DEF Returns
      <3>2. serves[q] # s
        BY <2>1, <3>1 DEF Linked
      <3> QED
        BY <2>1, <2>3, <2>7, <3>2 DEF Returns
    <2> QED
      BY <1>3, <1>5, <2>4, <2>5, <2>6, <2>7 DEF Next, SenderStep, GuestStep,
         HasCommand, ListPermitted, HandleCommand, Suggest, Holds, Registered
  <1> QED
    BY <1>2, <1>4, <1>5 DEF Stalled, NoCycle

\* There is no way out of a stall, for any number of senders, plugins, names and workers:
\* once handle_command or suggest_command and register_command wait for each other, directly
\* or for a worker, nobody takes the lock and nobody registers any more.
THEOREM NoWayOut == Spec => StallLasts
  <1> DEFINE IInv == TypeOK /\ Aimed /\ Linked
             Kept == Stalled => Stalled' /\ Readers' \subseteq Readers /\ names' = names
  <1>1. IInv /\ [Next]_vars => IInv'
    BY AimedStep, LinkedStep
  <1>2. IInv /\ [Next]_vars => [Kept]_vars
    BY StallStep
  <1> HIDE DEF IInv
  <1>3. Init => IInv
    BY InitInv DEF IInv
  <1> QED
    BY <1>1, <1>2, <1>3, PTL DEF Spec, StallLasts

\* While a plugin is in on_load no player's task is in the dispatcher.
LEMMA OriginsInv == TypeOK /\ PlayersLater => CycleOrigins
  BY DEF TypeOK, PlayersLater, Serving, CycleOrigins, LockCycle

\* What a plugin registers in on_load waits for no player's command, for any number of
\* players, plugins, names and workers: run() accepts nobody before load_plugins has returned.
THEOREM OnLoadMeetsConsoleOnly == Spec => []CycleOrigins
  <1>1. TypeOK /\ Aimed /\ PlayersLater /\ [Next]_vars => TypeOK' /\ Aimed' /\ PlayersLater'
    BY AimedStep, PlayersLaterStep
  <1> QED
    BY InitInv, OriginsInv, <1>1, PTL DEF Spec

\* A reader of the lock and register_command never wait for each other, for any number of
\* senders and plugins, the console included, when no plugin registers a second name:
\* who can be called has nothing left to wait for.
THEOREM OneNameNeverCycles == OneName /\ Spec => []NoCycle
  <1> SUFFICES ASSUME OneName PROVE Spec => []NoCycle
    OBVIOUS
  <1>1. TypeOK /\ Aimed => NoCycle
    BY DEF OneName, TypeOK, Aimed, NoCycle, LockCycle
  <1>2. TypeOK /\ Aimed /\ [Next]_vars => TypeOK' /\ Aimed'
    BY AimedStep
  <1> QED
    BY InitInv, <1>1, <1>2, PTL DEF Spec

\* A reader of the lock and register_command never wait for each other, for any number of
\* players, plugins and names, when plugins register in on_load and the console is silent.
THEOREM LocksNeverCycle == OnLoadOnly /\ Spec => []NoCycle
  <1> SUFFICES ASSUME OnLoadOnly PROVE Spec => []NoCycle
    OBVIOUS
  <1> DEFINE IInv == TypeOK /\ Aimed /\ LoadWrites
  <1>1. IInv /\ CycleOrigins => NoCycle
    BY DEF OnLoadOnly, LoadWrites, CycleOrigins, NoCycle, LockCycle
  <1>2. IInv /\ [Next]_vars => IInv'
    BY AimedStep, LoadWritesStep
  <1> HIDE DEF IInv
  <1>3. Init => IInv
    BY InitInv DEF IInv
  <1> QED
    BY OnLoadMeetsConsoleOnly, <1>1, <1>2, <1>3, PTL DEF Spec

-----------------------------------------------------------------------------
(* The command tree: recursion.                                             *)

\* A set of numbers has a least one.
LEMMA LeastNumber ==
    ASSUME NEW T \in SUBSET Nat, T # {}
    PROVE  \E x \in T : \A y \in T : x <= y
  <1> DEFINE R == {ss \in Nat \X Nat : ss[1] < ss[2]}
  <1>1. IsWellFoundedOn(R, Nat)  BY NatLessThanWellFounded DEF OpToRel
  <1> HIDE DEF R
  <1>2. PICK x \in T : \A y \in T : ~(<<y, x>> \in R)  BY <1>1, WFMin, Zenon
  <1>3. ASSUME NEW y \in T, y < x PROVE FALSE
    <2>1. <<y, x>> \in R  BY <1>3 DEF R
    <2> QED  BY <2>1, <1>2
  <1> QED  BY <1>2, <1>3

\* Induction, with the property as a set: the least number outside it has a predecessor.
LEMMA Induction ==
    ASSUME NEW S, 0 \in S, \A n \in Nat : n \in S => n + 1 \in S
    PROVE  \A n \in Nat : n \in S
  <1> SUFFICES ASSUME Nat \ S # {} PROVE FALSE  OBVIOUS
  <1>1. PICK x \in Nat \ S : \A y \in Nat \ S : x <= y  BY LeastNumber, Zenon
  <1>2. x # 0  BY <1>1
  <1>3. x - 1 \in Nat /\ x - 1 \in S  BY <1>1, <1>2
  <1> QED  BY <1>1, <1>3

\* What the loop has before the first command, and what the shortest lines are.
NothingAdded(start) == [next |-> start, children |-> <<>>, extra |-> <<>>]
NoWords(tree) == [n \in 0 .. Len(tree.nodes) - 1 |-> {<<>>}]

\* There is a function that the recursion of Added describes, and Added is its last value.
LEMMA AddedIsLoop ==
    ASSUME NEW start, NEW K, Len(K) \in Nat
    PROVE  \E g : /\ g[0] = NothingAdded(start)
                  /\ \A i \in 1 .. Len(K) : g[i] = Add(g[i - 1], K[i])
                  /\ Added(start, K) = g[Len(K)]
  <1>1. PICK L \in Nat : L = Len(K)  OBVIOUS
  <1> DEFINE Loop(g, m) == g[0] = NothingAdded(start) /\ \A i \in 1 .. m : g[i] = Add(g[i - 1], K[i])
             Good(m) == \E g : Loop(g, m)
             S == {m \in Nat : Good(m)}
  <1>2. 0 \in S
    <2>1. Loop([i \in 0 .. 0 |-> NothingAdded(start)], 0)  OBVIOUS
    <2>2. Good(0)  BY <2>1, Zenon
    <2> HIDE DEF Good
    <2> QED  BY <2>2
  <1>3. ASSUME NEW m \in Nat, m \in S PROVE m + 1 \in S
    <2>1. PICK g : Loop(g, m)  BY <1>3
    <2> DEFINE h == [i \in 0 .. m + 1 |-> IF i <= m THEN g[i] ELSE Add(g[m], K[m + 1])]
    <2>2. Loop(h, m + 1)  BY <2>1
    <2>3. Good(m + 1)  BY <2>2, Zenon
    <2> HIDE DEF Good
    <2> QED  BY <2>3
  <1>4. L \in S
    <2> HIDE DEF S
    <2> QED  BY <1>2, <1>3, Induction
  <1>5. PICK f : Loop(f, L)  BY <1>4
  <1> DEFINE IsLoop(g) == g = [i \in 0 .. L |-> IF i = 0 THEN NothingAdded(start) ELSE Add(g[i - 1], K[i])]
             g == CHOOSE x : IsLoop(x)
  <1>6. IsLoop([i \in 0 .. L |-> f[i]])  BY <1>5
  <1>7. Added(start, K) = g[L]  BY <1>1 DEF Added, NothingAdded
  <1>8. IsLoop(g)
    <2> HIDE DEF IsLoop
    <2> QED  BY <1>6, Zenon
  <1>9. g[0] = NothingAdded(start) /\ \A i \in 1 .. L : g[i] = Add(g[i - 1], K[i])
    <2> HIDE DEF g
    <2> QED  BY <1>8
  <1> HIDE DEF g
  <1> QED  BY <1>1, <1>7, <1>9

\* There is one that the recursion of Lines describes, and Lines is one.
LEMMA LinesAre ==
    ASSUME NEW tree, NEW commands
    PROVE  /\ Lines(tree, commands)[0] = NoWords(tree)
           /\ \A d \in 1 .. Depth :
                Lines(tree, commands)[d] = Longer(tree, commands, d, Lines(tree, commands)[d - 1])
  <1> USE TreeAssumption
  <1> DEFINE Walk(g, m) == g[0] = NoWords(tree) /\ \A d \in 1 .. m : g[d] = Longer(tree, commands, d, g[d - 1])
             Good(m) == \E g : Walk(g, m)
             S == {m \in Nat : Good(m)}
  <1>2. 0 \in S
    <2>1. Walk([i \in 0 .. 0 |-> NoWords(tree)], 0)  OBVIOUS
    <2>2. Good(0)  BY <2>1, Zenon
    <2> HIDE DEF Good
    <2> QED  BY <2>2
  <1>3. ASSUME NEW m \in Nat, m \in S PROVE m + 1 \in S
    <2>1. PICK g : Walk(g, m)  BY <1>3
    <2> DEFINE h == [d \in 0 .. m + 1 |-> IF d <= m THEN g[d] ELSE Longer(tree, commands, m + 1, g[m])]
    <2>2. Walk(h, m + 1)  BY <2>1
    <2>3. Good(m + 1)  BY <2>2, Zenon
    <2> HIDE DEF Good
    <2> QED  BY <2>3
  <1>4. Depth \in S
    <2> HIDE DEF S
    <2> QED  BY <1>2, <1>3, Induction
  <1>5. PICK f : Walk(f, Depth)  BY <1>4
  <1> DEFINE IsWalk(g) == g = [d \in 0 .. Depth |-> IF d = 0 THEN NoWords(tree) ELSE Longer(tree, commands, d, g[d - 1])]
             g == CHOOSE x : IsWalk(x)
  <1>6. IsWalk([d \in 0 .. Depth |-> f[d]])  BY <1>5
  <1>7. Lines(tree, commands) = g  BY DEF Lines, NoWords
  <1>8. IsWalk(g)
    <2> HIDE DEF IsWalk
    <2> QED  BY <1>6, Zenon
  <1>9. g[0] = NoWords(tree) /\ \A d \in 1 .. Depth : g[d] = Longer(tree, commands, d, g[d - 1])
    <2> HIDE DEF g
    <2> QED  BY <1>8
  <1> HIDE DEF g
  <1> QED  BY <1>7, <1>9

-----------------------------------------------------------------------------
(* The command tree: what is injected.                                      *)

Word == STRING \cup {"args"} \cup Builtins \cup Plugins
Node == [name : Word, children : Seq(Nat), redirect : Int]

\* Node p, behind the first N, offers the command c, and "args" if it takes some.
NodeAt(extra, N, c, p) ==
    /\ p \in N .. N + Len(extra) - 1
    /\ IF c \in TakesArgs
       THEN /\ p + 1 \in N .. N + Len(extra) - 1
            /\ extra[p - N + 1] = Literal(c, <<p + 1>>) /\ extra[p - N + 2] = Args
       ELSE extra[p - N + 1] = Literal(c, <<>>)

\* After m turns the first m commands have their nodes.
Placed(acc, N, K, m) ==
    /\ acc.children \in Seq(Nat) /\ Len(acc.children) = m
    /\ acc.extra \in Seq(Node) /\ acc.next = N + Len(acc.extra)
    /\ m > 0 => Len(acc.extra) > 0
    /\ \A i \in 1 .. m : NodeAt(acc.extra, N, K[i], acc.children[i])

\* Writing more nodes moves none.
LEMMA NodeStays ==
    ASSUME NEW N \in Nat, NEW c, NEW p, NEW e \in Seq(Node), NEW f \in Seq(Node),
           Len(e) <= Len(f), \A k \in 1 .. Len(e) : f[k] = e[k], NodeAt(e, N, c, p)
    PROVE  NodeAt(f, N, c, p)
  <1>1. PICK m \in Nat, n \in Nat : m = Len(e) /\ n = Len(f) /\ m <= n  OBVIOUS
  <1>2. p \in N .. N + m - 1  BY <1>1 DEF NodeAt
  <1>3. p \in N .. N + n - 1 /\ p - N + 1 \in 1 .. m  BY <1>1, <1>2
  <1>4. CASE c \in TakesArgs
    <2>1. p + 1 \in N .. N + m - 1 /\ e[p - N + 1] = Literal(c, <<p + 1>>) /\ e[p - N + 2] = Args
      BY <1>1, <1>4 DEF NodeAt
    <2>2. p + 1 \in N .. N + n - 1 /\ p - N + 2 \in 1 .. m  BY <1>1, <1>2, <2>1
    <2> QED  BY <1>1, <1>3, <1>4, <2>1, <2>2 DEF NodeAt
  <1>5. CASE c \notin TakesArgs
    <2>1. e[p - N + 1] = Literal(c, <<>>)  BY <1>5 DEF NodeAt
    <2> QED  BY <1>1, <1>3, <1>5, <2>1 DEF NodeAt
  <1> QED  BY <1>4, <1>5

\* One turn of the loop.
LEMMA AddPlaces ==
    ASSUME NEW N \in Nat, NEW K \in Seq(Word), NEW m \in Nat, m + 1 <= Len(K),
           NEW acc, Placed(acc, N, K, m)
    PROVE  Placed(Add(acc, K[m + 1]), N, K, m + 1)
  <1>1. PICK c \in Word : c = K[m + 1]  OBVIOUS
  <1>2. PICK e \in Seq(Node), ch \in Seq(Nat), L \in Nat :
          /\ e = acc.extra /\ ch = acc.children /\ Len(ch) = m /\ L = Len(e) /\ acc.next = N + L
          /\ \A i \in 1 .. m : NodeAt(e, N, K[i], ch[i])
    <2>1. /\ acc.extra \in Seq(Node) /\ acc.children \in Seq(Nat) /\ Len(acc.children) = m
          /\ acc.next = N + Len(acc.extra)
          /\ \A i \in 1 .. m : NodeAt(acc.extra, N, K[i], acc.children[i])
      BY DEF Placed
    <2>2. Len(acc.extra) \in Nat  BY <2>1
    <2> QED  BY <2>1, <2>2
  <1>3. PICK ch2 \in Seq(Nat) :
          /\ ch2 = Append(ch, N + L) /\ Len(ch2) = m + 1
          /\ ch2[m + 1] = N + L /\ \A i \in 1 .. m : ch2[i] = ch[i]
    <2>1. Append(ch, N + L) \in Seq(Nat)  OBVIOUS
    <2>2. PICK s \in Seq(Nat) : s = Append(ch, N + L)  BY <2>1, Zenon
    <2>3. Len(s) = m + 1 /\ s[m + 1] = N + L /\ \A i \in 1 .. m : s[i] = ch[i]  BY <1>2, <2>2
    <2> QED  BY <2>2, <2>3, Zenon
  <1>4. ASSUME NEW f \in Seq(Node), Len(f) > L, \A k \in 1 .. L : f[k] = e[k], NodeAt(f, N, c, N + L)
        PROVE  \A i \in 1 .. m + 1 : NodeAt(f, N, K[i], ch2[i])
    <2>1. ASSUME NEW i \in 1 .. m PROVE NodeAt(f, N, K[i], ch2[i])
      <3>1. NodeAt(e, N, K[i], ch[i]) /\ Len(e) <= Len(f)  BY <1>2, <1>4
      <3>2. NodeAt(f, N, K[i], ch[i])  BY <1>2, <1>4, <3>1, NodeStays, Zenon
      <3> QED  BY <1>3, <3>2
    <2>2. NodeAt(f, N, K[m + 1], ch2[m + 1])  BY <1>1, <1>3, <1>4
    <2> QED  BY <2>1, <2>2
  <1>5. CASE c \in TakesArgs
    <2>1. PICK x \in Node, y \in Node : x = Literal(c, <<N + L + 1>>) /\ y = Args
      <3>1. PICK r \in Nat : r = N + L + 1  OBVIOUS
      <3>2. <<r>> \in Seq(Nat) /\ <<>> \in Seq(Nat)  OBVIOUS
      <3>3. "args" \in Word  BY DEF Word
      <3>4. Literal(c, <<r>>) \in Node  BY <3>2 DEF Literal, Node, NoTarget
      <3>5. Args \in Node  BY <3>2, <3>3 DEF Args, Literal, Node, NoTarget
      <3> QED  BY <3>1, <3>4, <3>5
    <2>2. PICK f \in Seq(Node) :
            /\ f = e \o <<x, y>> /\ Len(f) = L + 2
            /\ \A k \in 1 .. L : f[k] = e[k]
            /\ f[L + 1] = x /\ f[L + 2] = y
      <3>1. PICK t \in Seq(Node) : t = <<x, y>> /\ Len(t) = 2 /\ t[1] = x /\ t[2] = y
        <4>1. <<x, y>> \in Seq(Node)  OBVIOUS
        <4>2. Len(<<x, y>>) = 2 /\ <<x, y>>[1] = x /\ <<x, y>>[2] = y  OBVIOUS
        <4> QED  BY <4>1, <4>2, Zenon
      <3>2. PICK f \in Seq(Node) : f = e \o t /\ Len(f) = L + 2
        <4>1. e \o t \in Seq(Node) /\ Len(e \o t) = Len(e) + Len(t)  BY ConcatProperties
        <4>2. Len(e) + Len(t) = L + 2  BY <1>2, <3>1
        <4> QED  BY <4>1, <4>2, Zenon
      <3>3. \A k \in 1 .. L + 2 : f[k] = IF k <= L THEN e[k] ELSE t[k - L]
        BY <1>2, <3>1, <3>2, ConcatProperties
      <3>4. L + 1 \in 1 .. L + 2 /\ L + 2 \in 1 .. L + 2 /\ (L + 1) - L = 1 /\ (L + 2) - L = 2
            /\ ~(L + 1 <= L) /\ ~(L + 2 <= L)
        OBVIOUS
      <3>5. f[L + 1] = x /\ f[L + 2] = y  BY <3>1, <3>3, <3>4, Zenon
      <3>6. \A k \in 1 .. L : f[k] = e[k]  BY <3>3
      <3> QED  BY <3>1, <3>2, <3>5, <3>6, Zenon
    <2>3. NodeAt(f, N, c, N + L)
      <3>1. PICK p \in Nat : p = N + L  OBVIOUS
      <3>2. /\ p \in N .. N + Len(f) - 1 /\ p + 1 \in N .. N + Len(f) - 1
            /\ p - N + 1 = L + 1 /\ p - N + 2 = L + 2
        BY <2>2, <3>1
      <3> QED  BY <1>5, <2>1, <2>2, <3>1, <3>2 DEF NodeAt
    <2>4. \A i \in 1 .. m + 1 : NodeAt(f, N, K[i], ch2[i])
      <3>1. Len(f) > L  BY <2>2
      <3> QED  BY <1>4, <2>2, <2>3, <3>1, Zenon
    <2>5. Add(acc, c) = [next |-> N + L + 2, children |-> ch2, extra |-> f]
      BY <1>2, <1>3, <1>5, <2>1, <2>2 DEF Add
    <2>6. PICK a : a = Add(acc, c)  OBVIOUS
    <2>7. a.children = ch2 /\ a.extra = f /\ a.next = N + Len(f) /\ Len(f) > 0
      <3>1. a.next = N + L + 2  BY <2>5, <2>6
      <3>2. Len(f) \in Nat /\ Len(f) > 0  BY <2>2
      <3>3. Len(f) = L + 2  BY <2>2
      <3>4. a.next = N + Len(f)  BY <3>1, <3>3
      <3> QED  BY <2>5, <2>6, <3>2, <3>4
    <2>8. Placed(a, N, K, m + 1)  BY <1>3, <2>4, <2>7 DEF Placed
    <2> QED  BY <1>1, <2>6, <2>8
  <1>6. CASE c \notin TakesArgs
    <2>1. PICK x \in Node : x = Literal(c, <<>>)
      <3>1. <<>> \in Seq(Nat)  OBVIOUS
      <3>2. Literal(c, <<>>) \in Node  BY <3>1 DEF Literal, Node, NoTarget
      <3> QED  BY <3>2
    <2>2. PICK f \in Seq(Node) :
            f = Append(e, x) /\ Len(f) = L + 1 /\ f[L + 1] = x /\ \A k \in 1 .. L : f[k] = e[k]
      <3>1. Append(e, x) \in Seq(Node)  OBVIOUS
      <3>2. PICK f \in Seq(Node) : f = Append(e, x)  BY <3>1, Zenon
      <3>3. Len(f) = L + 1 /\ f[L + 1] = x /\ \A k \in 1 .. L : f[k] = e[k]  BY <1>2, <3>2
      <3> QED  BY <3>2, <3>3, Zenon
    <2>3. NodeAt(f, N, c, N + L)
      <3>1. PICK p \in Nat : p = N + L  OBVIOUS
      <3>2. p \in N .. N + Len(f) - 1 /\ p - N + 1 = L + 1  BY <2>2, <3>1
      <3> QED  BY <1>6, <2>1, <2>2, <3>1, <3>2 DEF NodeAt
    <2>4. \A i \in 1 .. m + 1 : NodeAt(f, N, K[i], ch2[i])
      <3>1. Len(f) > L  BY <2>2
      <3> QED  BY <1>4, <2>2, <2>3, <3>1, Zenon
    <2>5. Add(acc, c) = [next |-> N + L + 1, children |-> ch2, extra |-> f]
      BY <1>2, <1>3, <1>6, <2>1, <2>2 DEF Add
    <2>6. PICK a : a = Add(acc, c)  OBVIOUS
    <2>7. a.children = ch2 /\ a.extra = f /\ a.next = N + Len(f) /\ Len(f) > 0
      <3>1. a.next = N + L + 1  BY <2>5, <2>6
      <3>2. Len(f) \in Nat /\ Len(f) > 0  BY <2>2
      <3>3. a.next = N + Len(f)  BY <2>2, <3>1
      <3> QED  BY <2>5, <2>6, <3>2, <3>3
    <2>8. Placed(a, N, K, m + 1)  BY <1>3, <2>4, <2>7 DEF Placed
    <2> QED  BY <1>1, <2>6, <2>8
  <1> QED  BY <1>5, <1>6

\* The whole loop.
LEMMA AddedPlaces ==
    ASSUME NEW N \in Nat, NEW K \in Seq(Word)
    PROVE  Placed(Added(N, K), N, K, Len(K))
  <1>1. PICK L \in Nat : L = Len(K)  OBVIOUS
  <1>2. PICK g : /\ g[0] = NothingAdded(N)
                 /\ \A i \in 1 .. L : g[i] = Add(g[i - 1], K[i])
                 /\ Added(N, K) = g[L]
    BY <1>1, AddedIsLoop, Zenon
  <1> DEFINE S == {m \in Nat : m <= L => Placed(g[m], N, K, m)}
  <1>3. 0 \in S
    <2>1. <<>> \in Seq(Nat) /\ <<>> \in Seq(Node) /\ Len(<<>>) = 0 /\ N = N + 0  OBVIOUS
    <2>2. Placed(NothingAdded(N), N, K, 0)  BY <2>1 DEF Placed, NothingAdded
    <2> QED  BY <1>2, <2>2
  <1>4. ASSUME NEW m \in Nat, m \in S PROVE m + 1 \in S
    <2> SUFFICES ASSUME m + 1 <= L PROVE Placed(g[m + 1], N, K, m + 1)  OBVIOUS
    <2>1. Placed(g[m], N, K, m)  BY <1>4
    <2>2. m + 1 \in 1 .. L /\ (m + 1) - 1 = m  OBVIOUS
    <2>3. g[m + 1] = Add(g[m], K[m + 1])  BY <1>2, <2>2
    <2> QED  BY <1>1, <2>1, <2>3, AddPlaces
  <1>5. L \in S
    <2> HIDE DEF S
    <2> QED  BY <1>3, <1>4, Induction
  <1> QED  BY <1>1, <1>2, <1>5

\* The client's tree: the first N nodes are the backend's, the root with more children ch;
\* behind them are the nodes e, where the commands K are found.
Client(T, K, C, N, ch, e) ==
    /\ N \in Nat /\ N = Len(T.nodes) /\ N > 0 /\ T.root = 0 /\ C.root = 0
    /\ ch \in Seq(Nat) /\ Len(ch) = Len(K) /\ e \in Seq(Node) /\ Len(e) > 0
    /\ Len(C.nodes) = N + Len(e)
    /\ \A n \in 1 .. N : C.nodes[n].name = T.nodes[n].name /\ C.nodes[n].redirect = T.nodes[n].redirect
    /\ \A n \in 2 .. N : C.nodes[n].children = T.nodes[n].children
    /\ C.nodes[1].children = T.nodes[1].children \o ch
    /\ \A k \in 1 .. Len(e) : C.nodes[N + k] = e[k]
    /\ \A i \in 1 .. Len(K) : NodeAt(e, N, K[i], ch[i])

\* Types of a backend's tree.
LEMMA TreeTypes ==
    ASSUME NEW T \in BackendTrees
    PROVE  /\ T.nodes \in Seq(Node) /\ Len(T.nodes) \in Nat \ {0} /\ T.nodes # <<>>
           /\ T = [nodes |-> T.nodes, root |-> T.root, flags |-> T.flags]
           /\ \A n \in 1 .. Len(T.nodes) :
                /\ T.nodes[n].children \in Seq(Nat)
                /\ \A i \in DOMAIN T.nodes[n].children : T.nodes[n].children[i] \in 0 .. Len(T.nodes) - 1
                /\ T.nodes[n].redirect \in (0 .. Len(T.nodes) - 1) \cup {NoTarget}
  <1> DEFINE Given == [name : STRING, children : Seq(Nat), redirect : Int]
  <1>1. T \in [nodes : Seq(Given), root : Nat, flags : Nat] /\ IsTree(T)  BY TreeAssumption
  <1>2. T.nodes \in Seq(Given)  BY <1>1
  <1>3. Given \subseteq Node  BY DEF Node, Word
  <1> HIDE DEF Given
  <1>4. T.nodes \in Seq(Node)  BY <1>2, <1>3, SeqMonotonic
  <1>5. Len(T.nodes) \in Nat  BY <1>4
  <1>6. T.root \in 0 .. Len(T.nodes) - 1  BY <1>1 DEF IsTree
  <1>7. Len(T.nodes) # 0  BY <1>5, <1>6
  <1>8. ASSUME NEW n \in 1 .. Len(T.nodes)
        PROVE  /\ T.nodes[n].children \in Seq(Nat)
               /\ \A i \in DOMAIN T.nodes[n].children : T.nodes[n].children[i] \in 0 .. Len(T.nodes) - 1
               /\ T.nodes[n].redirect \in (0 .. Len(T.nodes) - 1) \cup {NoTarget}
    <2>1. T.nodes[n] \in Node  BY <1>4
    <2>2. T.nodes[n].children \in Seq(Nat)  BY <2>1 DEF Node
    <2>3. n \in DOMAIN T.nodes  BY <1>4
    <2>4. T.nodes[n].children \in Seq(0 .. Len(T.nodes) - 1)  BY <1>1, <2>3 DEF IsTree
    <2>5. T.nodes[n].redirect \in (0 .. Len(T.nodes) - 1) \cup {NoTarget}  BY <1>1, <2>3 DEF IsTree
    <2> QED  BY <2>2, <2>4, <2>5
  <1>9. T.nodes # <<>>  BY <1>4, <1>7
  <1>10. T = [nodes |-> T.nodes, root |-> T.root, flags |-> T.flags]  BY <1>1
  <1> QED  BY <1>4, <1>5, <1>7, <1>8, <1>9, <1>10

\* What inject_proxy_commands returns is such a tree.
LEMMA InjectIs ==
    ASSUME NEW T \in BackendTrees, NEW K \in Seq(Word), K # <<>>, T.root = 0, T.flags = 0
    PROVE  \E N, ch, e : Client(T, K, Inject(T, K), N, ch, e)
  <1>1. PICK C : C = Inject(T, K)  OBVIOUS
  <1>2. PICK N \in Nat, nodes \in Seq(Node) : N = Len(T.nodes) /\ nodes = T.nodes /\ N > 0 /\ nodes # <<>>
    BY TreeTypes
  <1>3. PICK acc : acc = Added(N, K) /\ Placed(acc, N, K, Len(K))  BY <1>2, AddedPlaces
  <1>4. PICK ch \in Seq(Nat), e \in Seq(Node) :
          /\ ch = acc.children /\ e = acc.extra /\ Len(ch) = Len(K) /\ Len(e) > 0
          /\ \A i \in 1 .. Len(K) : NodeAt(e, N, K[i], ch[i])
    <2>1. Len(K) > 0  OBVIOUS
    <2> QED  BY <1>3, <2>1 DEF Placed
  <1>5. Head(nodes) \in Node /\ Head(nodes) = nodes[1]  BY <1>2
  <1>6. PICK root \in Node :
          /\ root = [Head(nodes) EXCEPT !.children = @ \o ch]
          /\ root.name = nodes[1].name /\ root.redirect = nodes[1].redirect
          /\ root.children = nodes[1].children \o ch
    <2>1. PICK old \in Seq(Nat) : old = nodes[1].children  BY <1>5 DEF Node
    <2>2. PICK new \in Seq(Nat) : new = old \o ch
      <3>1. old \o ch \in Seq(Nat)  BY ConcatProperties
      <3> QED  BY <3>1, Zenon
    <2>3. [Head(nodes) EXCEPT !.children = new] \in Node  BY <1>5, Zenon DEF Node
    <2>4. [Head(nodes) EXCEPT !.children = @ \o ch] = [Head(nodes) EXCEPT !.children = new]
      BY <1>5, <2>1, <2>2, Zenon
    <2> QED  BY <1>5, <2>1, <2>2, <2>3, <2>4, Zenon DEF Node
  <1>7. C = [T EXCEPT !.nodes = <<root>> \o Tail(nodes) \o e]
    BY <1>1, <1>2, <1>3, <1>4, <1>6 DEF Inject
  <1>8. C.root = 0 /\ C.nodes = <<root>> \o Tail(nodes) \o e  BY <1>7, TreeTypes
  <1>9. PICK a \in Seq(Node), t \in Seq(Node), b \in Seq(Node) :
          a = <<root>> /\ Len(a) = 1 /\ a[1] = root /\ t = Tail(nodes) /\ b = a \o t
    <2>1. <<root>> \in Seq(Node) /\ Len(<<root>>) = 1 /\ <<root>>[1] = root  OBVIOUS
    <2>2. Tail(nodes) \in Seq(Node)  BY <1>2
    <2>3. <<root>> \o Tail(nodes) \in Seq(Node)  BY <2>1, <2>2, ConcatProperties
    <2> QED  BY <2>1, <2>2, <2>3, Zenon
  <1>10. Len(b) = N /\ b[1] = root /\ \A n \in 2 .. N : b[n] = nodes[n]
    <2>1. Len(t) = N - 1 /\ \A i \in 1 .. N - 1 : t[i] = nodes[i + 1]
      BY <1>2, <1>9, HeadTailProperties
    <2>2. Len(b) = N  BY <1>9, <2>1, ConcatProperties
    <2>3. \A i \in 1 .. N : b[i] = IF i <= 1 THEN a[i] ELSE t[i - 1]
      BY <1>2, <1>9, <2>1, ConcatProperties
    <2>4. b[1] = root  BY <1>2, <1>9, <2>3
    <2>5. ASSUME NEW n \in 2 .. N PROVE b[n] = nodes[n]
      <3>1. n - 1 \in 1 .. N - 1 /\ (n - 1) + 1 = n /\ n \in 1 .. N /\ ~(n <= 1)  OBVIOUS
      <3> QED  BY <2>1, <2>3, <3>1
    <2> QED  BY <2>2, <2>4, <2>5
  <1>11. C.nodes = b \o e  BY <1>8, <1>9
  <1>12. Len(C.nodes) = N + Len(e)  BY <1>10, <1>11, ConcatProperties, Zenon
  <1>13. \A i \in 1 .. N + Len(e) : C.nodes[i] = IF i <= N THEN b[i] ELSE e[i - N]
    BY <1>10, <1>11, ConcatProperties
  <1>14. ASSUME NEW n \in 1 .. N PROVE C.nodes[n] = b[n]
    <2>1. n \in 1 .. N + Len(e) /\ n <= N  OBVIOUS
    <2> QED  BY <1>13, <2>1
  <1>15. ASSUME NEW k \in 1 .. Len(e) PROVE C.nodes[N + k] = e[k]
    <2>1. N + k \in 1 .. N + Len(e) /\ ~(N + k <= N) /\ (N + k) - N = k  OBVIOUS
    <2> QED  BY <1>13, <2>1
  <1>16. C.nodes[1] = root /\ \A n \in 2 .. N : C.nodes[n] = nodes[n]
    <2>1. 1 \in 1 .. N /\ \A n \in 2 .. N : n \in 1 .. N  BY <1>2
    <2> QED  BY <1>10, <1>14, <2>1
  <1>17. ASSUME NEW n \in 1 .. N
         PROVE  C.nodes[n].name = nodes[n].name /\ C.nodes[n].redirect = nodes[n].redirect
    <2>1. CASE n = 1  BY <1>6, <1>16, <2>1, Zenon
    <2>2. CASE n # 1
      <3>1. n \in 2 .. N  BY <2>2
      <3> QED  BY <1>16, <3>1
    <2> QED  BY <2>1, <2>2
  <1>18. C.nodes[1].children = nodes[1].children \o ch  BY <1>6, <1>16, Zenon
  <1>19. \A n \in 2 .. N : C.nodes[n].children = nodes[n].children  BY <1>16
  <1>20. Client(T, K, C, N, ch, e)
    BY <1>2, <1>4, <1>8, <1>12, <1>15, <1>17, <1>18, <1>19, Zenon DEF Client
  <1> QED  BY <1>1, <1>20

-----------------------------------------------------------------------------
(* The command tree: what the client is offered.                            *)

\* No words; no words, or a word more than the shorter lines below the node m, or the commands.
NoWord == {<<>>}
Onward(tree, m, cs, d, shorter) ==
    {<<>>} \cup Below(tree, m, shorter) \cup (IF m = tree.root THEN Typed(cs, d) ELSE {})

\* A line has one word more than the ones before.
LEMMA LinesStep ==
    ASSUME NEW tree, NEW cs, NEW n \in 0 .. Len(tree.nodes) - 1
    PROVE  /\ Lines(tree, cs)[0][n] = NoWord
           /\ \A d \in 1 .. Depth :
                Lines(tree, cs)[d][n] = Onward(tree, Target(tree, n), cs, d, Lines(tree, cs)[d - 1])
  <1>1. Lines(tree, cs)[0] = NoWords(tree)  BY LinesAre
  <1>2. NoWords(tree)[n] = NoWord  BY DEF NoWords, NoWord
  <1>3. ASSUME NEW d \in 1 .. Depth
        PROVE Lines(tree, cs)[d] = Longer(tree, cs, d, Lines(tree, cs)[d - 1])
    BY LinesAre
  <1>4. ASSUME NEW d \in 1 .. Depth
        PROVE Lines(tree, cs)[d][n] = Onward(tree, Target(tree, n), cs, d, Lines(tree, cs)[d - 1])
    BY <1>3, Zenon DEF Longer, Onward
  <1> QED  BY <1>1, <1>2, <1>4

\* The bound on words is a number.
LEMMA DepthIsNat == Depth \in Nat
  BY TreeAssumption

\* A line starts with the word of one of the nodes.
Leads(tree, nodes, lines, x) == \E c \in nodes : \E line \in lines[c] : x = <<tree.nodes[c + 1].name>> \o line

\* The words that may come first below a node are its children.
LEMMA InBelow ==
    ASSUME NEW tree, NEW n, NEW lines, NEW x
    PROVE  x \in Below(tree, n, lines) <=> Leads(tree, ToSet(tree.nodes[n + 1].children), lines, x)
  <1> DEFINE G(c) == {<<tree.nodes[c + 1].name>> \o line : line \in lines[c]}
             S == ToSet(tree.nodes[n + 1].children)
  <1>1. Below(tree, n, lines) = UNION {G(c) : c \in S}  BY DEF Below
  <1>2. ASSUME NEW c PROVE x \in G(c) <=> \E line \in lines[c] : x = <<tree.nodes[c + 1].name>> \o line
    OBVIOUS
  <1> HIDE DEF G
  <1>3. x \in Below(tree, n, lines) <=> \E c \in S : x \in G(c)  BY <1>1, Zenon
  <1> HIDE DEF S
  <1>4. x \in Below(tree, n, lines) <=> \E c \in S : \E line \in lines[c] : x = <<tree.nodes[c + 1].name>> \o line
    BY <1>2, <1>3, Zenon
  <1> QED  BY <1>4 DEF S, Leads

\* A node that is not the root and has no children offers nothing more.
LEMMA LeafLines ==
    ASSUME NEW C, NEW p \in 0 .. Len(C.nodes) - 1, p # C.root, NEW d \in 0 .. Depth,
           C.nodes[p + 1].redirect = NoTarget, C.nodes[p + 1].children = <<>>
    PROVE  Lines(C, {})[d][p] = NoWord
  <1> USE DepthIsNat
  <1>1. CASE d = 0  BY <1>1, LinesStep
  <1>2. CASE d # 0
    <2>1. d \in 1 .. Depth  BY <1>2
    <2>2. Target(C, p) = p  BY DEF Target
    <2>3. ToSet(C.nodes[p + 1].children) = {}  BY DEF ToSet
    <2>4. \A y : y \notin Below(C, p, Lines(C, {})[d - 1])  BY <2>3, InBelow, Zenon DEF Leads
    <2>5. Lines(C, {})[d][p] = Onward(C, p, {}, d, Lines(C, {})[d - 1])
      BY <2>1, <2>2, LinesStep
    <2> QED  BY <2>4, <2>5 DEF Onward, NoWord
  <1> QED  BY <1>1, <1>2

\* What may follow a command; node p offers the command c and that.
Rest(c, d) == {<<>>} \cup (IF d > 0 /\ c \in TakesArgs THEN {<<"args">>} ELSE {})

Offered(C, p, c, d) == C.nodes[p + 1].name = c /\ Lines(C, {})[d][p] = Rest(c, d)

\* The node of a command offers its arguments.
LEMMA CommandLines ==
    ASSUME NEW T, NEW K, NEW C, NEW N \in Nat, NEW ch, NEW e, Client(T, K, C, N, ch, e)
    PROVE  \A i \in 1 .. Len(K), d \in 0 .. Depth : Offered(C, ch[i], K[i], d)
  <1> SUFFICES ASSUME NEW i \in 1 .. Len(K), NEW d \in 0 .. Depth
               PROVE  /\ C.nodes[ch[i] + 1].name = K[i]
                      /\ Lines(C, {})[d][ch[i]] = Rest(K[i], d)
    BY DEF Offered
  <1> USE DepthIsNat
  <1>1. PICK L \in Nat : L = Len(e)
    <2>1. e \in Seq(Node)  BY DEF Client
    <2> QED  BY <2>1
  <1>2. /\ N > 0 /\ Len(C.nodes) = N + L /\ C.root = 0
        /\ NodeAt(e, N, K[i], ch[i])
    BY <1>1 DEF Client
  <1>3. PICK p \in N .. N + L - 1 : p = ch[i]  BY <1>1, <1>2 DEF NodeAt
  <1>4. p \in 0 .. Len(C.nodes) - 1 /\ p # C.root  BY <1>2, <1>3
  <1>5. ASSUME NEW q \in N .. N + L - 1 PROVE C.nodes[q + 1] = e[q - N + 1]
    <2>1. PICK k \in 1 .. L : k = q - N + 1 /\ N + k = q + 1
      <3>1. q - N + 1 \in 1 .. L /\ N + (q - N + 1) = q + 1  OBVIOUS
      <3> QED  BY <3>1
    <2>2. C.nodes[N + k] = e[k]  BY <1>1 DEF Client
    <2> QED  BY <2>1, <2>2
  <1>6. CASE K[i] \notin TakesArgs
    <2>1. C.nodes[p + 1] = Literal(K[i], <<>>)  BY <1>2, <1>3, <1>5, <1>6 DEF NodeAt
    <2>2. /\ C.nodes[p + 1].name = K[i] /\ C.nodes[p + 1].redirect = NoTarget
          /\ C.nodes[p + 1].children = <<>>
      BY <2>1 DEF Literal
    <2>3. Lines(C, {})[d][p] = NoWord  BY <1>4, <2>2, LeafLines
    <2> QED  BY <1>3, <1>4, <1>6, <2>2, <2>3 DEF Rest, NoWord
  <1>7. CASE K[i] \in TakesArgs
    <2>1. /\ C.nodes[p + 1] = Literal(K[i], <<p + 1>>)
          /\ p + 1 \in N .. N + L - 1 /\ e[p - N + 2] = Args
      BY <1>1, <1>2, <1>3, <1>5, <1>7, Zenon DEF NodeAt
    <2>2. PICK q \in N .. N + L - 1 : q = p + 1  BY <2>1
    <2>3. C.nodes[q + 1] = Args
      <3>1. q - N + 1 = p - N + 2  BY <2>2
      <3> QED  BY <1>5, <2>1, <3>1, Zenon
    <2>4. q \in 0 .. Len(C.nodes) - 1 /\ q # C.root  BY <1>2
    <2>5. /\ C.nodes[p + 1].name = K[i] /\ C.nodes[p + 1].redirect = NoTarget
          /\ C.nodes[p + 1].children = <<q>>
      BY <2>1, <2>2 DEF Literal
    <2>6. /\ C.nodes[q + 1].name = "args" /\ C.nodes[q + 1].redirect = NoTarget
          /\ C.nodes[q + 1].children = <<>>
      BY <2>3 DEF Args, Literal
    <2>7. CASE d = 0
      <3>1. Lines(C, {})[0][p] = NoWord  BY <1>4, LinesStep
      <3> QED  BY <1>3, <1>4, <2>5, <2>7, <3>1 DEF Rest, NoWord
    <2>8. CASE d # 0
      <3>1. d \in 1 .. Depth /\ d > 0 /\ d - 1 \in 0 .. Depth  BY <2>8
      <3>2. Target(C, p) = p  BY <2>5 DEF Target
      <3>3. PICK below : below = Lines(C, {})[d - 1]  OBVIOUS
      <3>4. below[q] = NoWord  BY <2>4, <2>6, <3>1, <3>3, LeafLines
      <3>5. ToSet(C.nodes[p + 1].children) = {q}  BY <2>5 DEF ToSet
      <3>6. <<C.nodes[q + 1].name>> \o <<>> = <<"args">>  BY <2>6
      <3>7. \A y : y \in Below(C, p, below) <=> y = <<"args">>
        <4> TAKE y
        <4>1. y \in Below(C, p, below) <=> Leads(C, ToSet(C.nodes[p + 1].children), below, y)
          BY InBelow
        <4>2. Leads(C, {q}, below, y) <=> y = <<C.nodes[q + 1].name>> \o <<>>
          BY <3>4, Zenon DEF Leads, NoWord
        <4> QED  BY <3>5, <3>6, <4>1, <4>2
      <3>8. Lines(C, {})[d][p] = Onward(C, p, {}, d, below)
        BY <1>4, <3>1, <3>2, <3>3, LinesStep
      <3>9. Lines(C, {})[d][p] = {<<>>} \cup {<<"args">>}  BY <1>4, <3>7, <3>8 DEF Onward
      <3> QED  BY <1>3, <1>4, <1>7, <2>5, <3>1, <3>9 DEF Rest
    <2> QED  BY <2>7, <2>8
  <1> QED  BY <1>6, <1>7

\* A word alone, and with its arguments.
LEMMA OneWordMore ==
    ASSUME NEW c
    PROVE  <<c>> \o <<>> = <<c>> /\ <<c>> \o <<"args">> = <<c, "args">>
  <1>1. <<c>> \o <<>> = <<c>>  OBVIOUS
  <1>2. ASSUME NEW x PROVE <<c>> \o <<x>> = <<c, x>>
    <2>1. PICK V : V = {c, x}  BY Zenon
    <2>2. <<c>> \in Seq(V) /\ x \in V  BY <2>1
    <2>3. Append(<<c>>, x) = <<c>> \o <<x>>  BY <2>2, AppendIsConcat
    <2>4. PICK a \in Seq(V), b \in Seq(V) : a = Append(<<c>>, x) /\ b = <<c, x>>
      <3>1. Append(<<c>>, x) \in Seq(V)  BY <2>2, AppendProperties
      <3>2. <<c, x>> \in Seq(V)  BY <2>1
      <3> QED  BY <3>1, <3>2, Zenon
    <2>5. Len(<<c>>) = 1 /\ <<c>>[1] = c  OBVIOUS
    <2>6. Len(a) = 2 /\ a[1] = c /\ a[2] = x
      <3>1. /\ Len(a) = Len(<<c>>) + 1 /\ a[Len(<<c>>) + 1] = x
            /\ \A i \in 1 .. Len(<<c>>) : a[i] = <<c>>[i]
        BY <2>2, <2>4, AppendProperties
      <3> QED  BY <2>5, <3>1
    <2>7. Len(b) = 2 /\ b[1] = c /\ b[2] = x  BY <2>4
    <2>8. a = b
      <3>1. \A i \in 1 .. Len(a) : a[i] = b[i]  BY <2>6, <2>7
      <3> QED  BY <2>6, <2>7, <3>1, SeqEqual
    <2> QED  BY <2>3, <2>4, <2>8, Zenon
  <1> QED  BY <1>1, <1>2, Zenon

\* The lines the commands make.
LEMMA InTyped ==
    ASSUME NEW cs, NEW d \in Nat, NEW y
    PROVE  y \in Typed(cs, d + 1) <=>
             \E c \in cs : y = <<c>> \/ (d > 0 /\ c \in TakesArgs /\ y = <<c, "args">>)
  <1>1. (d + 1 > 1) <=> (d > 0)  OBVIOUS
  <1> QED  BY <1>1 DEF Typed

\* Below a node other than the root the client finds what the backend put there.
LEMMA BelowStays ==
    ASSUME NEW T \in BackendTrees, NEW K, NEW C, NEW N \in Nat, NEW ch, NEW e,
           Client(T, K, C, N, ch, e), NEW m \in 1 .. N - 1, NEW below, NEW shorter,
           \A n \in 0 .. N - 1 : below[n] = shorter[n]
    PROVE  Below(C, m, below) = Below(T, m, shorter)
  <1>1. N = Len(T.nodes) /\ m + 1 \in 1 .. N /\ m + 1 \in 2 .. N  BY DEF Client
  <1>2. PICK S : S = ToSet(T.nodes[m + 1].children) /\ S = ToSet(C.nodes[m + 1].children)
    BY <1>1 DEF Client
  <1>3. S \subseteq 0 .. N - 1  BY <1>1, <1>2, TreeTypes DEF ToSet
  <1>4. ASSUME NEW c \in S PROVE C.nodes[c + 1].name = T.nodes[c + 1].name /\ below[c] = shorter[c]
    <2>1. c \in 0 .. N - 1 /\ c + 1 \in 1 .. N  BY <1>3
    <2> QED  BY <2>1 DEF Client
  <1>5. ASSUME NEW y PROVE y \in Below(C, m, below) <=> y \in Below(T, m, shorter)
    <2>1. y \in Below(C, m, below) <=> Leads(C, S, below, y)  BY <1>2, InBelow
    <2>2. y \in Below(T, m, shorter) <=> Leads(T, S, shorter, y)  BY <1>2, InBelow, Zenon
    <2>3. Leads(C, S, below, y) <=> Leads(T, S, shorter, y)  BY <1>4, Zenon DEF Leads
    <2> QED  BY <2>1, <2>2, <2>3, SMTT(40)
  <1> QED  BY <1>5, Zenon

\* Below the root it also finds the commands.
LEMMA BelowRoot ==
    ASSUME NEW T \in BackendTrees, NEW K \in Seq(Word), NEW C, NEW N \in Nat, NEW ch, NEW e,
           Client(T, K, C, N, ch, e), NEW d \in Nat, d <= Depth, NEW shorter,
           \A n \in 0 .. N - 1 : Lines(C, {})[d][n] = shorter[n]
    PROVE  Below(C, 0, Lines(C, {})[d]) = Below(T, 0, shorter) \cup Typed(ToSet(K), d + 1)
  <1> USE DepthIsNat
  <1>1. d \in 0 .. Depth /\ N = Len(T.nodes) /\ 0 + 1 \in 1 .. N /\ 0 + 1 = 1  BY DEF Client
  <1>2. PICK below : below = Lines(C, {})[d]  OBVIOUS
  <1>3. PICK old \in Seq(Nat) : old = T.nodes[1].children  BY <1>1, TreeTypes
  <1>4. ch \in Seq(Nat) /\ Len(ch) = Len(K) /\ C.nodes[1].children = old \o ch  BY <1>3 DEF Client
  <1>5. PICK S : S = ToSet(old)  OBVIOUS
  <1>6. ToSet(C.nodes[1].children) = S \cup ToSet(ch)
    <2>1. Range(old \o ch) = Range(old) \cup Range(ch)  BY <1>4, RangeConcatenation
    <2> QED  BY <1>4, <1>5, <2>1, Zenon DEF ToSet, Range
  <1>7. S \subseteq 0 .. N - 1  BY <1>1, <1>3, <1>5, TreeTypes DEF ToSet
  <1>8. ASSUME NEW c \in S PROVE C.nodes[c + 1].name = T.nodes[c + 1].name /\ below[c] = shorter[c]
    <2>1. c \in 0 .. N - 1 /\ c + 1 \in 1 .. N  BY <1>7
    <2> QED  BY <1>2, <2>1, Zenon DEF Client
  <1>9. ASSUME NEW y
        PROVE  Leads(C, ToSet(ch), below, y) <=> y \in Typed(ToSet(K), d + 1)
    <2>1. DOMAIN ch = 1 .. Len(K) /\ DOMAIN K = 1 .. Len(K)  BY <1>4
    <2>2. Leads(C, ToSet(ch), below, y)
            <=> \E i \in 1 .. Len(K) : \E line \in below[ch[i]] : y = <<C.nodes[ch[i] + 1].name>> \o line
      BY <2>1, Zenon DEF ToSet, Leads
    <2>3. ASSUME NEW i \in 1 .. Len(K)
          PROVE  (\E line \in below[ch[i]] : y = <<C.nodes[ch[i] + 1].name>> \o line)
                   <=> y = <<K[i]>> \/ (d > 0 /\ K[i] \in TakesArgs /\ y = <<K[i], "args">>)
      <3>1. Offered(C, ch[i], K[i], d)
        <4>1. \A j \in 1 .. Len(K), k \in 0 .. Depth : Offered(C, ch[j], K[j], k)  BY CommandLines, Zenon
        <4> QED  BY <1>1, <4>1, Zenon
      <3>2. /\ C.nodes[ch[i] + 1].name = K[i]
            /\ below[ch[i]] = {<<>>} \cup (IF d > 0 /\ K[i] \in TakesArgs THEN {<<"args">>} ELSE {})
        BY <1>2, <3>1, Zenon DEF Offered, Rest
      <3>3. <<K[i]>> \o <<>> = <<K[i]>> /\ <<K[i]>> \o <<"args">> = <<K[i], "args">>
        BY OneWordMore, SMTT(40)
      <3> QED  BY <3>2, <3>3, Zenon
    <2>4. y \in Typed(ToSet(K), d + 1) <=>
            \E c \in ToSet(K) : y = <<c>> \/ (d > 0 /\ c \in TakesArgs /\ y = <<c, "args">>)
      BY InTyped
    <2>5. y \in Typed(ToSet(K), d + 1) <=>
            \E i \in 1 .. Len(K) : y = <<K[i]>> \/ (d > 0 /\ K[i] \in TakesArgs /\ y = <<K[i], "args">>)
      BY <2>1, <2>4, Zenon DEF ToSet
    <2> QED  BY <2>2, <2>3, <2>5, Zenon
  <1>10. ASSUME NEW y
         PROVE y \in Below(C, 0, below) <=> y \in Below(T, 0, shorter) \/ y \in Typed(ToSet(K), d + 1)
    <2>1. y \in Below(C, 0, below) <=> Leads(C, ToSet(C.nodes[0 + 1].children), below, y)  BY InBelow
    <2>2. y \in Below(T, 0, shorter) <=> Leads(T, ToSet(T.nodes[0 + 1].children), shorter, y)  BY InBelow
    <2>3. Leads(C, S \cup ToSet(ch), below, y) <=> Leads(C, S, below, y) \/ Leads(C, ToSet(ch), below, y)
      BY Zenon DEF Leads
    <2>4. Leads(C, S, below, y) <=> Leads(T, S, shorter, y)  BY <1>8, Zenon DEF Leads
    <2>5. ToSet(C.nodes[0 + 1].children) = S \cup ToSet(ch) /\ ToSet(T.nodes[0 + 1].children) = S
      BY <1>1, <1>3, <1>5, <1>6
    <2> QED  BY <1>9, <2>1, <2>2, <2>3, <2>4, <2>5
  <1> QED  BY <1>2, <1>10

\* The client is offered, below each node of the backend's, what the backend offers there.
LEMMA SameLines ==
    ASSUME NEW T \in BackendTrees, NEW K \in Seq(Word), NEW C, NEW N \in Nat, NEW ch, NEW e,
           Client(T, K, C, N, ch, e)
    PROVE  \A n \in 0 .. N - 1 : Lines(C, {})[Depth][n] = Lines(T, ToSet(K))[Depth][n]
  <1> USE DepthIsNat
  <1> DEFINE LC == Lines(C, {})
             LT == Lines(T, ToSet(K))
             Same(d) == \A n \in 0 .. N - 1 : LC[d][n] = LT[d][n]
             S == {d \in Nat : d <= Depth => Same(d)}
  <1>1. N = Len(T.nodes) /\ T.root = 0 /\ C.root = 0  BY DEF Client
  <1>2. ASSUME NEW n \in 0 .. N - 1
        PROVE  /\ n \in 0 .. Len(T.nodes) - 1 /\ n \in 0 .. Len(C.nodes) - 1
               /\ Target(C, n) = Target(T, n) /\ Target(T, n) \in 0 .. N - 1
    <2>1. n + 1 \in 1 .. N /\ n \in 0 .. Len(T.nodes) - 1  BY <1>1
    <2>2. PICK L \in Nat : L = Len(e) /\ Len(C.nodes) = N + L
      <3>1. e \in Seq(Node) /\ Len(C.nodes) = N + Len(e)  BY DEF Client
      <3> QED  BY <3>1, SMTT(40)
    <2>3. n \in 0 .. Len(C.nodes) - 1  BY <2>2
    <2>4. C.nodes[n + 1].redirect = T.nodes[n + 1].redirect  BY <2>1 DEF Client
    <2>5. T.nodes[n + 1].redirect \in (0 .. N - 1) \cup {NoTarget}  BY <1>1, <2>1, TreeTypes
    <2> QED  BY <2>1, <2>3, <2>4, <2>5 DEF Target
  <1>3. 0 \in S
    <2>1. ASSUME NEW n \in 0 .. N - 1 PROVE LC[0][n] = LT[0][n]
      <3>1. LC[0][n] = NoWord
        <4>1. n \in 0 .. Len(C.nodes) - 1  BY <1>2
        <4> QED  BY <4>1, LinesStep, Zenon
      <3>2. LT[0][n] = NoWord  BY <1>2, LinesStep
      <3> QED  BY <3>1, <3>2
    <2> QED  BY <2>1
  <1>4. ASSUME NEW d \in Nat, d \in S PROVE d + 1 \in S
    <2> SUFFICES ASSUME d + 1 <= Depth, NEW n \in 0 .. N - 1 PROVE LC[d + 1][n] = LT[d + 1][n]
      OBVIOUS
    <2>1. d + 1 \in 1 .. Depth /\ (d + 1) - 1 = d /\ d <= Depth  OBVIOUS
    <2>2. Same(d)  BY <1>4, <2>1
    <2>3. PICK m \in 0 .. N - 1 : m = Target(C, n) /\ m = Target(T, n)  BY <1>2
    <2>4. Typed({}, d + 1) = {}  BY DEF Typed
    <2>5. LC[d + 1][n] = {<<>>} \cup Below(C, m, LC[d]) \cup {}
      <3>1. n \in 0 .. Len(C.nodes) - 1  BY <1>2
      <3>2. Lines(C, {})[d + 1][n] =
              Onward(C, Target(C, n), {}, d + 1, Lines(C, {})[(d + 1) - 1])
        BY <2>1, <3>1, LinesStep, Zenon
      <3> QED  BY <2>1, <2>3, <2>4, <3>2, Zenon DEF Onward
    <2>6. LT[d + 1][n] = {<<>>} \cup Below(T, m, LT[d]) \cup (IF m = 0 THEN Typed(ToSet(K), d + 1) ELSE {})
      <3>1. n \in 0 .. Len(T.nodes) - 1  BY <1>2
      <3>2. Lines(T, ToSet(K))[d + 1][n] =
              Onward(T, Target(T, n), ToSet(K), d + 1, Lines(T, ToSet(K))[(d + 1) - 1])
        BY <2>1, <3>1, LinesStep, Zenon
      <3> QED  BY <1>1, <2>1, <2>3, <3>2, Zenon DEF Onward
    <2>7. CASE m = 0
      <3>1. Below(C, 0, LC[d]) = Below(T, 0, LT[d]) \cup Typed(ToSet(K), d + 1)
        BY <2>1, <2>2, BelowRoot, SMTT(40)
      <3> HIDE DEF LC, LT, S, Same
      <3> QED  BY <2>5, <2>6, <2>7, <3>1, SMTT(40)
    <2>8. CASE m # 0
      <3>1. m \in 1 .. N - 1  BY <2>8
      <3>2. Below(C, m, LC[d]) = Below(T, m, LT[d])  BY <2>2, <3>1, BelowStays
      <3> HIDE DEF LC, LT, S, Same
      <3> QED  BY <2>5, <2>6, <2>8, <3>2
    <2> QED  BY <2>7, <2>8
  <1>5. Depth \in S
    <2> HIDE DEF S
    <2> QED  BY <1>3, <1>4, Induction
  <1> QED  BY <1>5, SMTT(40)

\* What a Commands packet was made from, with the commands known then.
Answer(r) ==
    \/ r = NothingSent
    \/ /\ r.tree \in BackendTrees /\ r.commands \in Seq(Word)
       /\ ToSet(r.commands) \subseteq Builtins \cup Named
       /\ r.client = Inject(r.tree, r.commands)
Answers == DOMAIN sent = Senders \ Console /\ \A s \in Senders \ Console : Answer(sent[s])

\* Such a packet offers what it should.
LEMMA AnswerIsExact ==
    ASSUME NEW r, Answer(r)
    PROVE  LET injected == IF r.client = r.tree THEN {} ELSE ToSet(r.commands)
           IN  /\ Offers(r.client, {}) = Offers(r.tree, injected)
               /\ injected \subseteq Builtins \cup Named
               /\ r.tree.root = 0 /\ r.tree.flags = 0 => injected = ToSet(r.commands)
  <1>1. ToSet(<<>>) = {}  BY DEF ToSet
  <1>2. CASE r.client = r.tree /\ (r.tree.root = 0 /\ r.tree.flags = 0 => r.commands = <<>>)
    BY <1>1, <1>2
  <1>3. CASE r = NothingSent
    <2>1. r.client = r.tree /\ r.commands = <<>>  BY <1>3, SMTT(40) DEF NothingSent
    <2> QED  BY <1>2, <2>1
  <1>4. CASE r # NothingSent
    <2>0. PICK C : C = r.client  OBVIOUS
    <2>1. PICK T \in BackendTrees, K \in Seq(Word) :
            /\ T = r.tree /\ K = r.commands /\ C = r.client /\ C = Inject(T, K)
            /\ ToSet(K) \subseteq Builtins \cup Named
      BY <1>4, <2>0, SMTT(40) DEF Answer
    <2>2. CASE K = <<>> \/ T.root # 0 \/ T.flags # 0
      <3>1. Inject(T, K) = T  BY <2>2, Zenon DEF Inject
      <3>2. r.client = r.tree /\ (r.tree.root = 0 /\ r.tree.flags = 0 => r.commands = <<>>)
        BY <2>1, <2>2, <3>1, Zenon
      <3> QED  BY <1>2, <3>2
    <2>3. CASE ~(K = <<>> \/ T.root # 0 \/ T.flags # 0)
      <3>1. PICK N, ch, e : Client(T, K, C, N, ch, e)  BY <2>1, <2>3, InjectIs
      <3>2. PICK L \in Nat : L = Len(e) /\ L > 0
        <4>1. e \in Seq(Node) /\ Len(e) > 0  BY <3>1 DEF Client
        <4> QED  BY <4>1
      <3>3. /\ N \in Nat /\ N > 0 /\ Len(T.nodes) = N /\ Len(C.nodes) = N + L
            /\ T.root = 0 /\ C.root = 0
        BY <3>1, <3>2 DEF Client
      <3>4. Len(C.nodes) # Len(T.nodes) /\ Len(C.nodes) # 0 /\ Len(T.nodes) # 0 /\ 0 \in 0 .. N - 1
        BY <3>2, <3>3
      <3>5. C # T /\ C.nodes # <<>> /\ T.nodes # <<>>
        <4>1. Len(<<>>) = 0  OBVIOUS
        <4> QED  BY <3>4, <4>1, Zenon
      <3>6. Lines(C, {})[Depth][0] = Lines(T, ToSet(K))[Depth][0]
        BY <3>1, <3>3, <3>4, SameLines
      <3>7. Offers(C, {}) = Offers(T, ToSet(K))  BY <3>3, <3>5, <3>6, Zenon DEF Offers
      <3> QED  BY <2>1, <3>5, <3>7, Zenon
    <2> QED  BY <2>2, <2>3
  <1> QED  BY <1>3, <1>4

\* The commands come in some order, each of them once.
LEMMA OrderIsSeq ==
    ASSUME NEW K \in SetToSeqs(Builtins \cup Named)
    PROVE  K \in Seq(Word) /\ ToSet(K) \subseteq Builtins \cup Named
  <1>1. IsFiniteSet({"server", "send", "list", "glist", "help"})
    <2>1. IsFiniteSet({"server"} \cup {"send"} \cup {"list"} \cup {"glist"} \cup {"help"})
      BY FS_Singleton, FS_Union, Zenon
    <2>2. {"server"} \cup {"send"} \cup {"list"} \cup {"glist"} \cup {"help"}
            = {"server", "send", "list", "glist", "help"}
      OBVIOUS
    <2> QED  BY <2>1, <2>2
  <1>2. IsFiniteSet(Builtins)  BY <1>1, TreeAssumption, FS_Subset, Zenon
  <1>3. Named \subseteq Plugins /\ IsFiniteSet(Named)
    <2>1. Named \in SUBSET Plugins  BY DEF Named
    <2> QED  BY <2>1, TreeAssumption, FS_Subset
  <1>4. PICK B : B = Builtins \cup Named  OBVIOUS
  <1>5. PICK n \in Nat : n = Cardinality(B)
    <2>1. IsFiniteSet(B)  BY <1>2, <1>3, <1>4, FS_Union, Zenon
    <2> QED  BY <2>1, FS_CardinalityType
  <1>6. K \in [1 .. n -> B]  BY <1>4, <1>5 DEF SetToSeqs
  <1>7. K \in Seq(B) /\ DOMAIN K = 1 .. n  BY <1>6
  <1>8. B \subseteq Word  BY <1>3, <1>4 DEF Word
  <1>9. K \in Seq(Word)  BY <1>7, <1>8, SeqMonotonic
  <1>10. ToSet(K) \subseteq B  BY <1>6, <1>7 DEF ToSet
  <1> QED  BY <1>4, <1>9, <1>10

\* Commands are never removed.
LEMMA NamesStay == ASSUME TypeOK, Aimed, [Next]_vars PROVE Named \subseteq Named'
  <1>1. names' = names \/ \E p \in Plugins : names' = [names EXCEPT ![p] = @ + 1]
    BY DEF Next, vars, SenderStep, GuestStep, Types, HasCommand, ListPermitted, HandleCommand, Suggest,
           Holds, BuiltinReturns, CommandCall, Load, Event, Register, Registered, Returns
  <1>2. \A p \in Plugins : names[p] \in Nat  BY DispatcherAssumption DEF TypeOK
  <1>3. DOMAIN names = Plugins  BY DEF TypeOK
  <1>4. ASSUME NEW p \in Plugins, names[p] > 0 PROVE names'[p] > 0
    BY <1>1, <1>2, <1>3, <1>4
  <1> QED  BY <1>4, SMTT(40) DEF Named

\* Init establishes it.
LEMMA AnswersInit == ASSUME TreeInit PROVE TypeOK /\ Aimed /\ Answers
  BY InitInv DEF TreeInit, Answers, Answer

\* Every step keeps it.
LEMMA AnswersStep ==
    ASSUME TypeOK, Aimed, Answers, [TreeNext]_treeVars PROVE TypeOK' /\ Aimed' /\ Answers'
  <1>1. [Next]_vars  BY DEF TreeNext, treeVars, CommandsPacket, Next, SenderStep
  <1>2. TypeOK' /\ Aimed' /\ Named \subseteq Named'  BY <1>1, AimedStep, NamesStay
  <1>3. ASSUME NEW r, Answer(r) PROVE Answer(r)'
    BY <1>2, <1>3 DEF Answer
  <1>4. ASSUME DOMAIN sent' = Senders \ Console, \A t \in Senders \ Console : Answer(sent'[t])
        PROVE  Answers'
    BY <1>3, <1>4 DEF Answers
  <1>5. ASSUME UNCHANGED sent
        PROVE  DOMAIN sent' = Senders \ Console /\ \A t \in Senders \ Console : Answer(sent'[t])
    BY <1>5 DEF Answers
  <1>6. ASSUME NEW s \in Senders \ Console, CommandsPacket(s)
        PROVE  DOMAIN sent' = Senders \ Console /\ \A t \in Senders \ Console : Answer(sent'[t])
    <2>1. PICK tree \in BackendTrees, K \in SetToSeqs(Builtins \cup Named) :
            sent' = [sent EXCEPT ![s] = [tree |-> tree, commands |-> K, client |-> Inject(tree, K)]]
      BY <1>6, Zenon DEF CommandsPacket
    <2>2. PICK r : r = [tree |-> tree, commands |-> K, client |-> Inject(tree, K)]  BY Zenon
    <2>3. Answer(r)  BY <2>2, OrderIsSeq, Zenon DEF Answer
    <2>4. DOMAIN sent = Senders \ Console /\ \A t \in Senders \ Console : Answer(sent[t])  BY DEF Answers
    <2>5. DOMAIN sent' = Senders \ Console /\ \A t \in Senders \ Console : sent'[t] = IF t = s THEN r ELSE sent[t]
      BY <2>1, <2>2, <2>4
    <2>6. \A t \in Senders \ Console : Answer(sent'[t])  BY <2>3, <2>4, <2>5
    <2> QED  BY <2>5, <2>6
  <1>7. DOMAIN sent' = Senders \ Console /\ \A t \in Senders \ Console : Answer(sent'[t])
    BY <1>5, <1>6 DEF TreeNext, treeVars
  <1> QED  BY <1>2, <1>4, <1>7

\* inject_proxy_commands adds the proxy's commands and changes nothing else, for every
\* tree a backend can send, whatever its redirects and cycles, every number of commands
\* in any order, and lines of any length: no index of the backend's nodes moves, and every
\* new one leads to the command it was written for.
THEOREM OfferIsExact == TreeSpec => []OfferExact
  <1>1. Answers => OfferExact  BY AnswerIsExact DEF Answers, OfferExact
  <1>2. TreeInit => TypeOK /\ Aimed /\ Answers  BY AnswersInit
  <1>3. TypeOK /\ Aimed /\ Answers /\ [TreeNext]_treeVars => TypeOK' /\ Aimed' /\ Answers'
    BY AnswersStep
  <1> QED  BY <1>1, <1>2, <1>3, PTL DEF TreeSpec
=============================================================================
