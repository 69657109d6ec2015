-------------------------- MODULE CommandDispatcher --------------------------
(***************************************************************************)
(* CommandDispatcher, command/mod.rs: one std RwLock around the command    *)
(* tree.  handle_command keeps the read lock while the command runs, and   *)
(* suggest_command while the arguments are completed; the executor and the *)
(* suggestion provider of a plugin's command (plugin/mod.rs) block their   *)
(* thread until the guest has answered.  register_command takes the write  *)
(* lock once for the name and once for each alias, inside a host call of   *)
(* the guest: while it waits, the guest's store does nothing else.         *)
(* Senders and guests are tasks of one tokio runtime.  A task that waits   *)
(* for the lock keeps its worker thread; one that waits for a guest gives  *)
(* it back, with block_in_place.                                           *)
(***************************************************************************)
EXTENDS Naturals, FiniteSets

CONSTANTS
    Senders,      \* players and the console
    Console,      \* the senders among them that are the console
    Plugins,
    RegistersIn,  \* what a guest may be doing when it registers a command
    MaxNames,     \* bound: names and aliases a plugin registers
    Workers       \* worker threads of the runtime

None == "none"

ASSUME DispatcherAssumption ==
    /\ None \notin Senders
    /\ Console \subseteq Senders
    /\ RegistersIn \subseteq {"onLoad", "event", "command"}
    /\ MaxNames \in Nat
    /\ Workers \in Nat \ {0}

VARIABLES
    sender,   \* what each sender is doing
    target,   \* the plugin whose command a sender runs
    guest,    \* what each plugin's store runs
    serves,   \* the sender whose command the guest handles
    writing,  \* the guest waits for the write lock
    names     \* names the plugin has in the command tree

vars == <<sender, target, guest, serves, writing, names>>

Init ==
    /\ sender = [s \in Senders |-> "idle"]
    /\ target = [s \in Senders |-> None]
    /\ guest = [p \in Plugins |-> "file"]
    /\ serves = [p \in Plugins |-> None]
    /\ writing = [p \in Plugins |-> FALSE]
    /\ names = [p \in Plugins |-> 0]

-----------------------------------------------------------------------------
(* The lock: a waiting writer keeps new readers out.                        *)

Readers == {s \in Senders : sender[s] \in {"builtin", "plugin"}}

\* Mutant: a lock that prefers readers.
MayReadAlways == TRUE

MayRead == \A p \in Plugins : ~writing[p]
MayWrite == Readers = {}

-----------------------------------------------------------------------------
(* The worker threads.                                                      *)

Busy == {s \in Senders : sender[s] \notin {"idle", "plugin"}}
Writers == {p \in Plugins : writing[p]}

\* A worker that is not in the dispatcher or at its lock takes up a task that is ready.
FreeWorker == Cardinality(Busy) + Cardinality(Writers) < Workers

-----------------------------------------------------------------------------
(* Senders.                                                                 *)

Step(s, from, to) == sender[s] = from /\ sender' = [sender EXCEPT ![s] = to]

Serving == \A p \in Plugins : guest[p] \notin {"file", "onLoad"}

\* Mutant: connections are accepted while the plugins are loaded.
TypesEarly(s) ==
    /\ FreeWorker
    /\ \/ s \in Console /\ Step(s, "idle", "dispatches")
       \/ s \notin Console /\ \E to \in {"asks", "completes", "lists"} : Step(s, "idle", to)
    /\ UNCHANGED <<target, guest, serves, writing, names>>

\* A player's command asks has_command first, and there are players only once the
\* plugins are loaded.  The console's task is spawned before that and goes straight
\* to handle_command.  A player's task also completes arguments and, for the name of a
\* command or the backend's command tree, lists what the player may use.
Types(s) ==
    /\ FreeWorker
    /\ \/ s \in Console /\ Step(s, "idle", "dispatches")
       \/ s \notin Console /\ Serving /\ \E to \in {"asks", "completes", "lists"} : Step(s, "idle", to)
    /\ UNCHANGED <<target, guest, serves, writing, names>>

\* has_command reads and releases.  An unknown command goes to the backend, and so does
\* the request to complete one; for a known one suggest_command asks a second time, and
\* commands are never removed.
HasCommand(s) ==
    /\ MayRead
    /\ \/ Step(s, "asks", "dispatches") \/ Step(s, "asks", "idle")
       \/ Step(s, "completes", "confirms") \/ Step(s, "completes", "idle")
       \/ Step(s, "confirms", "suggests")
    /\ UNCHANGED <<target, guest, serves, writing, names>>

\* get_all_permitted_commands reads and releases.
ListPermitted(s) ==
    /\ MayRead
    /\ Step(s, "lists", "idle")
    /\ UNCHANGED <<target, guest, serves, writing, names>>

\* The lock is taken and kept for what a command of the proxy or of one of the plugins
\* does, or the input does not parse.
Holds(s, from, callable) ==
    /\ MayRead
    /\ \/ Step(s, from, "builtin") /\ UNCHANGED target
       \/ Step(s, from, "idle") /\ UNCHANGED target
       \/ \E p \in callable : Step(s, from, "plugin") /\ target' = [target EXCEPT ![s] = p]
    /\ UNCHANGED <<guest, serves, writing, names>>

Named == {p \in Plugins : names[p] > 0}

\* handle_command runs a built-in command or a plugin's executor.
HandleCommand(s) == Holds(s, "dispatches", Named)

\* suggest_with_range runs the suggestion provider of the argument.
Suggest(s) == Holds(s, "suggests", Named)

BuiltinReturns(s) ==
    /\ Step(s, "builtin", "idle")
    /\ UNCHANGED <<target, guest, serves, writing, names>>

-----------------------------------------------------------------------------
(* Guests.  The store runs one call at a time, on a worker of the runtime.   *)

Load(p) ==
    /\ FreeWorker
    /\ guest[p] = "file" /\ \A q \in Plugins : guest[q] # "onLoad"
    /\ guest' = [guest EXCEPT ![p] = "onLoad"]
    /\ UNCHANGED <<sender, target, serves, writing, names>>

\* An event of a connection, or on_unload when the proxy shuts down.
Event(p) ==
    /\ FreeWorker
    /\ guest[p] = "free" /\ Serving
    /\ guest' = [guest EXCEPT ![p] = "event"]
    /\ UNCHANGED <<sender, target, serves, writing, names>>

CommandCall(s) ==
    /\ FreeWorker
    /\ sender[s] = "plugin" /\ guest[target[s]] = "free"
    /\ guest' = [guest EXCEPT ![target[s]] = "command"]
    /\ serves' = [serves EXCEPT ![target[s]] = s]
    /\ UNCHANGED <<sender, target, writing, names>>

\* register_command reaches inner.write() for one more name.
Register(p) ==
    /\ FreeWorker
    /\ guest[p] \in RegistersIn /\ ~writing[p] /\ names[p] < MaxNames
    /\ writing' = [writing EXCEPT ![p] = TRUE]
    /\ UNCHANGED <<sender, target, guest, serves, names>>

Registered(p) ==
    /\ writing[p] /\ MayWrite
    /\ writing' = [writing EXCEPT ![p] = FALSE]
    /\ names' = [names EXCEPT ![p] = @ + 1]
    /\ UNCHANGED <<sender, target, guest, serves>>

\* Mutant: the answer of the guest does not end the executor's block_on.
ReturnsUnheard(p) ==
    /\ FreeWorker
    /\ guest[p] \notin {"file", "free"} /\ ~writing[p]
    /\ guest' = [guest EXCEPT ![p] = "free"]
    /\ serves' = [serves EXCEPT ![p] = None]
    /\ UNCHANGED <<sender, target, writing, names>>

\* The guest's function returns; a command's sender gets its result and drops the lock.
Returns(p) ==
    /\ FreeWorker
    /\ guest[p] \notin {"file", "free"} /\ ~writing[p]
    /\ guest' = [guest EXCEPT ![p] = "free"]
    /\ serves' = [serves EXCEPT ![p] = None]
    /\ sender' = [s \in Senders |-> IF serves[p] = s THEN "idle" ELSE sender[s]]
    /\ target' = [s \in Senders |-> IF serves[p] = s THEN None ELSE target[s]]
    /\ UNCHANGED <<writing, names>>

-----------------------------------------------------------------------------
SenderStep(s) ==
    \/ Types(s) \/ HasCommand(s) \/ ListPermitted(s)
    \/ HandleCommand(s) \/ Suggest(s) \/ BuiltinReturns(s) \/ CommandCall(s)
GuestStep(p) == Load(p) \/ Event(p) \/ Register(p) \/ Registered(p) \/ Returns(p)
Next == (\E s \in Senders : SenderStep(s)) \/ (\E p \in Plugins : GuestStep(p))

Spec == Init /\ [][Next]_vars

\* Threads run, and the proxy's own commands return.  The store takes its calls in the
\* order of their arrival, so that a waiting command is served although the store, or the
\* workers, are busy again and again.  What a guest does is not the proxy's.
Fairness ==
    /\ \A s \in Senders :
         /\ WF_vars(HasCommand(s)) /\ WF_vars(ListPermitted(s)) /\ WF_vars(BuiltinReturns(s))
         /\ WF_vars(HandleCommand(s)) /\ WF_vars(Suggest(s)) /\ SF_vars(CommandCall(s))
    /\ \A p \in Plugins : WF_vars(Registered(p))

-----------------------------------------------------------------------------
(* Properties.                                                              *)

\* Types of the variables.
TypeOK ==
    /\ sender \in [Senders -> {"idle", "asks", "completes", "confirms", "lists",
                             "dispatches", "suggests", "builtin", "plugin"}]
    /\ target \in [Senders -> Plugins \cup {None}]
    /\ guest \in [Plugins -> {"file", "onLoad", "free", "event", "command"}]
    /\ serves \in [Plugins -> Senders \cup {None}]
    /\ writing \in [Plugins -> BOOLEAN]
    /\ names \in [Plugins -> 0 .. MaxNames]

\* handle_command holds the lock until the plugin has run the command, and the plugin
\* waits for the lock in register_command: neither will go on.
LockCycle(p) == writing[p] /\ \E s \in Senders : sender[s] = "plugin" /\ target[s] = p
NoCycle == \A p \in Plugins : ~LockCycle(p)

\* Every worker waits for the lock behind a writer, and those who hold it wait for guests
\* that no worker is left to run.
Starved ==
    /\ ~FreeWorker /\ ~MayRead
    /\ Readers # {} /\ \A s \in Readers : sender[s] = "plugin"

Stalled == Starved \/ ~NoCycle

\* There is no way out of either: once register_command and a reader wait for each other,
\* directly or for a worker, no sender gets the lock and no plugin registers a name any more,
\* whichever plugin they are about.
StallLasts == [][Stalled => Stalled' /\ Readers' \subseteq Readers /\ names' = names]_vars

\* A plugin that registers in on_load waits for no player's command, only for one typed at
\* the console, which run() starts before it loads the plugins.
CycleOrigins ==
    \A p \in Plugins : LockCycle(p) /\ guest[p] = "onLoad" =>
        \E s \in Console : sender[s] = "plugin" /\ target[s] = p

\* A guest's function returns if there are workers for it again and again.
GuestsReturn == \A p \in Plugins : SF_vars(Returns(p))

\* If the guests return, nothing but a stall keeps a command or a completion from coming to
\* an end, so that the sender's connection task (or the console) goes on.
CommandsFinish ==
    GuestsReturn /\ []~Stalled => \A s \in Senders : sender[s] # "idle" ~> sender[s] = "idle"

\* If the guests return, nothing but a stall keeps loading from coming to an end: a stream of
\* commands cannot keep a plugin from registering.
LoadingFinishes ==
    GuestsReturn /\ []~Stalled => \A p \in Plugins : guest[p] = "onLoad" ~> guest[p] # "onLoad"
=============================================================================
