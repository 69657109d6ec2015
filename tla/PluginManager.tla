---------------------------- MODULE PluginManager ----------------------------
(***************************************************************************)
(* PluginManager, plugin/mod.rs: loading, the handlers of one event type,  *)
(* the fire_ methods and unloading, in the order ProxyServer::run calls    *)
(* them.  Handlers of different event types do not meet, so one type       *)
(* stands for each.  A guest may call register_event whenever it runs.     *)
(***************************************************************************)
EXTENDS Naturals, Sequences, FiniteSets

CONSTANTS
    Plugins,      \* the .wasm files of the plugin directory
    Tasks,        \* connection tasks that fire events
    Priorities,   \* values of EventPriority
    MaxHandlers   \* bound: registrations

ASSUME PluginAssumption ==
    /\ Priorities \subseteq Nat
    /\ MaxHandlers \in Nat

VARIABLES
    proxy,     \* what run() is doing
    status,    \* of each plugin
    loaded,    \* loaded_plugins, or what unload_plugins took out of it
    handlers,  \* event_handlers[type]
    serial,    \* registrations so far
    left,      \* per task, handlers of its clone that have not been called
    calling    \* per task, the plugin whose handle_event it awaits

pluginVars == <<proxy, status, loaded, handlers, serial, left, calling>>

Nobody == "nobody"

PluginInit ==
    /\ proxy = "loading"
    /\ status = [p \in Plugins |-> "file"]
    /\ loaded = <<>>
    /\ handlers = <<>>
    /\ serial = 0
    /\ left = [t \in Tasks |-> <<>>]
    /\ calling = [t \in Tasks |-> Nobody]

Become(p, s) == status' = [status EXCEPT ![p] = s]
Busy == \E p \in Plugins : status[p] \in {"onLoad", "onUnload"}

-----------------------------------------------------------------------------
(* load_plugins: one file after the other, in the order of the directory.   *)

\* The file is compiled and instantiated, or it is skipped with an error.
LoadFile(p) ==
    /\ proxy = "loading" /\ ~Busy /\ status[p] = "file"
    /\ Become(p, "onLoad") \/ Become(p, "unreadable")
    /\ UNCHANGED <<proxy, loaded, handlers, serial, left, calling>>

\* on_load returns.  A plugin that fails is not kept, but its handlers stay.
OnLoad(p) ==
    /\ status[p] = "onLoad"
    /\ \/ Become(p, "loaded") /\ loaded' = Append(loaded, p)
       \/ Become(p, "failed") /\ UNCHANGED loaded
    /\ UNCHANGED <<proxy, handlers, serial, left, calling>>

\* run() goes on to the accept loop.
AcceptLoop ==
    /\ proxy = "loading" /\ \A p \in Plugins : status[p] \notin {"file", "onLoad"}
    /\ proxy' = "serving"
    /\ UNCHANGED <<status, loaded, handlers, serial, left, calling>>

-----------------------------------------------------------------------------
(* register_event_handler.                                                  *)

\* A plugin that has been instantiated runs in on_load and on_unload and, whatever became
\* of these, for its commands, this event and the others: it may register at any time.
MayRegister(p) == status[p] \notin {"file", "unreadable"}

\* Mutant: the handler is appended and the list is not sorted again.
InsertUnsorted(list, h) == Append(list, h)

\* sort_by_key is stable: handlers of one priority keep their order.
NotAfter(list, i, j) ==
    \/ list[i].priority < list[j].priority
    \/ list[i].priority = list[j].priority /\ i <= j
Rank(list, j) == Cardinality({i \in DOMAIN list : NotAfter(list, i, j)})
SortByPriority(list) == [n \in DOMAIN list |-> list[CHOOSE j \in DOMAIN list : Rank(list, j) = n]]

\* The handler is pushed and the list sorted.
Insert(list, h) == SortByPriority(Append(list, h))

RegisterEvent(p) ==
    /\ MayRegister(p) /\ serial < MaxHandlers
    /\ \E q \in Priorities :
         handlers' = Insert(handlers, [plugin |-> p, priority |-> q, serial |-> serial])
    /\ serial' = serial + 1
    /\ UNCHANGED <<proxy, status, loaded, left, calling>>

-----------------------------------------------------------------------------
(* The fire_ methods.                                                       *)

Idle(t) == calling[t] = Nobody /\ left[t] = <<>>

\* The list is cloned under the read lock, which is released before any handler runs.
Fire(t) ==
    /\ proxy # "loading" /\ Idle(t)
    /\ left' = [left EXCEPT ![t] = handlers]
    /\ UNCHANGED <<proxy, status, loaded, handlers, serial, calling>>

CallHandler(t) ==
    /\ calling[t] = Nobody /\ left[t] # <<>>
    /\ calling' = [calling EXCEPT ![t] = Head(left[t]).plugin]
    /\ left' = [left EXCEPT ![t] = Tail(left[t])]
    /\ UNCHANGED <<proxy, status, loaded, handlers, serial>>

\* The handler returns an event or an error and the next one is called.
HandlerReturns(t) ==
    /\ calling[t] # Nobody
    /\ calling' = [calling EXCEPT ![t] = Nobody]
    /\ UNCHANGED <<proxy, status, loaded, handlers, serial, left>>

\* The handler has cancelled the event, which goes to nobody else.
HandlerCancels(t) ==
    /\ calling[t] # Nobody
    /\ calling' = [calling EXCEPT ![t] = Nobody]
    /\ left' = [left EXCEPT ![t] = <<>>]
    /\ UNCHANGED <<proxy, status, loaded, handlers, serial>>

-----------------------------------------------------------------------------
(* unload_plugins, after the accept loop has ended.                         *)

Shutdown ==
    /\ proxy = "serving"
    /\ proxy' = "unloading"
    /\ UNCHANGED <<status, loaded, handlers, serial, left, calling>>

Unload ==
    /\ proxy = "unloading" /\ ~Busy /\ loaded # <<>>
    /\ Become(Head(loaded), "onUnload")
    /\ loaded' = Tail(loaded)
    /\ UNCHANGED <<proxy, handlers, serial, left, calling>>

OnUnload(p) ==
    /\ status[p] = "onUnload"
    /\ Become(p, "unloaded")
    /\ UNCHANGED <<proxy, loaded, handlers, serial, left, calling>>

Clear ==
    /\ proxy = "unloading" /\ loaded = <<>> /\ ~Busy
    /\ handlers' = <<>>
    /\ proxy' = "cleared"
    /\ UNCHANGED <<status, loaded, serial, left, calling>>

-----------------------------------------------------------------------------
PluginNext ==
    \/ AcceptLoop \/ Shutdown \/ Unload \/ Clear
    \/ \E p \in Plugins : LoadFile(p) \/ OnLoad(p) \/ RegisterEvent(p) \/ OnUnload(p)
    \/ \E t \in Tasks : Fire(t) \/ CallHandler(t) \/ HandlerReturns(t) \/ HandlerCancels(t)

PluginSpec == PluginInit /\ [][PluginNext]_pluginVars

-----------------------------------------------------------------------------
(* Properties.                                                              *)

InOrder(list) ==
    \A i, j \in DOMAIN list : i < j =>
        \/ list[i].priority < list[j].priority
        \/ list[i].priority = list[j].priority /\ list[i].serial < list[j].serial

\* An event visits its handlers in order of priority, and in order of registration
\* within one, whatever is registered while it is on its way.
PriorityOrder == InOrder(handlers) /\ \A t \in Tasks : InOrder(left[t])
=============================================================================
