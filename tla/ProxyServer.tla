----------------------------- MODULE ProxyServer -----------------------------
(***************************************************************************)
(* main.rs and ProxyServer::run, proxy.rs, with Config::load_or_create,    *)
(* start_telemetry and the bedrock listener: the tasks of the process, its *)
(* start, its shutdown, and what is left on disk when it is killed.        *)
(* Ctrl+C is a broadcast whose sender is dropped by the task that sent it; *)
(* every task has a receiver of its own, made by resubscribe, which does   *)
(* not see what was sent before it existed but does see that the sender is *)
(* gone.                                                                   *)
(***************************************************************************)
EXTENDS IdentityKey

CONSTANTS
    Conns,            \* connections that may be accepted
    Telemetry,        \* config.telemetry.enabled
    MaxStarts         \* bound: starts of the process

ASSUME ProxyAssumption == Telemetry \in BOOLEAN /\ MaxStarts \in Nat

VARIABLES
    main,       \* where run() is
    signal,     \* the broadcast channel
    late,       \* tasks that resubscribed after the signal was sent
    telemetry,  \* the telemetry task
    bedrock,    \* the bedrock listener
    console,    \* the console task
    conns,      \* each connection's task
    impatient,  \* the shutdown timeout is shorter than what the telemetry task needs
    elapsed,    \* the shutdown timeout has elapsed
    config,     \* the configuration file
    starts      \* of the process so far

files == <<keyVars, config>>
process == <<main, signal, late, telemetry, bedrock, console, conns, impatient, elapsed>>
rest == <<files, starts>>
vars == <<process, rest>>

NoConns == [c \in Conns |-> "none"]

Init ==
    /\ main = "config"
    /\ signal = "armed" /\ late = {}
    /\ telemetry = "off" /\ bedrock = "off" /\ console = "off" /\ conns = NoConns
    /\ impatient \in BOOLEAN /\ elapsed = FALSE
    /\ KeyInit
    /\ config = "absent"
    /\ starts = 1

Goto(from, to) == main = from /\ main' = to
Running == main \notin {"exited", "failed", "killed"}

\* The signal task exists, and with it the other tasks' receivers.
Alive == Running /\ main \notin {"config", "creating", "new"}

-----------------------------------------------------------------------------
(* The signal task of main.rs.                                              *)

CtrlC ==
    /\ Alive /\ signal = "armed"
    /\ signal' = "sent"
    /\ UNCHANGED <<main, late, telemetry, bedrock, console, conns, impatient, elapsed, rest>>

\* Mutant: the sender is kept in main() and never dropped.
SignalTaskStays == FALSE /\ UNCHANGED vars

\* The task ends and drops the sender, after it has sent or when it cannot listen.
SignalTaskEnds ==
    /\ Alive /\ signal \in {"armed", "sent"}
    /\ signal' = "closed"
    /\ UNCHANGED <<main, late, telemetry, bedrock, console, conns, impatient, elapsed, rest>>

\* recv() of a task's receiver is ready.
Hears(task) == signal = "closed" \/ (signal = "sent" /\ task \notin late)

\* A receiver made now: it misses what has been sent.
Resubscribe(task) == late' = IF signal = "armed" THEN late ELSE late \cup {task}

-----------------------------------------------------------------------------
(* main(): the configuration is read or, the first time, written.           *)

others == <<signal, late, telemetry, bedrock, console, conns, impatient, elapsed, starts>>

\* load_or_create: a file that cannot be read or parsed, or not be opened for writing, ends
\* the process; it is written when exists() says no, which it also does on an error.
LoadConfig ==
    /\ \/ Goto("config", "new") /\ config = "good" /\ UNCHANGED config
       \/ Goto("config", "failed") /\ UNCHANGED config
       \/ Goto("config", "creating") /\ config' = "torn"
    /\ UNCHANGED <<others, keyVars>>

\* The file is filled, or cannot be.
ConfigWritten ==
    /\ \/ Goto("creating", "new") /\ config' = "good"
       \/ Goto("creating", "failed") /\ UNCHANGED config
    /\ UNCHANGED <<others, keyVars>>

\* ProxyServer::new; the signal task is spawned after it.
New ==
    /\ Goto("new", "binding") \/ Goto("new", "failed")
    /\ UNCHANGED <<others, files>>

\* create_tcp_listener; start_telemetry is called with a receiver made before it begins.
Bind ==
    /\ \/ Goto("binding", "telemetry") /\ Resubscribe("telemetry")
       \/ Goto("binding", "failed") /\ UNCHANGED late
    /\ UNCHANGED <<signal, telemetry, bedrock, console, conns, impatient, elapsed, starts, files>>

-----------------------------------------------------------------------------
(* run(): tasks are spawned, plugins loaded, connections accepted.          *)

\* start_telemetry runs to its end within the task of run().
ResolveKey ==
    /\ main = "telemetry" /\ Telemetry /\ Resolve
    /\ UNCHANGED <<process, config, starts>>

\* With its key the task is spawned; without it, when telemetry is off or the HTTP
\* client cannot be built.
SpawnTelemetry ==
    /\ Goto("telemetry", "bedrock")
    /\ \/ Telemetry /\ Serve /\ telemetry' = "idle"
       \/ io = "load" /\ at = 1 /\ UNCHANGED keyVars /\ telemetry' = "off"
    /\ UNCHANGED <<signal, late, bedrock, console, conns, impatient, elapsed, config, starts>>

SpawnBedrock ==
    /\ Goto("bedrock", "console")
    /\ \/ Resubscribe("bedrock") /\ bedrock' = "binding"
       \/ UNCHANGED <<late, bedrock>>
    /\ UNCHANGED <<signal, telemetry, console, conns, impatient, elapsed, rest>>

SpawnConsole ==
    /\ Goto("console", "loading")
    /\ Resubscribe("console")
    /\ console' = "up"
    /\ UNCHANGED <<signal, telemetry, bedrock, conns, impatient, elapsed, rest>>

\* load_plugins returns.
Loaded ==
    /\ Goto("loading", "accepting")
    /\ UNCHANGED <<signal, late, telemetry, bedrock, console, conns, impatient, elapsed, rest>>

Accept(c) ==
    /\ main = "accepting" /\ conns[c] = "none"
    /\ conns' = [conns EXCEPT ![c] = "open"]
    /\ UNCHANGED <<main, signal, late, telemetry, bedrock, console, impatient, elapsed, rest>>

\* accept() fails and the loop sleeps for 50 ms.
AcceptFails ==
    /\ Goto("accepting", "sleeping")
    /\ UNCHANGED <<signal, late, telemetry, bedrock, console, conns, impatient, elapsed, rest>>

SleepEnds ==
    /\ Goto("sleeping", "accepting")
    /\ UNCHANGED <<signal, late, telemetry, bedrock, console, conns, impatient, elapsed, rest>>

StopAccepting ==
    /\ Goto("accepting", "unloading") /\ Hears("main")
    /\ UNCHANGED <<signal, late, telemetry, bedrock, console, conns, impatient, elapsed, rest>>

\* unload_plugins returns.
Unloaded ==
    /\ Goto("unloading", "waiting")
    /\ UNCHANGED <<signal, late, telemetry, bedrock, console, conns, impatient, elapsed, rest>>

Elapse ==
    /\ impatient /\ main = "waiting" /\ telemetry # "off" /\ ~elapsed
    /\ elapsed' = TRUE
    /\ UNCHANGED <<main, signal, late, telemetry, bedrock, console, conns, impatient, rest>>

\* Mutant: run() waits for the telemetry task without a timeout.
ExitAfterTelemetry ==
    /\ Goto("waiting", "exited") /\ telemetry \in {"off", "done"}
    /\ UNCHANGED <<signal, late, telemetry, bedrock, console, conns, impatient, elapsed, rest>>

\* run() has waited for the telemetry task, or for the timeout; main() calls exit(0).
Exit ==
    /\ Goto("waiting", "exited") /\ (telemetry \in {"off", "done"} \/ elapsed)
    /\ UNCHANGED <<signal, late, telemetry, bedrock, console, conns, impatient, elapsed, rest>>

-----------------------------------------------------------------------------
(* The other tasks, which exit(0) ends wherever they are.                   *)

\* The tick of the interval; the heartbeat is sent inside the arm of the select.
Tick ==
    /\ Alive /\ telemetry = "idle"
    /\ telemetry' = "beating"
    /\ UNCHANGED <<main, signal, late, bedrock, console, conns, impatient, elapsed, rest>>

HeartbeatReturns ==
    /\ Alive /\ telemetry = "beating"
    /\ telemetry' = "idle"
    /\ UNCHANGED <<main, signal, late, bedrock, console, conns, impatient, elapsed, rest>>

TelemetryHears ==
    /\ Alive /\ telemetry = "idle" /\ Hears("telemetry")
    /\ telemetry' = "notifying"
    /\ UNCHANGED <<main, signal, late, bedrock, console, conns, impatient, elapsed, rest>>

NoticeReturns ==
    /\ Alive /\ telemetry = "notifying"
    /\ telemetry' = "done"
    /\ UNCHANGED <<main, signal, late, bedrock, console, conns, impatient, elapsed, rest>>

\* The listener binds its socket, or its task ends with an error.
BedrockBinds ==
    /\ Alive /\ bedrock = "binding"
    /\ bedrock' \in {"up", "stopped"}
    /\ UNCHANGED <<main, signal, late, telemetry, console, conns, impatient, elapsed, rest>>

BedrockStops ==
    /\ Alive /\ bedrock = "up" /\ Hears("bedrock")
    /\ bedrock' = "stopped"
    /\ UNCHANGED <<main, signal, late, telemetry, console, conns, impatient, elapsed, rest>>

\* A command of the console holds its task until it has run.
ConsoleCommand ==
    /\ Alive /\ console \in {"up", "running"}
    /\ console' = IF console = "up" THEN "running" ELSE "up"
    /\ UNCHANGED <<main, signal, late, telemetry, bedrock, conns, impatient, elapsed, rest>>

\* End of input, or the signal.
ConsoleStops ==
    /\ Alive /\ console = "up"
    /\ console' = "stopped"
    /\ UNCHANGED <<main, signal, late, telemetry, bedrock, conns, impatient, elapsed, rest>>

\* A connection's task has no receiver: it ends with its client or its backend.
ConnectionCloses(c) ==
    /\ Alive /\ conns[c] = "open"
    /\ conns' = [conns EXCEPT ![c] = "closed"]
    /\ UNCHANGED <<main, signal, late, telemetry, bedrock, console, impatient, elapsed, rest>>

-----------------------------------------------------------------------------
(* The process as a whole.                                                  *)

\* Nothing is left of the process but its files.
Reset ==
    /\ signal' = "armed" /\ late' = {}
    /\ telemetry' = "off" /\ bedrock' = "off" /\ console' = "off" /\ conns' = NoConns
    /\ elapsed' = FALSE
    /\ Forget
    /\ UNCHANGED <<config>>

\* A crash, or a signal other than Ctrl+C, at any moment.
Killed ==
    /\ Running
    /\ main' = "killed"
    /\ Reset
    /\ UNCHANGED <<impatient, starts>>

\* Whoever runs the proxy starts it again.
Restart ==
    /\ ~Running /\ starts < MaxStarts
    /\ main' = "config" /\ starts' = starts + 1
    /\ impatient' \in BOOLEAN
    /\ Reset

-----------------------------------------------------------------------------
\* What run() does without waiting for a plugin.
Run ==
    \/ LoadConfig \/ ConfigWritten \/ New \/ Bind \/ ResolveKey
    \/ SpawnTelemetry \/ SpawnBedrock \/ SpawnConsole \/ SleepEnds
    \/ StopAccepting \/ Exit

Next ==
    \/ Killed \/ Restart
    \/ CtrlC \/ SignalTaskEnds
    \/ Run \/ Loaded \/ Unloaded \/ AcceptFails \/ Elapse \/ (\E c \in Conns : Accept(c))
    \/ Tick \/ HeartbeatReturns \/ TelemetryHears \/ NoticeReturns
    \/ BedrockBinds \/ BedrockStops \/ ConsoleCommand \/ ConsoleStops
    \/ \E c \in Conns : ConnectionCloses(c)

Spec == Init /\ [][Next]_vars

\* run() goes on and its select looks at the receiver again and again although accept()
\* may be ready or fail each time; a task that has sent the signal ends; a timeout that
\* can elapse does.  Nothing is assumed of clients, plugins, the console or of who presses
\* Ctrl+C.
FairSpec ==
    /\ Spec
    /\ WF_vars(Run) /\ SF_vars(StopAccepting)
    /\ WF_vars(signal = "sent" /\ SignalTaskEnds) /\ WF_vars(Elapse)
    /\ SF_vars(TelemetryHears)

-----------------------------------------------------------------------------
(* Properties.                                                              *)

Gone == main \in {"exited", "failed", "killed"}

\* on_load and on_unload of every plugin return.
PluginsReturn == WF_vars(Loaded) /\ WF_vars(Unloaded)

\* After Ctrl+C the process ends, also when it was pressed before the tasks were
\* spawned, while the identity key is looked for, when players stay connected, and when
\* the telemetry backend hangs; only a plugin that does not return can hold it up.
ShutdownCompletes == PluginsReturn => (signal = "sent" /\ impatient ~> Gone)

\* The telemetry backend answers, or the 10 s limit of the client ends the call.
HttpAnswers == WF_vars(HeartbeatReturns) /\ WF_vars(NoticeReturns)

\* If the timeout is long enough, Ctrl+C at any moment leads to a shutdown notice before
\* the process exits, even when the telemetry task has resubscribed too late to receive
\* the signal itself, unless the process has no such task, fails or is killed.  No other
\* signal is handled: "server termination / SIGTERM" (telemetry.rs) is a step of Killed.
NoticeFollows ==
    Telemetry /\ HttpAnswers =>
        (signal = "sent" /\ ~impatient ~>
            \/ telemetry = "done"
            \/ telemetry = "off" /\ main \notin {"binding", "telemetry"})
=============================================================================
