--------------------------- MODULE DaemonLifecycle ---------------------------
(***************************************************************************)
(* The lifecycle of decentd (programs/decentd/main.cpp): main_internal     *)
(* brings the node up step by step, makes exit_promise and waits on it,    *)
(* then shuts down; a stop request from outside reaches exit_promise       *)
(* through the platform's handler:                                        *)
(*   - "unix": fc::set_signal_handler for SIGINT, SIGTERM and SIGHUP,      *)
(*     installed after startup; before that the default action ends the   *)
(*     process;                                                            *)
(*   - "console": Windows, HandlerRoutine installed by main before         *)
(*     main_internal runs;                                                 *)
(*   - "service": Windows service, SvcCtrlHandler, which the service       *)
(*     control manager calls only for the controls ReportSvcStatus says    *)
(*     are accepted (none while START_PENDING).                            *)
(* Option parsing, paths, the config and logging files are one step that  *)
(* may return early.  application, its plugins and fc::promise are not in *)
(* the repository: a node step either completes or throws, and a second  *)
(* set_value on a set promise is taken to have no effect.                  *)
(***************************************************************************)
EXTENDS Naturals

CONSTANTS
    Platforms,   \* a subset of {"unix", "console", "service"}
    MaxStops     \* bound on the stop requests delivered

VARIABLES
    platform,
    pc,          \* main_internal's position
    promise,     \* exit_promise: "null", "unset" or "set"
    handlers,    \* the unix signal handlers are installed
    monitoring,  \* the monitoring thread runs
    plugins,     \* "off", "on" (startup_plugins returned) or "shut"
    nodeShut,    \* node->shutdown() has run
    svc,         \* the service status last reported to the SCM
    stops,       \* stop requests delivered so far
    fate         \* "running", "exited", "killed" or "crashed"

vars == <<platform, pc, promise, handlers, monitoring, plugins, nodeShut, svc, stops, fate>>

\* The node steps that may throw into main_internal's catch blocks.
NodeSteps == <<"init", "init_plugins", "startup", "startup_plugins">>

NextPc == [init |-> "init_plugins", init_plugins |-> "startup",
           startup |-> "startup_plugins", startup_plugins |-> "promise"]

TypeOK ==
    /\ platform \in Platforms
    /\ pc \in {"options", "monitor", "promise", "handlers", "wait", "shutdown_plugins",
               "stop_monitor", "shutdown", "report", "catch", "done"} \cup
              {NodeSteps[i] : i \in 1..4}
    /\ promise \in {"null", "unset", "set"}
    /\ plugins \in {"off", "on", "shut"}
    /\ svc \in {"none", "START_PENDING", "RUNNING", "STOP_PENDING", "STOPPED"}
    /\ stops \in 0..MaxStops
    /\ fate \in {"running", "exited", "killed", "crashed"}

\* main (and service_main, which reports START_PENDING first).
Init ==
    /\ platform \in Platforms
    /\ pc = "options"
    /\ promise = "null"
    /\ handlers = FALSE
    /\ monitoring = FALSE
    /\ plugins = "off"
    /\ nodeShut = FALSE
    /\ svc = IF platform = "service" THEN "START_PENDING" ELSE "none"
    /\ stops = 0
    /\ fate = "running"

Goto(p) == pc' = p

(***************************************************************************)
(* main_internal, one step at a time.                                      *)
(***************************************************************************)

\* Options, --daemon's fork, data paths, the config and logging files:
\* a checked failure (and the forking parent) returns at once; an
\* exception once the application object exists goes to the catch blocks.
Options ==
    /\ pc = "options"
    /\ \/ Goto("monitor") /\ UNCHANGED fate
       \/ Goto("done") /\ fate' = "exited"
       \/ Goto("catch") /\ UNCHANGED fate
    /\ UNCHANGED <<platform, promise, handlers, monitoring, plugins, nodeShut, svc, stops>>

\* start_monitoring_thread.
StartMonitoring ==
    /\ pc = "monitor"
    /\ monitoring' = TRUE /\ Goto("init")
    /\ UNCHANGED <<platform, promise, handlers, plugins, nodeShut, svc, stops, fate>>

\* node->initialize, initialize_plugins, startup, startup_plugins.
NodeStep ==
    /\ pc \in {NodeSteps[i] : i \in 1..4}
    /\ \/ /\ Goto(NextPc[pc])
          /\ plugins' = IF pc = "startup_plugins" THEN "on" ELSE plugins
       \/ Goto("catch") /\ UNCHANGED plugins
    /\ UNCHANGED <<platform, promise, handlers, monitoring, nodeShut, svc, stops, fate>>

\* exit_promise = new fc::promise; a service reports SERVICE_RUNNING.
MakePromise ==
    /\ pc = "promise"
    /\ promise' = "unset"
    /\ svc' = IF platform = "service" THEN "RUNNING" ELSE svc
    /\ Goto(IF platform = "unix" THEN "handlers" ELSE "wait")
    /\ UNCHANGED <<platform, handlers, monitoring, plugins, nodeShut, stops, fate>>

\* The three fc::set_signal_handler calls.
InstallHandlers ==
    /\ pc = "handlers"
    /\ handlers' = TRUE /\ Goto("wait")
    /\ UNCHANGED <<platform, promise, monitoring, plugins, nodeShut, svc, stops, fate>>

\* exit_promise->wait() returns once the promise is set.
Wait ==
    /\ pc = "wait" /\ promise = "set"
    /\ Goto("shutdown_plugins")
    /\ UNCHANGED <<platform, promise, handlers, monitoring, plugins, nodeShut, svc, stops, fate>>

\* shutdown_plugins, stop_monitoring_thread, shutdown and delete, and a
\* service's SERVICE_STOPPED report, in this order.
ShutdownPlugins ==
    /\ pc = "shutdown_plugins"
    /\ plugins' = "shut" /\ Goto("stop_monitor")
    /\ UNCHANGED <<platform, promise, handlers, monitoring, nodeShut, svc, stops, fate>>

StopMonitoring ==
    /\ pc = "stop_monitor"
    /\ monitoring' = FALSE /\ Goto("shutdown")
    /\ UNCHANGED <<platform, promise, handlers, plugins, nodeShut, svc, stops, fate>>

ShutdownNode ==
    /\ pc = "shutdown"
    /\ nodeShut' = TRUE /\ Goto("report")
    /\ UNCHANGED <<platform, promise, handlers, monitoring, plugins, svc, stops, fate>>

Return ==
    /\ pc = "report"
    /\ svc' = IF platform = "service" THEN "STOPPED" ELSE svc
    /\ Goto("done") /\ fate' = "exited"
    /\ UNCHANGED <<platform, promise, handlers, monitoring, plugins, nodeShut, stops>>

\* The catch blocks keep the exception; then stop_monitoring_thread,
\* node->shutdown and delete, and EXIT_FAILURE.
Catch ==
    /\ pc = "catch"
    /\ monitoring' = FALSE /\ nodeShut' = TRUE
    /\ Goto("done") /\ fate' = "exited"
    /\ UNCHANGED <<platform, promise, handlers, plugins, svc, stops>>

(***************************************************************************)
(* Stop requests from outside, on any thread, at any time.                 *)
(***************************************************************************)

\* exit_promise->set_value(...).
SetValue == promise' = IF promise = "unset" THEN "set" ELSE promise

\* SIGINT, SIGTERM or SIGHUP: the fc handler sets the promise, or, before
\* it is installed, the default action ends the process.
Signal ==
    /\ platform = "unix"
    /\ IF handlers THEN SetValue /\ UNCHANGED fate ELSE fate' = "killed" /\ UNCHANGED promise

\* HandlerRoutine for Ctrl+C, Ctrl+Break, close, logoff and shutdown:
\* exit_promise->set_value on the static pointer, null until main_internal
\* makes the promise.
ConsoleEvent ==
    /\ platform = "console"
    /\ IF promise = "null" THEN fate' = "crashed" /\ UNCHANGED promise
                           ELSE SetValue /\ UNCHANGED fate

\* SvcCtrlHandler for SERVICE_CONTROL_STOP or PRESHUTDOWN, delivered only
\* while the last report accepts them: SERVICE_STOP_PENDING, then
\* StopWinService's set_value.
ServiceStop ==
    /\ platform = "service"
    /\ svc = "RUNNING"
    /\ svc' = "STOP_PENDING"
    /\ SetValue /\ UNCHANGED fate

StopRequest ==
    /\ fate = "running" /\ pc # "done"
    /\ stops < MaxStops
    /\ stops' = stops + 1
    /\ \/ Signal /\ UNCHANGED svc
       \/ ConsoleEvent /\ UNCHANGED svc
       \/ ServiceStop
    /\ UNCHANGED <<platform, pc, handlers, monitoring, plugins, nodeShut>>

MainStep ==
    /\ fate = "running"
    /\ \/ Options \/ StartMonitoring \/ NodeStep \/ MakePromise \/ InstallHandlers
       \/ Wait \/ ShutdownPlugins \/ StopMonitoring \/ ShutdownNode \/ Return
       \/ Catch

Next == MainStep \/ StopRequest

\* The main thread runs whenever it is not blocked; stop requests come
\* when they come.
Spec == Init /\ [][Next]_vars /\ WF_vars(MainStep)

(***************************************************************************)
(* Properties                                                              *)
(***************************************************************************)

\* No stop request, at any point of startup, makes a handler use exit_promise
\* before main_internal has made it.
NoNullPromiseUse == fate # "crashed"

\* Every way main_internal returns once the monitoring thread was started
\* (the wait's return, or an exception from a node step) stops that thread
\* first.
CleanExit == fate = "exited" => ~monitoring

\* A stop request that reached exit_promise ends the process.
StopRequestHonoured == (promise = "set") ~> (fate # "running")

=============================================================================
