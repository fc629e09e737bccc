---------------------------- MODULE ServiceHost ----------------------------
(***************************************************************************)
(* A Windows service of the bridge: the .NET host that talks to the SCM    *)
(* (ScmServiceHost, ChildProcess, ChildLifecycle) and the Python child it  *)
(* starts (service_child), which runs the Gateway or the helper.  They     *)
(* share three anonymous pipes: STOP and end-of-file on stdin, one READY   *)
(* line on stdout, the operating log on stderr.                            *)
(***************************************************************************)
EXTENDS Naturals

CONSTANTS
    DrainLimit,  \* lines of stderr the host reads (16 KiB)
    PipeBuffer   \* lines an anonymous pipe holds unread

ASSUME HostAssumption ==
    DrainLimit \in Nat \ {0} /\ PipeBuffer \in Nat \ {0}

VARIABLES
    control,    \* _stopRequested: a stop or shutdown control has come
    scm,        \* last status reported to the SCM
    code,       \* exit code reported with it
    host,       \* where ServiceMain is
    failure,    \* StopAsync has caught an exception
    profile,    \* which runtime the child hosts
    child,      \* the Python process: its main task
    runtime,    \* run_gateway_server, or run_pipe_loop
    up,         \* the listener, or the verified pipe, exists
    threadStop, \* _thread_stop (and with it _async_stop)
    parentStop, \* _parent_stop_requested
    announced,  \* _ready_announced
    stdin,      \* what the host has put on the child's stdin
    readyLines, \* READY lines on stdout
    logging,    \* the event loop is in a write to stderr
    stderr,     \* lines in the stderr pipe
    drained     \* lines the host's DrainAsync has read

hostVars == <<control, scm, code, host, failure>>
childVars == <<profile, child, runtime, up, threadStop, parentStop, announced,
               stdin, readyLines, logging, stderr, drained>>
serviceVars == <<hostVars, childVars>>

ServiceTypeOK ==
    /\ control \in BOOLEAN /\ failure \in BOOLEAN
    /\ scm \in {"start_pending", "running", "stop_pending", "stopped", "crashed"}
    /\ code \in {0, 1001, 1002, 1003, 1004, 1005, 1006, 1007}
    /\ host \in {"verifying", "awaiting", "started", "running", "stopping",
                 "sent", "waiting", "ended"}
    /\ profile \in {"gateway", "privileged"}
    /\ child \in {"none", "boot", "watch", "running", "exited", "killed"}
    /\ runtime \in {"none", "starting", "listening", "announcing", "serving",
                    "closing", "finished"}
    /\ up \in BOOLEAN /\ threadStop \in BOOLEAN /\ parentStop \in BOOLEAN
    /\ announced \in BOOLEAN /\ logging \in BOOLEAN
    /\ stdin \in {"open", "stop", "eof"}
    /\ readyLines \in 0..2
    /\ stderr \in 0..PipeBuffer /\ drained \in 0..DrainLimit

ServiceInit ==
    /\ control = FALSE /\ scm = "start_pending" /\ code = 0
    /\ host = "verifying" /\ failure = FALSE
    /\ profile \in {"gateway", "privileged"}
    /\ child = "none" /\ runtime = "none" /\ up = FALSE
    /\ threadStop = FALSE /\ parentStop = FALSE /\ announced = FALSE
    /\ stdin = "open" /\ readyLines = 0
    /\ logging = FALSE /\ stderr = 0 /\ drained = 0

Alive == child \in {"boot", "watch", "running"}

(* TerminateJobObject, or the last handle of a kill-on-close Job Object.   *)
Killed == child' = IF Alive THEN "killed" ELSE child

ReportStopped(exit) ==
    /\ scm' = "stopped" /\ code' = exit
    /\ host' = "ended"

KeepChild ==
    UNCHANGED <<profile, runtime, up, threadStop, parentStop, announced,
                stdin, readyLines, logging, stderr, drained>>
-----------------------------------------------------------------------------
(* HandleControl.                                                          *)
StopControl ==
    /\ host # "ended" /\ ~control
    /\ control' = TRUE
    /\ UNCHANGED <<scm, code, host, failure, childVars>>

(* StartAsync: manifest, configuration, binding and release are verified,  *)
(* then the process is created suspended, put into its job and resumed.    *)
(* Any failure terminates what exists.                                     *)
Verify ==
    /\ host = "verifying"
    /\ \/ /\ child' = "boot" /\ host' = "awaiting"
          /\ UNCHANGED <<scm, code>>
       \/ /\ \E exit \in {1001, 1002, 1005} : ReportStopped(exit)
          /\ UNCHANGED child
    /\ UNCHANGED <<control, failure>> /\ KeepChild

(* The loop around startup sees the stop first: the start is cancelled and *)
(* the child killed.                                                       *)
CancelStart ==
    /\ control
    /\ host \in {"verifying", "awaiting"}
    /\ Killed
    /\ ReportStopped(0)
    /\ UNCHANGED <<control, failure>> /\ KeepChild

(* ReadReadyAsync and RequireExact: one READY line and 50 ms of silence.   *)
ReadReady ==
    /\ host = "awaiting"
    /\ readyLines > 0
    /\ \/ /\ readyLines = 1
          /\ host' = "started"
          /\ UNCHANGED <<child, scm, code>>
       \/ /\ readyLines > 1
          /\ Killed
          /\ ReportStopped(1003)
    /\ UNCHANGED <<control, failure>> /\ KeepChild

(* No READY within 60 s, or the end of stdout before it.                   *)
ReadyFails ==
    /\ host = "awaiting"
    /\ readyLines = 0
    /\ Killed
    /\ ReportStopped(1004)
    /\ UNCHANGED <<control, failure>> /\ KeepChild

Started ==
    /\ host = "started"
    /\ scm' = IF control THEN "stop_pending" ELSE "running"
    /\ host' = IF control THEN "stopping" ELSE "running"
    /\ UNCHANGED <<control, code, failure, childVars>>

(* The 250 ms poll while the service runs.                                 *)
SeeStop ==
    /\ host = "running" /\ control
    /\ scm' = "stop_pending" /\ host' = "stopping"
    /\ UNCHANGED <<control, code, failure, childVars>>

SeeViolation ==
    /\ host = "running" /\ ~control
    /\ readyLines > 1
    /\ Killed
    /\ ReportStopped(1003)
    /\ UNCHANGED <<control, failure>> /\ KeepChild

(* An exit nobody asked for ends the host without a report, so that the    *)
(* SCM's failure actions run.                                              *)
SeeExit ==
    /\ host = "running" /\ ~control
    /\ ~Alive
    /\ scm' = "crashed" /\ code' = 1006 /\ host' = "ended"
    /\ UNCHANGED <<control, failure, childVars>>

(* ChildLifecycle.StopAsync: STOP, ...                                     *)
SendStop ==
    /\ host = "stopping"
    /\ failure' = ~Alive                \* a broken pipe
    /\ stdin' = IF Alive THEN "stop" ELSE stdin
    /\ host' = "sent"
    /\ UNCHANGED <<control, scm, code, profile, child, runtime, up, threadStop,
                   parentStop, announced, readyLines, logging, stderr, drained>>

(* ... end of file, ...                                                    *)
CloseStdin ==
    /\ host = "sent"
    /\ stdin' = "eof"
    /\ host' = "waiting"
    /\ UNCHANGED <<control, scm, code, failure, profile, child, runtime, up,
                   threadStop, parentStop, announced, readyLines, logging,
                   stderr, drained>>

(* ... and 15 s of grace.  WaitForExitAsync also awaits DrainAsync, which  *)
(* may have given up, and the watch on stdout.                             *)
DrainFailed == drained = DrainLimit
Drained == stderr = 0 \/ DrainFailed
CleanExit == ~failure /\ ~DrainFailed /\ readyLines <= 1

(* Mutant: a child that did not exit in time counts as stopped.            *)
ExitedAnyway ==
    /\ host = "waiting"
    /\ ReportStopped(IF CleanExit THEN 0 ELSE 1001)
    /\ UNCHANGED <<control, failure, childVars>>

Exited ==
    /\ host = "waiting"
    /\ ~Alive /\ Drained
    /\ ReportStopped(IF CleanExit THEN 0 ELSE 1001)
    /\ UNCHANGED <<control, failure, childVars>>

(* Mutant: the job is killed only when STOP could not be sent.             *)
GraceOnFailure ==
    /\ host = "waiting"
    /\ failure /\ (Alive \/ ~Drained)
    /\ Killed
    /\ ReportStopped(1001)
    /\ UNCHANGED <<control, failure>> /\ KeepChild

GraceOver ==
    /\ host = "waiting"
    /\ Alive \/ ~Drained
    /\ Killed
    /\ ReportStopped(IF failure THEN 1001 ELSE 1007)
    /\ UNCHANGED <<control, failure>> /\ KeepChild

(* DrainAsync: it throws once it has read its limit.                       *)
Drain ==
    /\ stderr > 0 /\ drained < DrainLimit
    /\ stderr' = stderr - 1
    /\ drained' = drained + 1
    /\ UNCHANGED <<hostVars, profile, child, runtime, up, threadStop, parentStop,
                   announced, stdin, readyLines, logging>>

HostStep ==
    \/ Verify \/ CancelStart \/ ReadReady \/ ReadyFails \/ Started
    \/ SeeStop \/ SeeViolation \/ SeeExit
    \/ SendStop \/ CloseStdin \/ Exited \/ GraceOver
-----------------------------------------------------------------------------
(* The child.  A step of its event loop waits while a log line is written. *)
LoopFree == Alive /\ ~logging

(* main: bad arguments or a binding that does not verify end it.           *)
Boot ==
    /\ child = "boot"
    /\ child' \in {"watch", "exited"}
    /\ UNCHANGED hostVars /\ KeepChild

(* run: unless STOP was quicker, the runtime's task is started; a helper   *)
(* runtime that cannot be built ends the child.                            *)
StartRuntime ==
    /\ child = "watch" /\ LoopFree
    /\ \/ /\ child' = "running"
          /\ runtime' = IF threadStop THEN "none" ELSE "starting"
       \/ /\ profile = "privileged" /\ ~threadStop
          /\ child' = "exited"
          /\ UNCHANGED runtime
    /\ UNCHANGED <<hostVars, profile, up, threadStop, parentStop, announced,
                   stdin, readyLines, logging, stderr, drained>>

(* _watch_parent_stop: STOP or the end of stdin.                           *)
WatchStdin ==
    /\ child \in {"watch", "running"} /\ LoopFree
    /\ stdin # "open" /\ ~parentStop
    /\ parentStop' = TRUE /\ threadStop' = TRUE
    /\ UNCHANGED <<hostVars, profile, child, runtime, up, announced, stdin,
                   readyLines, logging, stderr, drained>>

(* run_gateway_server has its settings and both watchers, and uvicorn's    *)
(* listener is up.                                                         *)
ListenHttp ==
    /\ LoopFree /\ runtime = "starting"
    /\ profile = "gateway"
    /\ up' = TRUE
    /\ runtime' = "listening"
    /\ UNCHANGED <<hostVars, profile, child, threadStop, parentStop, announced,
                   stdin, readyLines, logging, stderr, drained>>

(* run_pipe_loop has made a pipe and verified its DACL.                    *)
CreatePipe ==
    /\ LoopFree /\ runtime = "starting"
    /\ profile = "privileged" /\ ~threadStop
    /\ up' = TRUE
    /\ runtime' = "listening"
    /\ UNCHANGED <<hostVars, profile, child, threadStop, parentStop, announced,
                   stdin, readyLines, logging, stderr, drained>>

(* _announce_ready looks at its flag and at _thread_stop, and then writes, *)
(* both under the lock; the stop may come in between.                      *)
Announce ==
    /\ LoopFree /\ runtime = "listening"
    /\ runtime' = IF announced \/ threadStop THEN "serving" ELSE "announcing"
    /\ UNCHANGED <<hostVars, profile, child, up, threadStop, parentStop,
                   announced, stdin, readyLines, logging, stderr, drained>>

WriteReady ==
    /\ LoopFree /\ runtime = "announcing"
    /\ readyLines' = IF readyLines < 2 THEN readyLines + 1 ELSE 2
    /\ announced' = TRUE
    /\ runtime' = "serving"
    /\ UNCHANGED <<hostVars, profile, child, up, threadStop, parentStop, stdin,
                   logging, stderr, drained>>

(* The helper's loop goes on with a new pipe instance.                     *)
NextPipe ==
    /\ LoopFree /\ runtime = "serving"
    /\ profile = "privileged"
    /\ up' = FALSE
    /\ runtime' = "starting"
    /\ UNCHANGED <<hostVars, profile, child, threadStop, parentStop, announced,
                   stdin, readyLines, logging, stderr, drained>>

(* The stop is seen: should_exit for uvicorn; for the helper the check at  *)
(* the top of its loop, or its cancelled I/O.                              *)
StopSeen ==
    /\ LoopFree /\ threadStop
    /\ runtime = "serving" \/ (profile = "privileged" /\ runtime = "starting")
    /\ runtime' = "closing"
    /\ UNCHANGED <<hostVars, profile, child, up, threadStop, parentStop,
                   announced, stdin, readyLines, logging, stderr, drained>>

(* Settings, token, port or pipe are refused, or serving raises.           *)
RuntimeFails ==
    /\ LoopFree /\ runtime \in {"starting", "serving"}
    /\ runtime' = "closing"
    /\ UNCHANGED <<hostVars, profile, child, up, threadStop, parentStop,
                   announced, stdin, readyLines, logging, stderr, drained>>

(* Connections, watcher threads and the pipe are gone: _runtime_finished.  *)
RuntimeFinished ==
    /\ LoopFree /\ runtime = "closing"
    /\ runtime' = "finished"
    /\ up' = FALSE
    /\ threadStop' = TRUE
    /\ UNCHANGED <<hostVars, profile, child, parentStop, announced, stdin,
                   readyLines, logging, stderr, drained>>

(* run() returns when it is stopped and its runtime, if any, has finished. *)
ChildExits ==
    /\ LoopFree /\ child = "running"
    /\ threadStop
    /\ runtime \in {"none", "finished"}
    /\ child' = "exited"
    /\ UNCHANGED hostVars /\ KeepChild

(* The access log: a line for every request uvicorn serves.                *)
ServeRequest ==
    /\ LoopFree /\ runtime = "serving"
    /\ profile = "gateway"
    /\ logging' = TRUE
    /\ UNCHANGED <<hostVars, profile, child, runtime, up, threadStop, parentStop,
                   announced, stdin, readyLines, stderr, drained>>

LogLine ==
    /\ Alive /\ logging
    /\ stderr < PipeBuffer
    /\ stderr' = stderr + 1
    /\ logging' = FALSE
    /\ UNCHANGED <<hostVars, profile, child, runtime, up, threadStop, parentStop,
                   announced, stdin, readyLines, drained>>

ChildStep ==
    \/ Boot \/ StartRuntime \/ WatchStdin
    \/ ListenHttp \/ CreatePipe \/ Announce \/ WriteReady \/ NextPipe
    \/ StopSeen \/ RuntimeFails \/ RuntimeFinished \/ ChildExits
    \/ ServeRequest \/ LogLine

ServiceNext == StopControl \/ HostStep \/ Drain \/ ChildStep
-----------------------------------------------------------------------------
(* The SCM is told that the service runs only after the runtime had a      *)
(* listener, and the child never breaks the READY protocol, however many   *)
(* pipes the helper makes (_announce_ready, ReadReadyAsync).               *)
RunningMeansReady ==
    /\ scm = "running" => announced
    /\ readyLines <= 1

(* Once the service counts as stopped there is no child any more, and exit *)
(* code 0 after it had been running says that the child itself has wound   *)
(* up its runtime (StopAsync, the Job Object, _runtime_finished).          *)
StoppedMeansGone ==
    scm \in {"stopped", "crashed"} =>
        /\ ~Alive
        /\ (code = 0 /\ announced /\ stdin = "eof") =>
             child = "exited" /\ runtime \in {"none", "finished"}

(* Every stop control ends with a report to the SCM, whatever the child    *)
(* does (ServiceMain, StopAsync with its grace period).                    *)
StopReported == control ~> scm \in {"stopped", "crashed"}

(* "Operating logs stay on stderr": the child can always finish writing a  *)
(* log line while the service runs (_serve's log_config, DrainAsync).      *)
LogsAreDrained ==
    scm = "running" => ~(logging /\ stderr = PipeBuffer /\ DrainFailed)
=============================================================================
