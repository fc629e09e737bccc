---------------------------- MODULE PlatformLayer ---------------------------
(***************************************************************************)
(* What the bridge's operations stand on.  Pipes: the bytes of a           *)
(* connection (PipeFraming), the life of the Gateway's connections         *)
(* (WorkerWatcher), the client that opens a handle per exchange            *)
(* (PipeClient).  Processes: the service host and its Python child         *)
(* (ServiceHost), the Worker's watchdog with its generations               *)
(* (WorkerLaunch), the processes and shells the Worker starts              *)
(* (ManagedProcesses).  They share no variable, so part chooses which one  *)
(* a behaviour is about and the others rest in one of their initial        *)
(* states: the state space is the sum of theirs, not their product.        *)
(***************************************************************************)
EXTENDS PipeFraming, WorkerWatcher, PipeClient,
        ServiceHost, WorkerLaunch, ManagedProcesses

VARIABLE part

pipeVars == <<framingVars, watcherVars, clientVars>>
hostingVars == <<serviceVars, launchVars, processVars>>
vars == <<pipeVars, hostingVars, part>>

Resting ==
    /\ IF part = "service" THEN TRUE ELSE profile = "gateway"
    /\ IF part = "launch" THEN TRUE
       ELSE /\ bound = TRUE /\ session = "active"
            /\ files = [f \in Files |-> AsInstalled]
    /\ IF part = "manager" THEN TRUE ELSE managed = [r \in Starts |-> TRUE]

Init ==
    /\ part \in {"framing", "watcher", "client", "service", "launch", "manager",
                 "shell"}
    /\ Resting
    /\ FramingInit /\ WatcherInit /\ ClientInit
    /\ ServiceInit /\ WorkerLaunchInit /\ ProcessInit

Framing == FramingNext /\ UNCHANGED <<watcherVars, clientVars, hostingVars>>
Client  == ClientNext  /\ UNCHANGED <<framingVars, watcherVars, hostingVars>>
Launch  == WorkerLaunchNext /\ UNCHANGED <<pipeVars, serviceVars, processVars>>
Manager == ManagerNext /\ UNCHANGED <<pipeVars, serviceVars, launchVars>>
Shell   == ShellNext   /\ UNCHANGED <<pipeVars, serviceVars, launchVars>>

RestOfWatcher == UNCHANGED <<framingVars, clientVars, hostingVars, part>>
RestOfService == UNCHANGED <<pipeVars, launchVars, processVars, part>>

Next ==
    \/ part = "watcher" /\ WatcherNext /\ RestOfWatcher
    \/ part = "service" /\ ServiceNext /\ RestOfService
    \/ /\ UNCHANGED part
       /\ \/ part = "framing" /\ Framing
          \/ part = "client"  /\ Client
          \/ part = "launch"  /\ Launch
          \/ part = "manager" /\ Manager
          \/ part = "shell"   /\ Shell

(* The watcher's thread and a thread in disconnect() keep running, and so  *)
(* does ServiceMain: every wait of theirs is bounded (connect, handshake,  *)
(* read and start time-outs, the retry delay, the grace period).           *)
Fairness ==
    /\ WF_vars(part = "watcher" /\ WatcherStep /\ RestOfWatcher)
    /\ WF_vars(part = "watcher" /\ KillerStep /\ RestOfWatcher)
    /\ WF_vars(part = "service" /\ HostStep /\ RestOfService)

Spec == Init /\ [][Next]_vars /\ Fairness

TypeOK ==
    /\ FramingTypeOK /\ WatcherTypeOK /\ ClientTypeOK
    /\ ServiceTypeOK /\ WorkerLaunchTypeOK /\ ProcessTypeOK
-----------------------------------------------------------------------------
(* Every pipe handle is somebody's to close, is closed once, and is not    *)
(* used after that: by the watcher while threads disconnect and writes     *)
(* fail (_serve_connection, disconnect), by the status probe               *)
(* (pipe_acl_state), and by a client that is cancelled (_release, cancel). *)
HandlesAccounted == NoOrphan /\ ProbeOnOpenHandle /\ ClosedOnce

(* What the SCM is told is true of the child: running after its listener   *)
(* was up, stopped when no process of it is left (ServiceMain, StopAsync,  *)
(* _ServiceChildLifecycle).                                                *)
ServiceStatus == RunningMeansReady /\ StoppedMeansGone

(* No process tree is left behind by a start that failed, a close that     *)
(* overlaps a start, a shell that timed out, or a crash                    *)
(* (ProcessManager, ShellWorker.run, the Job Object).                      *)
NoTreeLeft == ManagedTreesDie /\ ShellLeavesNoTree
=============================================================================
