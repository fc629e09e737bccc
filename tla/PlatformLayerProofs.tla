------------------------- MODULE PlatformLayerProofs ------------------------
(***************************************************************************)
(* What the layer under the bridge's operations promises, for every number *)
(* of handles, requests, generations, processes and lines, and every size  *)
(* of buffers and budgets.                                                 *)
(***************************************************************************)
EXTENDS PlatformLayer, FiniteSetTheorems, SequenceTheorems, TLAPS

(* The parts share no variable.                                            *)
LEMMA PlatformSteps ==
  [Next]_vars => /\ [FramingNext]_framingVars /\ [WatcherNext]_watcherVars
                 /\ [ClientNext]_clientVars /\ [ServiceNext]_serviceVars
                 /\ [WorkerLaunchNext]_launchVars /\ [ManagerNext \/ ShellNext]_processVars
  BY DEF Next, vars, pipeVars, hostingVars, Framing, Client, Launch, Manager, Shell,
     RestOfWatcher, RestOfService
-----------------------------------------------------------------------------
(* READY is written once.                                                  *)
ReadyInv ==
    /\ readyLines = IF announced THEN 1 ELSE 0
    /\ runtime = "announcing" => ~announced
    /\ host = "started" \/ scm = "running" => announced

(* What the host knows of the child.                                       *)
HostInv ==
    /\ child \in {"none", "boot", "watch", "running", "exited", "killed"}
    /\ scm \in {"stopped", "crashed"} => host = "ended"
    /\ host = "verifying" => child = "none"
    /\ host \notin {"verifying", "ended"} => child \notin {"none", "killed"}
    /\ host = "ended" => ~Alive
    /\ host \in {"verifying", "awaiting", "started", "running", "stopping"} => stdin = "open"

(* What an end by itself says about the runtime.                           *)
ChildInv ==
    /\ child \in {"none", "boot", "watch"} => runtime = "none"
    /\ child = "exited" => runtime \in {"none", "finished"}
    /\ host = "ended" /\ code = 0 /\ stdin = "eof" => child = "exited"

ServiceInv == ReadyInv /\ HostInv /\ ChildInv

LEMMA InitService == ServiceInit => ServiceInv
  BY DEF ServiceInit, ServiceInv, ReadyInv, HostInv, ChildInv, Alive

LEMMA NextReady == ServiceInv /\ [ServiceNext]_serviceVars => ReadyInv'
<1> SUFFICES ASSUME ServiceInv, [ServiceNext]_serviceVars PROVE ReadyInv'
  OBVIOUS
<1>0. ReadyInv /\ HostInv /\ ChildInv
  BY DEF ServiceInv
<1>1. ASSUME StopControl PROVE ReadyInv'
  BY <1>0, <1>1 DEF StopControl, childVars, ReadyInv
<1>2. ASSUME Verify PROVE ReadyInv'
  BY <1>0, <1>2 DEF Verify, ReportStopped, KeepChild, ReadyInv
<1>3. ASSUME CancelStart PROVE ReadyInv'
  BY <1>0, <1>3 DEF CancelStart, ReportStopped, Killed, KeepChild, ReadyInv
<1>4. ASSUME ReadReady PROVE ReadyInv'
  BY <1>0, <1>4 DEF ReadReady, ReportStopped, Killed, KeepChild, ReadyInv
<1>5. ASSUME ReadyFails PROVE ReadyInv'
  BY <1>0, <1>5 DEF ReadyFails, ReportStopped, Killed, KeepChild, ReadyInv
<1>6. ASSUME Started PROVE ReadyInv'
  BY <1>0, <1>6 DEF Started, childVars, ReadyInv
<1>7. ASSUME SeeStop PROVE ReadyInv'
  BY <1>0, <1>7 DEF SeeStop, childVars, ReadyInv
<1>8. ASSUME SeeViolation PROVE ReadyInv'
  BY <1>0, <1>8 DEF SeeViolation, ReportStopped, Killed, KeepChild, ReadyInv
<1>9. ASSUME SeeExit PROVE ReadyInv'
  BY <1>0, <1>9 DEF SeeExit, childVars, ReadyInv
<1>10. ASSUME SendStop PROVE ReadyInv'
  BY <1>0, <1>10 DEF SendStop, ReadyInv
<1>11. ASSUME CloseStdin PROVE ReadyInv'
  BY <1>0, <1>11 DEF CloseStdin, ReadyInv
<1>12. ASSUME Exited PROVE ReadyInv'
  BY <1>0, <1>12 DEF Exited, ReportStopped, childVars, ReadyInv
<1>13. ASSUME GraceOver PROVE ReadyInv'
  BY <1>0, <1>13 DEF GraceOver, ReportStopped, Killed, KeepChild, ReadyInv
<1>14. ASSUME Drain PROVE ReadyInv'
  BY <1>0, <1>14 DEF Drain, hostVars, ReadyInv
<1>15. ASSUME Boot PROVE ReadyInv'
  BY <1>0, <1>15 DEF Boot, hostVars, KeepChild, ReadyInv
<1>16. ASSUME StartRuntime PROVE ReadyInv'
  BY <1>0, <1>16 DEF StartRuntime, hostVars, ReadyInv
<1>17. ASSUME WatchStdin PROVE ReadyInv'
  BY <1>0, <1>17 DEF WatchStdin, hostVars, ReadyInv
<1>18. ASSUME ListenHttp PROVE ReadyInv'
  BY <1>0, <1>18 DEF ListenHttp, hostVars, ReadyInv
<1>19. ASSUME CreatePipe PROVE ReadyInv'
  BY <1>0, <1>19 DEF CreatePipe, hostVars, ReadyInv
<1>20. ASSUME Announce PROVE ReadyInv'
  BY <1>0, <1>20 DEF Announce, hostVars, ReadyInv
<1>21. ASSUME WriteReady PROVE ReadyInv'
  BY <1>0, <1>21 DEF WriteReady, hostVars, ReadyInv
<1>22. ASSUME NextPipe PROVE ReadyInv'
  BY <1>0, <1>22 DEF NextPipe, hostVars, ReadyInv
<1>23. ASSUME StopSeen PROVE ReadyInv'
  BY <1>0, <1>23 DEF StopSeen, hostVars, ReadyInv
<1>24. ASSUME RuntimeFails PROVE ReadyInv'
  BY <1>0, <1>24 DEF RuntimeFails, hostVars, ReadyInv
<1>25. ASSUME RuntimeFinished PROVE ReadyInv'
  BY <1>0, <1>25 DEF RuntimeFinished, hostVars, ReadyInv
<1>26. ASSUME ChildExits PROVE ReadyInv'
  BY <1>0, <1>26 DEF ChildExits, hostVars, KeepChild, ReadyInv
<1>27. ASSUME ServeRequest PROVE ReadyInv'
  BY <1>0, <1>27 DEF ServeRequest, hostVars, ReadyInv
<1>28. ASSUME LogLine PROVE ReadyInv'
  BY <1>0, <1>28 DEF LogLine, hostVars, ReadyInv
<1>29. ASSUME UNCHANGED serviceVars PROVE ReadyInv'
  BY <1>0, <1>29 DEF serviceVars, hostVars, childVars, ReadyInv
<1> QED
  BY <1>1, <1>2, <1>3, <1>4, <1>5, <1>6, <1>7, <1>8, <1>9, <1>10, <1>11, <1>12, <1>13, <1>14,
     <1>15, <1>16, <1>17, <1>18, <1>19, <1>20, <1>21, <1>22, <1>23, <1>24, <1>25, <1>26, <1>27,
     <1>28, <1>29 DEF ServiceNext, HostStep, ChildStep

LEMMA NextHost == ServiceInv /\ [ServiceNext]_serviceVars => HostInv'
<1> SUFFICES ASSUME ServiceInv, [ServiceNext]_serviceVars PROVE HostInv'
  OBVIOUS
<1>0. ReadyInv /\ HostInv /\ ChildInv
  BY DEF ServiceInv
<1>1. ASSUME StopControl PROVE HostInv'
  BY <1>0, <1>1 DEF StopControl, childVars, HostInv, Alive, LoopFree
<1>2. ASSUME Verify PROVE HostInv'
  BY <1>0, <1>2 DEF Verify, ReportStopped, KeepChild, HostInv, Alive, LoopFree
<1>3. ASSUME CancelStart PROVE HostInv'
  BY <1>0, <1>3 DEF CancelStart, ReportStopped, Killed, KeepChild, HostInv, Alive, LoopFree
<1>4. ASSUME ReadReady PROVE HostInv'
  BY <1>0, <1>4 DEF ReadReady, ReportStopped, Killed, KeepChild, HostInv, Alive, LoopFree
<1>5. ASSUME ReadyFails PROVE HostInv'
  BY <1>0, <1>5 DEF ReadyFails, ReportStopped, Killed, KeepChild, HostInv, Alive, LoopFree
<1>6. ASSUME Started PROVE HostInv'
  BY <1>0, <1>6 DEF Started, childVars, HostInv, Alive, LoopFree
<1>7. ASSUME SeeStop PROVE HostInv'
  BY <1>0, <1>7 DEF SeeStop, childVars, HostInv, Alive, LoopFree
<1>8. ASSUME SeeViolation PROVE HostInv'
  BY <1>0, <1>8 DEF SeeViolation, ReportStopped, Killed, KeepChild, HostInv, Alive, LoopFree
<1>9. ASSUME SeeExit PROVE HostInv'
  BY <1>0, <1>9 DEF SeeExit, childVars, HostInv, Alive, LoopFree
<1>10. ASSUME SendStop PROVE HostInv'
  BY <1>0, <1>10 DEF SendStop, HostInv, Alive, LoopFree
<1>11. ASSUME CloseStdin PROVE HostInv'
  BY <1>0, <1>11 DEF CloseStdin, HostInv, Alive, LoopFree
<1>12. ASSUME Exited PROVE HostInv'
  BY <1>0, <1>12 DEF Exited, ReportStopped, childVars, HostInv, Alive, LoopFree
<1>13. ASSUME GraceOver PROVE HostInv'
  BY <1>0, <1>13 DEF GraceOver, ReportStopped, Killed, KeepChild, HostInv, Alive, LoopFree
<1>14. ASSUME Drain PROVE HostInv'
  BY <1>0, <1>14 DEF Drain, hostVars, HostInv, Alive, LoopFree
<1>15. ASSUME Boot PROVE HostInv'
  BY <1>0, <1>15 DEF Boot, hostVars, KeepChild, HostInv, Alive, LoopFree
<1>16. ASSUME StartRuntime PROVE HostInv'
  BY <1>0, <1>16 DEF StartRuntime, hostVars, HostInv, Alive, LoopFree
<1>17. ASSUME WatchStdin PROVE HostInv'
  BY <1>0, <1>17 DEF WatchStdin, hostVars, HostInv, Alive, LoopFree
<1>18. ASSUME ListenHttp PROVE HostInv'
  BY <1>0, <1>18 DEF ListenHttp, hostVars, HostInv, Alive, LoopFree
<1>19. ASSUME CreatePipe PROVE HostInv'
  BY <1>0, <1>19 DEF CreatePipe, hostVars, HostInv, Alive, LoopFree
<1>20. ASSUME Announce PROVE HostInv'
  BY <1>0, <1>20 DEF Announce, hostVars, HostInv, Alive, LoopFree
<1>21. ASSUME WriteReady PROVE HostInv'
  BY <1>0, <1>21 DEF WriteReady, hostVars, HostInv, Alive, LoopFree
<1>22. ASSUME NextPipe PROVE HostInv'
  BY <1>0, <1>22 DEF NextPipe, hostVars, HostInv, Alive, LoopFree
<1>23. ASSUME StopSeen PROVE HostInv'
  BY <1>0, <1>23 DEF StopSeen, hostVars, HostInv, Alive, LoopFree
<1>24. ASSUME RuntimeFails PROVE HostInv'
  BY <1>0, <1>24 DEF RuntimeFails, hostVars, HostInv, Alive, LoopFree
<1>25. ASSUME RuntimeFinished PROVE HostInv'
  BY <1>0, <1>25 DEF RuntimeFinished, hostVars, HostInv, Alive, LoopFree
<1>26. ASSUME ChildExits PROVE HostInv'
  BY <1>0, <1>26 DEF ChildExits, hostVars, KeepChild, HostInv, Alive, LoopFree
<1>27. ASSUME ServeRequest PROVE HostInv'
  BY <1>0, <1>27 DEF ServeRequest, hostVars, HostInv, Alive, LoopFree
<1>28. ASSUME LogLine PROVE HostInv'
  BY <1>0, <1>28 DEF LogLine, hostVars, HostInv, Alive, LoopFree
<1>29. ASSUME UNCHANGED serviceVars PROVE HostInv'
  BY <1>0, <1>29 DEF serviceVars, hostVars, childVars, HostInv, Alive, LoopFree
<1> QED
  BY <1>1, <1>2, <1>3, <1>4, <1>5, <1>6, <1>7, <1>8, <1>9, <1>10, <1>11, <1>12, <1>13, <1>14,
     <1>15, <1>16, <1>17, <1>18, <1>19, <1>20, <1>21, <1>22, <1>23, <1>24, <1>25, <1>26, <1>27,
     <1>28, <1>29 DEF ServiceNext, HostStep, ChildStep

LEMMA NextChild == ServiceInv /\ [ServiceNext]_serviceVars => ChildInv'
<1> SUFFICES ASSUME ServiceInv, [ServiceNext]_serviceVars PROVE ChildInv'
  OBVIOUS
<1>0. ReadyInv /\ HostInv /\ ChildInv
  BY DEF ServiceInv
<1>1. ASSUME StopControl PROVE ChildInv'
  BY <1>0, <1>1 DEF StopControl, childVars, HostInv, ChildInv, Alive, LoopFree
<1>2. ASSUME Verify PROVE ChildInv'
  BY <1>0, <1>2 DEF Verify, ReportStopped, KeepChild, HostInv, ChildInv, Alive, LoopFree
<1>3. ASSUME CancelStart PROVE ChildInv'
  BY <1>0, <1>3 DEF CancelStart, ReportStopped, Killed, KeepChild, HostInv, ChildInv, Alive,
     LoopFree
<1>4. ASSUME ReadReady PROVE ChildInv'
  BY <1>0, <1>4 DEF ReadReady, ReportStopped, Killed, KeepChild, HostInv, ChildInv, Alive,
     LoopFree
<1>5. ASSUME ReadyFails PROVE ChildInv'
  BY <1>0, <1>5 DEF ReadyFails, ReportStopped, Killed, KeepChild, HostInv, ChildInv, Alive,
     LoopFree
<1>6. ASSUME Started PROVE ChildInv'
  BY <1>0, <1>6 DEF Started, childVars, HostInv, ChildInv, Alive, LoopFree
<1>7. ASSUME SeeStop PROVE ChildInv'
  BY <1>0, <1>7 DEF SeeStop, childVars, HostInv, ChildInv, Alive, LoopFree
<1>8. ASSUME SeeViolation PROVE ChildInv'
  BY <1>0, <1>8 DEF SeeViolation, ReportStopped, Killed, KeepChild, HostInv, ChildInv, Alive,
     LoopFree
<1>9. ASSUME SeeExit PROVE ChildInv'
  BY <1>0, <1>9 DEF SeeExit, childVars, HostInv, ChildInv, Alive, LoopFree
<1>10. ASSUME SendStop PROVE ChildInv'
  BY <1>0, <1>10 DEF SendStop, HostInv, ChildInv, Alive, LoopFree
<1>11. ASSUME CloseStdin PROVE ChildInv'
  BY <1>0, <1>11 DEF CloseStdin, HostInv, ChildInv, Alive, LoopFree
<1>12. ASSUME Exited PROVE ChildInv'
  BY <1>0, <1>12 DEF Exited, ReportStopped, childVars, HostInv, ChildInv, Alive, LoopFree
<1>13. ASSUME GraceOver PROVE ChildInv'
  BY <1>0, <1>13 DEF GraceOver, ReportStopped, Killed, KeepChild, HostInv, ChildInv, Alive,
     LoopFree
<1>14. ASSUME Drain PROVE ChildInv'
  BY <1>0, <1>14 DEF Drain, hostVars, HostInv, ChildInv, Alive, LoopFree
<1>15. ASSUME Boot PROVE ChildInv'
  BY <1>0, <1>15 DEF Boot, hostVars, KeepChild, HostInv, ChildInv, Alive, LoopFree
<1>16. ASSUME StartRuntime PROVE ChildInv'
  BY <1>0, <1>16 DEF StartRuntime, hostVars, HostInv, ChildInv, Alive, LoopFree
<1>17. ASSUME WatchStdin PROVE ChildInv'
  BY <1>0, <1>17 DEF WatchStdin, hostVars, HostInv, ChildInv, Alive, LoopFree
<1>18. ASSUME ListenHttp PROVE ChildInv'
  BY <1>0, <1>18 DEF ListenHttp, hostVars, HostInv, ChildInv, Alive, LoopFree
<1>19. ASSUME CreatePipe PROVE ChildInv'
  BY <1>0, <1>19 DEF CreatePipe, hostVars, HostInv, ChildInv, Alive, LoopFree
<1>20. ASSUME Announce PROVE ChildInv'
  BY <1>0, <1>20 DEF Announce, hostVars, HostInv, ChildInv, Alive, LoopFree
<1>21. ASSUME WriteReady PROVE ChildInv'
  BY <1>0, <1>21 DEF WriteReady, hostVars, HostInv, ChildInv, Alive, LoopFree
<1>22. ASSUME NextPipe PROVE ChildInv'
  BY <1>0, <1>22 DEF NextPipe, hostVars, HostInv, ChildInv, Alive, LoopFree
<1>23. ASSUME StopSeen PROVE ChildInv'
  BY <1>0, <1>23 DEF StopSeen, hostVars, HostInv, ChildInv, Alive, LoopFree
<1>24. ASSUME RuntimeFails PROVE ChildInv'
  BY <1>0, <1>24 DEF RuntimeFails, hostVars, HostInv, ChildInv, Alive, LoopFree
<1>25. ASSUME RuntimeFinished PROVE ChildInv'
  BY <1>0, <1>25 DEF RuntimeFinished, hostVars, HostInv, ChildInv, Alive, LoopFree
<1>26. ASSUME ChildExits PROVE ChildInv'
  BY <1>0, <1>26 DEF ChildExits, hostVars, KeepChild, HostInv, ChildInv, Alive, LoopFree
<1>27. ASSUME ServeRequest PROVE ChildInv'
  BY <1>0, <1>27 DEF ServeRequest, hostVars, HostInv, ChildInv, Alive, LoopFree
<1>28. ASSUME LogLine PROVE ChildInv'
  BY <1>0, <1>28 DEF LogLine, hostVars, HostInv, ChildInv, Alive, LoopFree
<1>29. ASSUME UNCHANGED serviceVars PROVE ChildInv'
  BY <1>0, <1>29 DEF serviceVars, hostVars, childVars, HostInv, ChildInv, Alive, LoopFree
<1> QED
  BY <1>1, <1>2, <1>3, <1>4, <1>5, <1>6, <1>7, <1>8, <1>9, <1>10, <1>11, <1>12, <1>13, <1>14,
     <1>15, <1>16, <1>17, <1>18, <1>19, <1>20, <1>21, <1>22, <1>23, <1>24, <1>25, <1>26, <1>27,
     <1>28, <1>29 DEF ServiceNext, HostStep, ChildStep

(* What the SCM is told is true of the child: running after its listener   *)
(* was up, stopped when no process of it is left, and exit code 0 after a  *)
(* clean stop only if the child has wound up its runtime (ServiceMain,     *)
(* StopAsync, _announce_ready, _ServiceChildLifecycle).                    *)
THEOREM StatusIsTrue == Spec => []ServiceStatus
<1>1. Init => ServiceInv
  BY InitService DEF Init
<1>2. ServiceInv /\ [Next]_vars => ServiceInv'
  BY PlatformSteps, NextReady, NextHost, NextChild DEF ServiceInv
<1>3. ServiceInv => ServiceStatus
  BY DEF ServiceInv, ReadyInv, HostInv, ChildInv, Alive, ServiceStatus, RunningMeansReady,
     StoppedMeansGone
<1> QED
  BY <1>1, <1>2, <1>3, PTL DEF Spec
-----------------------------------------------------------------------------
Protected(f) == files[f].owner = "trusted" /\ ~files[f].writable
Pinned(f) == Protected(f) /\ files[f].content = "installed"

(* Nobody changes a protected file.                                        *)
LEMMA PinnedStays ==
  ASSUME files \in [Files -> Condition], NEW f \in Files, Tamper(f) \/ Repair(f)
  PROVE  /\ files' \in [Files -> Condition]
         /\ \A g \in Files : /\ Protected(g) => Protected(g)'
                             /\ Pinned(g) => Pinned(g)'
<1>1. CASE Tamper(f)
  <2>1. PICK c \in Contents : files' = [files EXCEPT ![f].content = c]
    BY <1>1 DEF Tamper
  <2>2. ~Protected(f)
    BY <1>1 DEF Tamper, Protected, Condition
  <2>3. \A g \in Files \ {f} : files'[g] = files[g]
    BY <2>1
  <2>4. files' \in [Files -> Condition]
    BY <2>1 DEF Condition
  <2> QED
    BY <2>2, <2>3, <2>4 DEF Protected, Pinned
<1>2. CASE Repair(f)
  <2>1. files' = [files EXCEPT ![f].owner = "trusted", ![f].writable = FALSE]
    BY <1>2 DEF Repair
  <2>2. files[f] \in Condition
    OBVIOUS
  <2>3. /\ files'[f].owner = "trusted" /\ ~files'[f].writable
        /\ files'[f].content = files[f].content /\ files'[f].shape = files[f].shape
    BY <2>1, <2>2 DEF Condition
  <2>4. \A g \in Files \ {f} : files'[g] = files[g]
    BY <2>1
  <2>5. files' \in [Files -> Condition]
    BY <2>1 DEF Condition
  <2> QED
    BY <2>3, <2>4, <2>5 DEF Protected, Pinned
<1> QED
  BY <1>1, <1>2

(* What a bound Worker has made sure of, at each point of its start.       *)
BindingInv ==
    /\ files \in [Files -> Condition]
    /\ file \in Files
    /\ bound =>
         /\ step \notin {"acl", "read", "ended"} => file = "binding"
         /\ step = "read" => Protected(file)
         /\ step \in {"acl", "read"} /\ file = "policy" => Pinned("config")
         /\ step \in {"identity", "settings", "building", "built", "running"} =>
              Pinned("config") /\ Pinned("policy")

(* What the settings of an attempt were parsed from.                       *)
LoadedInv ==
    /\ loaded \in [{"config", "policy"} -> Contents \cup {"none"}]
    /\ bound /\ step \in {"main", "acl", "read", "identity", "settings"} =>
         loaded["config"] \in {"none", "installed"}
    /\ bound /\ step \in {"building", "built", "running"} =>
         loaded["config"] = "installed" /\ loaded["policy"] = "installed"

AdapterSet == {"processes", "jobs", "browser", "windows_mcp"}

(* An adapter is held by a generation.                                     *)
HeldTypes == held \subseteq Nat \X AdapterSet /\ attempt \in Nat

LaunchInv == BindingInv /\ LoadedInv /\ HeldTypes /\ OneGeneration

LEMMA AdapterNames == /\ {Adapters[i] : i \in 1..Len(Adapters)} = AdapterSet
                      /\ Len(Adapters) = 4 /\ \A i \in 1..4 : Adapters[i] \in AdapterSet
  BY DEF Adapters, AdapterSet

(* As many adapters are open as there are, at most.                        *)
LEMMA OpenedCount == Cardinality(Opened) \in Nat
<1>1. IsFiniteSet(AdapterSet)
  <2>1. IsFiniteSet({}) 
    BY FS_EmptySet
  <2>2. IsFiniteSet({} \cup {"processes"})
    BY <2>1, FS_AddElement
  <2>3. IsFiniteSet(({} \cup {"processes"}) \cup {"jobs"})
    BY <2>2, FS_AddElement
  <2>4. IsFiniteSet((({} \cup {"processes"}) \cup {"jobs"}) \cup {"browser"})
    BY <2>3, FS_AddElement
  <2>5. IsFiniteSet(((({} \cup {"processes"}) \cup {"jobs"}) \cup {"browser"}) \cup {"windows_mcp"})
    BY <2>4, FS_AddElement
  <2>6. AdapterSet = ((({} \cup {"processes"}) \cup {"jobs"}) \cup {"browser"}) \cup {"windows_mcp"}
    BY DEF AdapterSet
  <2> QED
    BY <2>5, <2>6
<1>2. Opened \subseteq AdapterSet
  BY AdapterNames DEF Opened
<1>3. IsFiniteSet(Opened)
  BY <1>1, <1>2, FS_Subset
<1> QED
  BY <1>3, FS_CardinalityType

LEMMA InitLaunch == WorkerLaunchInit => LaunchInv
<1> SUFFICES ASSUME WorkerLaunchInit PROVE LaunchInv
  OBVIOUS
<1>1. BindingInv
  BY DEF WorkerLaunchInit, BindingInv, Files
<1>2. LoadedInv
  BY DEF WorkerLaunchInit, LoadedInv
<1>3. HeldTypes /\ OneGeneration
  BY DEF WorkerLaunchInit, HeldTypes, OneGeneration
<1> QED
  BY <1>1, <1>2, <1>3 DEF LaunchInv

LEMMA NextBinding == LaunchInv /\ [WorkerLaunchNext]_launchVars => BindingInv'
<1> SUFFICES ASSUME LaunchInv, [WorkerLaunchNext]_launchVars PROVE BindingInv'
  OBVIOUS
<1>0. BindingInv /\ LoadedInv /\ HeldTypes /\ OneGeneration
  BY DEF LaunchInv
<1>1. ASSUME NEW f \in Files, Tamper(f) \/ Repair(f) PROVE BindingInv'
  <2>1. UNCHANGED <<bound, step, file>>
    BY <1>1 DEF Tamper, Repair
  <2>2. /\ files' \in [Files -> Condition]
        /\ \A g \in Files : (Protected(g) => Protected(g)') /\ (Pinned(g) => Pinned(g)')
    BY <1>0, <1>1, PinnedStays DEF BindingInv
  <2>3. Protected(file)' <=> (files'[file].owner = "trusted" /\ ~files'[file].writable)
    BY <2>1 DEF Protected
  <2> QED
    BY <1>0, <2>1, <2>2, <2>3 DEF BindingInv, Files, Protected
<1>2. ASSUME SessionChange PROVE BindingInv'
  BY <1>0, <1>2 DEF SessionChange, BindingInv, Protected, Pinned
<1>3. ASSUME Main PROVE BindingInv'
  BY <1>0, <1>3 DEF Main, Ended, BindingInv, Protected, Pinned
<1>4. ASSUME CheckAcl PROVE BindingInv'
  BY <1>0, <1>4 DEF CheckAcl, Ended, BindingInv, Protected, Pinned, SafeFile, ProtectedAcl
<1>5. ASSUME ReadProtected PROVE BindingInv'
  BY <1>0, <1>5 DEF ReadProtected, Ended, Verified, BindingInv, Protected, Pinned, HashMatches,
     Files
<1>6. ASSUME Attempt PROVE BindingInv'
  BY <1>0, <1>6 DEF Attempt, BindingInv, Protected, Pinned
<1>7. ASSUME CheckIdentity PROVE BindingInv'
  BY <1>0, <1>7 DEF CheckIdentity, RetryLater, BindingInv, Protected, Pinned
<1>8. ASSUME LoadSettings PROVE BindingInv'
  BY <1>0, <1>8 DEF LoadSettings, Ended, RetryLater, BindingInv, Protected, Pinned
<1>9. ASSUME OpenAdapter PROVE BindingInv'
  BY <1>0, <1>9 DEF OpenAdapter, BindingInv, Protected, Pinned
<1>10. ASSUME BuildFails PROVE BindingInv'
  BY <1>0, <1>10 DEF BuildFails, Ended, BindingInv, Protected, Pinned
<1>11. ASSUME Dispatcher PROVE BindingInv'
  BY <1>0, <1>11 DEF Dispatcher, BindingInv, Protected, Pinned
<1>12. ASSUME TailFails PROVE BindingInv'
  BY <1>0, <1>12 DEF TailFails, Ended, BindingInv, Protected, Pinned
<1>13. ASSUME RunRuntime PROVE BindingInv'
  BY <1>0, <1>13 DEF RunRuntime, BindingInv, Protected, Pinned
<1>14. ASSUME RunEnds PROVE BindingInv'
  BY <1>0, <1>14 DEF RunEnds, BindingInv, Protected, Pinned
<1>15. ASSUME CloseAdapter PROVE BindingInv'
  BY <1>0, <1>15 DEF CloseAdapter, BindingInv, Protected, Pinned
<1>16. ASSUME AllClosed PROVE BindingInv'
  BY <1>0, <1>16 DEF AllClosed, Ended, RetryLater, BindingInv, Protected, Pinned
<1>17. ASSUME Backoff PROVE BindingInv'
  BY <1>0, <1>17 DEF Backoff, Ended, BindingInv, Protected, Pinned
<1>18. ASSUME UNCHANGED launchVars PROVE BindingInv'
  BY <1>0, <1>18 DEF launchVars, BindingInv, Protected, Pinned
<1> QED
  BY <1>1, <1>2, <1>3, <1>4, <1>5, <1>6, <1>7, <1>8, <1>9, <1>10, <1>11, <1>12, <1>13, <1>14,
     <1>15, <1>16, <1>17, <1>18 DEF WorkerLaunchNext

LEMMA NextLoaded == LaunchInv /\ [WorkerLaunchNext]_launchVars => LoadedInv'
<1> SUFFICES ASSUME LaunchInv, [WorkerLaunchNext]_launchVars PROVE LoadedInv'
  OBVIOUS
<1>0. BindingInv /\ LoadedInv /\ HeldTypes /\ OneGeneration
  BY DEF LaunchInv
<1>1. ASSUME NEW f \in Files, Tamper(f) \/ Repair(f) PROVE LoadedInv'
  BY <1>0, <1>1 DEF Tamper, Repair, LoadedInv
<1>2. ASSUME SessionChange PROVE LoadedInv'
  BY <1>0, <1>2 DEF SessionChange, LoadedInv
<1>3. ASSUME Main PROVE LoadedInv'
  BY <1>0, <1>3 DEF Main, Ended, LoadedInv
<1>4. ASSUME CheckAcl PROVE LoadedInv'
  BY <1>0, <1>4 DEF CheckAcl, Ended, LoadedInv
<1>5. ASSUME ReadProtected PROVE LoadedInv'
  BY <1>0, <1>5 DEF ReadProtected, Ended, Verified, LoadedInv
<1>6. ASSUME Attempt PROVE LoadedInv'
  BY <1>0, <1>6 DEF Attempt, LoadedInv
<1>7. ASSUME CheckIdentity PROVE LoadedInv'
  BY <1>0, <1>7 DEF CheckIdentity, RetryLater, LoadedInv
<1>8. ASSUME LoadSettings PROVE LoadedInv'
  <2>1. PICK f \in {"config", "policy"} :
          /\ f = IF loaded["config"] = "none" THEN "config" ELSE "policy"
          /\ \/ /\ loaded' = [loaded EXCEPT ![f] = files[f].content]
                /\ step' = IF f = "policy" THEN "building" ELSE "settings"
             \/ step' \in {"ended", "waiting"} /\ UNCHANGED loaded
    BY <1>8 DEF LoadSettings, Ended, RetryLater
  <2>2. files[f].content \in Contents
    BY <1>0 DEF BindingInv, Condition, Files
  <2>3. bound => files[f].content = "installed"
    BY <1>0, <1>8 DEF LoadSettings, BindingInv, Pinned
  <2>4. step = "settings" /\ UNCHANGED bound
    BY <1>8 DEF LoadSettings
  <2> QED
    BY <1>0, <2>1, <2>2, <2>3, <2>4 DEF LoadedInv, Contents
<1>9. ASSUME OpenAdapter PROVE LoadedInv'
  BY <1>0, <1>9 DEF OpenAdapter, LoadedInv
<1>10. ASSUME BuildFails PROVE LoadedInv'
  BY <1>0, <1>10 DEF BuildFails, Ended, LoadedInv
<1>11. ASSUME Dispatcher PROVE LoadedInv'
  BY <1>0, <1>11 DEF Dispatcher, LoadedInv
<1>12. ASSUME TailFails PROVE LoadedInv'
  BY <1>0, <1>12 DEF TailFails, Ended, LoadedInv
<1>13. ASSUME RunRuntime PROVE LoadedInv'
  BY <1>0, <1>13 DEF RunRuntime, LoadedInv
<1>14. ASSUME RunEnds PROVE LoadedInv'
  BY <1>0, <1>14 DEF RunEnds, LoadedInv
<1>15. ASSUME CloseAdapter PROVE LoadedInv'
  BY <1>0, <1>15 DEF CloseAdapter, LoadedInv
<1>16. ASSUME AllClosed PROVE LoadedInv'
  BY <1>0, <1>16 DEF AllClosed, Ended, RetryLater, LoadedInv
<1>17. ASSUME Backoff PROVE LoadedInv'
  BY <1>0, <1>17 DEF Backoff, Ended, LoadedInv
<1>18. ASSUME UNCHANGED launchVars PROVE LoadedInv'
  BY <1>0, <1>18 DEF launchVars, LoadedInv
<1> QED
  BY <1>1, <1>2, <1>3, <1>4, <1>5, <1>6, <1>7, <1>8, <1>9, <1>10, <1>11, <1>12, <1>13, <1>14,
     <1>15, <1>16, <1>17, <1>18 DEF WorkerLaunchNext

LEMMA NextHeldTypes == LaunchInv /\ [WorkerLaunchNext]_launchVars => HeldTypes'
<1> SUFFICES ASSUME LaunchInv, [WorkerLaunchNext]_launchVars PROVE HeldTypes'
  OBVIOUS
<1>0. BindingInv /\ LoadedInv /\ HeldTypes /\ OneGeneration
  BY DEF LaunchInv
<1>1. ASSUME NEW f \in Files, Tamper(f) \/ Repair(f) PROVE HeldTypes'
  BY <1>0, <1>1 DEF Tamper, Repair, HeldTypes
<1>2. ASSUME SessionChange PROVE HeldTypes'
  BY <1>0, <1>2 DEF SessionChange, HeldTypes
<1>3. ASSUME Main PROVE HeldTypes'
  BY <1>0, <1>3 DEF Main, Ended, HeldTypes
<1>4. ASSUME CheckAcl PROVE HeldTypes'
  BY <1>0, <1>4 DEF CheckAcl, Ended, HeldTypes
<1>5. ASSUME ReadProtected PROVE HeldTypes'
  BY <1>0, <1>5 DEF ReadProtected, Ended, Verified, HeldTypes
<1>6. ASSUME Attempt PROVE HeldTypes'
  BY <1>0, <1>6 DEF Attempt, HeldTypes
<1>7. ASSUME CheckIdentity PROVE HeldTypes'
  BY <1>0, <1>7 DEF CheckIdentity, RetryLater, HeldTypes
<1>8. ASSUME LoadSettings PROVE HeldTypes'
  BY <1>0, <1>8 DEF LoadSettings, Ended, RetryLater, HeldTypes
<1>9. ASSUME OpenAdapter PROVE HeldTypes'
  <2>1. PICK n : n = Cardinality(Opened)
    OBVIOUS
  <2>2. n \in Nat /\ n < 4
    BY <1>9, <2>1, OpenedCount, AdapterNames DEF OpenAdapter
  <2>3. Adapters[n + 1] \in AdapterSet
    BY <2>2, AdapterNames
  <2>4. held' = held \cup {<<attempt, Adapters[n + 1]>>} /\ UNCHANGED attempt
    BY <1>9, <2>1 DEF OpenAdapter
  <2> QED
    BY <1>0, <2>3, <2>4 DEF HeldTypes
<1>10. ASSUME BuildFails PROVE HeldTypes'
  BY <1>0, <1>10 DEF BuildFails, Ended, HeldTypes
<1>11. ASSUME Dispatcher PROVE HeldTypes'
  BY <1>0, <1>11 DEF Dispatcher, HeldTypes
<1>12. ASSUME TailFails PROVE HeldTypes'
  BY <1>0, <1>12 DEF TailFails, Ended, HeldTypes
<1>13. ASSUME RunRuntime PROVE HeldTypes'
  BY <1>0, <1>13 DEF RunRuntime, HeldTypes
<1>14. ASSUME RunEnds PROVE HeldTypes'
  BY <1>0, <1>14 DEF RunEnds, HeldTypes
<1>15. ASSUME CloseAdapter PROVE HeldTypes'
  <2>1. held' \subseteq held /\ UNCHANGED attempt
    BY <1>15 DEF CloseAdapter
  <2> QED
    BY <1>0, <2>1 DEF HeldTypes
<1>16. ASSUME AllClosed PROVE HeldTypes'
  BY <1>0, <1>16 DEF AllClosed, Ended, RetryLater, HeldTypes
<1>17. ASSUME Backoff PROVE HeldTypes'
  BY <1>0, <1>17 DEF Backoff, Ended, HeldTypes
<1>18. ASSUME UNCHANGED launchVars PROVE HeldTypes'
  BY <1>0, <1>18 DEF launchVars, HeldTypes
<1> QED
  BY <1>1, <1>2, <1>3, <1>4, <1>5, <1>6, <1>7, <1>8, <1>9, <1>10, <1>11, <1>12, <1>13, <1>14,
     <1>15, <1>16, <1>17, <1>18 DEF WorkerLaunchNext

LEMMA NextGeneration == LaunchInv /\ [WorkerLaunchNext]_launchVars => OneGeneration'
<1> SUFFICES ASSUME LaunchInv, [WorkerLaunchNext]_launchVars PROVE OneGeneration'
  OBVIOUS
<1>0. BindingInv /\ LoadedInv /\ HeldTypes /\ OneGeneration
  BY DEF LaunchInv
<1>1. ASSUME NEW f \in Files, Tamper(f) \/ Repair(f) PROVE OneGeneration'
  BY <1>0, <1>1 DEF Tamper, Repair, OneGeneration, HeldTypes
<1>2. ASSUME SessionChange PROVE OneGeneration'
  BY <1>0, <1>2 DEF SessionChange, OneGeneration, HeldTypes
<1>3. ASSUME Main PROVE OneGeneration'
  BY <1>0, <1>3 DEF Main, Ended, OneGeneration, HeldTypes
<1>4. ASSUME CheckAcl PROVE OneGeneration'
  BY <1>0, <1>4 DEF CheckAcl, Ended, OneGeneration, HeldTypes
<1>5. ASSUME ReadProtected PROVE OneGeneration'
  BY <1>0, <1>5 DEF ReadProtected, Ended, Verified, OneGeneration, HeldTypes
<1>6. ASSUME Attempt PROVE OneGeneration'
  BY <1>0, <1>6 DEF Attempt, OneGeneration, HeldTypes
<1>7. ASSUME CheckIdentity PROVE OneGeneration'
  BY <1>0, <1>7 DEF CheckIdentity, RetryLater, OneGeneration, HeldTypes
<1>8. ASSUME LoadSettings PROVE OneGeneration'
  BY <1>0, <1>8 DEF LoadSettings, Ended, RetryLater, OneGeneration, HeldTypes
<1>9. ASSUME OpenAdapter PROVE OneGeneration'
  <2>1. PICK a : held' = held \cup {<<attempt, a>>}
    BY <1>9 DEF OpenAdapter
  <2>2. step = "building" /\ UNCHANGED <<step, attempt, forsaken>>
    BY <1>9 DEF OpenAdapter
  <2> QED
    BY <1>0, <2>1, <2>2 DEF OneGeneration
<1>10. ASSUME BuildFails PROVE OneGeneration'
  BY <1>0, <1>10 DEF BuildFails, Ended, OneGeneration, HeldTypes
<1>11. ASSUME Dispatcher PROVE OneGeneration'
  BY <1>0, <1>11 DEF Dispatcher, OneGeneration, HeldTypes
<1>12. ASSUME TailFails PROVE OneGeneration'
  BY <1>0, <1>12 DEF TailFails, Ended, OneGeneration, HeldTypes
<1>13. ASSUME RunRuntime PROVE OneGeneration'
  BY <1>0, <1>13 DEF RunRuntime, OneGeneration, HeldTypes
<1>14. ASSUME RunEnds PROVE OneGeneration'
  BY <1>0, <1>14 DEF RunEnds, OneGeneration, HeldTypes
<1>15. ASSUME CloseAdapter PROVE OneGeneration'
  <2>1. held' \subseteq held /\ UNCHANGED <<step, attempt, forsaken>>
    BY <1>15 DEF CloseAdapter
  <2> QED
    BY <1>0, <2>1 DEF OneGeneration
<1>16. ASSUME AllClosed PROVE OneGeneration'
  <2>1. Opened = {} /\ UNCHANGED attempt
    BY <1>16 DEF AllClosed
  <2>2. \A h \in held : h[1] # attempt
    <3>1. ASSUME NEW h \in held, h[1] = attempt PROVE FALSE
      <4>1. h = <<attempt, h[2]>> /\ h[2] \in AdapterSet
        BY <1>0, <3>1 DEF HeldTypes
      <4>2. h[2] \in Opened
        BY <3>1, <4>1, AdapterNames DEF Opened
      <4> QED
        BY <2>1, <4>2
    <3> QED
      BY <3>1
  <2> QED
    BY <1>0, <2>1, <2>2, <1>16 DEF AllClosed, Ended, RetryLater, OneGeneration
<1>17. ASSUME Backoff PROVE OneGeneration'
  BY <1>0, <1>17 DEF Backoff, Ended, OneGeneration, HeldTypes
<1>18. ASSUME UNCHANGED launchVars PROVE OneGeneration'
  BY <1>0, <1>18 DEF launchVars, OneGeneration, HeldTypes
<1> QED
  BY <1>1, <1>2, <1>3, <1>4, <1>5, <1>6, <1>7, <1>8, <1>9, <1>10, <1>11, <1>12, <1>13, <1>14,
     <1>15, <1>16, <1>17, <1>18 DEF WorkerLaunchNext

LEMMA LaunchInvariant == Spec => []LaunchInv
<1>1. Init => LaunchInv
  BY InitLaunch DEF Init
<1>2. LaunchInv /\ [Next]_vars => LaunchInv'
  BY PlatformSteps, NextBinding, NextLoaded, NextHeldTypes, NextGeneration DEF LaunchInv
<1> QED
  BY <1>1, <1>2, PTL DEF Spec

(* A bound Worker runs with the very settings its binding was made for,    *)
(* although the files are read again after their hashes were compared      *)
(* (load_runtime_binding, InstalledWorkerRuntimeFactory).                  *)
THEOREM SettingsAreBound == Spec => []RunsBoundSettings
<1>1. LaunchInv => RunsBoundSettings
  <2> SUFFICES ASSUME LaunchInv, bound, step \in {"building", "built", "running"}
               PROVE  loaded = [f \in {"config", "policy"} |-> "installed"]
    BY DEF RunsBoundSettings
  <2>1. /\ loaded \in [{"config", "policy"} -> Contents \cup {"none"}]
        /\ \A f \in {"config", "policy"} : loaded[f] = "installed"
    BY DEF LaunchInv, LoadedInv
  <2> QED
    BY <2>1
<1> QED
  BY <1>1, LaunchInvariant, PTL

(* Two generations never have their adapters open at the same time, but    *)
(* for one that failed between dispatcher and runtime (WorkerWatchdog.run, *)
(* build_worker_dispatcher).                                               *)
THEOREM GenerationsTakeTurns == Spec => []OneGeneration
<1>1. LaunchInv => OneGeneration
  BY DEF LaunchInv
<1> QED
  BY <1>1, LaunchInvariant, PTL
-----------------------------------------------------------------------------
(* ProcessManager and ShellWorker share no variable either.                *)
LEMMA ManagerLeavesShell == ManagerNext => UNCHANGED shellVars
  BY DEF ManagerNext, CheckStart, Create, Assign, Resume, StartFails, RegisterProcess, Spawn,
     RootExits, Terminate, CloseOne, CloseBegin, CloseBreaks, CloseEnd, Collect

LEMMA ShellLeavesManager == ShellNext => UNCHANGED managerVars
  BY DEF ShellNext, RefuseShell, LaunchShell, AssignShellJob, ShellSpawn, ShellExits,
     WriteChunk, ReadChunk, TakeChunk, DrainEnds, Render, WaitReturns, ShellTimeout,
     KillTree, CloseShellJob, JoinDrains

LEMMA ProcessSteps ==
  [ManagerNext \/ ShellNext]_processVars =>
      [ManagerNext]_managerVars /\ [ShellNext]_shellVars
  BY ManagerLeavesShell, ShellLeavesManager DEF processVars

(* The tree that start() makes, by how far it has come: nothing runs       *)
(* before the job has the root, and then everything is in the job as long  *)
(* as the handle is open.                                                  *)
TreeInv(r) ==
    /\ at[r] \in {"idle", "checked"} =>
         root[r] = "none" /\ desc[r] = "none" /\ job[r] = "none" /\ procHandle[r] = "none"
    /\ at[r] = "created" =>
         root[r] = "suspended" /\ desc[r] = "none" /\ job[r] = "none"
    /\ at[r] = "assigned" =>
         root[r] = "suspended" /\ desc[r] = "none" /\ job[r] = "open"
    /\ at[r] = "resumed" =>
         root[r] \in {"running", "dead"} /\ desc[r] \in {"none", "in_job"} /\ job[r] = "open"
    /\ at[r] \in {"created", "assigned", "resumed"} => procHandle[r] = "open"
    /\ at[r] = "failed" =>
         root[r] \in {"none", "dead"} /\ desc[r] = "none" /\ procHandle[r] # "open"
         /\ job[r] \in {"none", "closed"}
    /\ at[r] = "owned" =>
         /\ root[r] \in {"running", "dead"} /\ desc[r] \in {"none", "in_job", "dead"}
         /\ job[r] \in {"open", "cancelled", "closed"}
         /\ procHandle[r] = "open" => job[r] # "closed"
         /\ job[r] # "open" => root[r] = "dead" /\ desc[r] # "in_job"
         /\ procHandle[r] \in {"open", "closed"}
         /\ procHandle[r] = "closed" => job[r] = "closed"
         /\ manager = "collected" => procHandle[r] = "closed"

ManagerTypes ==
    /\ at \in [Starts -> {"idle", "checked", "created", "assigned", "resumed", "owned",
                          "failed"}]
    /\ root \in [Starts -> Life]
    /\ desc \in [Starts -> {"none", "in_job", "outside", "dead"}]
    /\ job \in [Starts -> {"none", "open", "cancelled", "closed"}]
    /\ procHandle \in [Starts -> {"none", "open", "closed"}]

ManagerInv ==
    /\ ManagerTypes
    /\ toClose \subseteq owned
    /\ \A r \in owned : r \in Starts /\ at[r] = "owned"
    /\ manager = "collected" => \A r \in Starts : at[r] \in {"idle", "owned", "failed"}
    /\ \A r \in Starts : managed[r] => TreeInv(r)

LEMMA InitManager == ManagerInit => ManagerInv
  BY DEF ManagerInit, ManagerInv, ManagerTypes, TreeInv, Life

LEMMA NextManager == ManagerInv /\ [ManagerNext]_managerVars => ManagerInv'
<1> SUFFICES ASSUME ManagerInv, [ManagerNext]_managerVars PROVE ManagerInv'
  OBVIOUS
<1>1. ASSUME NEW r \in Starts, CheckStart(r) PROVE ManagerInv'
  <2>1. ManagerTypes'
    BY <1>1 DEF CheckStart, ManagerInv, ManagerTypes, Life
  <2>2. (toClose \subseteq owned /\ \A q \in owned : q \in Starts /\ at[q] = "owned")'
    BY <1>1 DEF CheckStart, ManagerInv, ManagerTypes
  <2>3. (manager = "collected" => \A q \in Starts : at[q] \in {"idle", "owned", "failed"})'
    BY <1>1 DEF CheckStart, ManagerInv, ManagerTypes
  <2>4. ASSUME NEW q \in Starts, managed'[q] PROVE TreeInv(q)'
    BY <1>1, <2>4 DEF CheckStart, ManagerInv, ManagerTypes, TreeInv, Life
  <2> QED  BY <2>1, <2>2, <2>3, <2>4 DEF ManagerInv
<1>2. ASSUME NEW r \in Starts, Create(r) PROVE ManagerInv'
  <2>1. ManagerTypes'
    BY <1>2 DEF Create, ManagerInv, ManagerTypes, Life
  <2>2. (toClose \subseteq owned /\ \A q \in owned : q \in Starts /\ at[q] = "owned")'
    BY <1>2 DEF Create, ManagerInv, ManagerTypes
  <2>3. (manager = "collected" => \A q \in Starts : at[q] \in {"idle", "owned", "failed"})'
    BY <1>2 DEF Create, ManagerInv, ManagerTypes
  <2>4. ASSUME NEW q \in Starts, managed'[q] PROVE TreeInv(q)'
    BY <1>2, <2>4 DEF Create, ManagerInv, ManagerTypes, TreeInv, Life
  <2> QED  BY <2>1, <2>2, <2>3, <2>4 DEF ManagerInv
<1>3. ASSUME NEW r \in Starts, Assign(r) PROVE ManagerInv'
  <2>1. ManagerTypes'
    BY <1>3 DEF Assign, ManagerInv, ManagerTypes, Life
  <2>2. (toClose \subseteq owned /\ \A q \in owned : q \in Starts /\ at[q] = "owned")'
    BY <1>3 DEF Assign, ManagerInv, ManagerTypes
  <2>3. (manager = "collected" => \A q \in Starts : at[q] \in {"idle", "owned", "failed"})'
    BY <1>3 DEF Assign, ManagerInv, ManagerTypes
  <2>4. ASSUME NEW q \in Starts, managed'[q] PROVE TreeInv(q)'
    BY <1>3, <2>4 DEF Assign, ManagerInv, ManagerTypes, TreeInv, Life
  <2> QED  BY <2>1, <2>2, <2>3, <2>4 DEF ManagerInv
<1>4. ASSUME NEW r \in Starts, Resume(r) PROVE ManagerInv'
  <2>1. ManagerTypes'
    BY <1>4 DEF Resume, ManagerInv, ManagerTypes, Life
  <2>2. (toClose \subseteq owned /\ \A q \in owned : q \in Starts /\ at[q] = "owned")'
    BY <1>4 DEF Resume, ManagerInv, ManagerTypes
  <2>3. (manager = "collected" => \A q \in Starts : at[q] \in {"idle", "owned", "failed"})'
    BY <1>4 DEF Resume, ManagerInv, ManagerTypes
  <2>4. ASSUME NEW q \in Starts, managed'[q] PROVE TreeInv(q)'
    BY <1>4, <2>4 DEF Resume, ManagerInv, ManagerTypes, TreeInv, Life
  <2> QED  BY <2>1, <2>2, <2>3, <2>4 DEF ManagerInv
<1>5. ASSUME NEW r \in Starts, StartFails(r) PROVE ManagerInv'
  <2>1. ManagerTypes'
    BY <1>5 DEF StartFails, ManagerInv, ManagerTypes, Life
  <2>2. (toClose \subseteq owned /\ \A q \in owned : q \in Starts /\ at[q] = "owned")'
    BY <1>5 DEF StartFails, ManagerInv, ManagerTypes
  <2>3. (manager = "collected" => \A q \in Starts : at[q] \in {"idle", "owned", "failed"})'
    BY <1>5 DEF StartFails, ManagerInv, ManagerTypes
  <2>4. ASSUME NEW q \in Starts, managed'[q] PROVE TreeInv(q)'
    BY <1>5, <2>4 DEF StartFails, ManagerInv, ManagerTypes, TreeInv, Life
  <2> QED  BY <2>1, <2>2, <2>3, <2>4 DEF ManagerInv
<1>6. ASSUME NEW r \in Starts, RegisterProcess(r) PROVE ManagerInv'
  <2>1. ManagerTypes'
    BY <1>6 DEF RegisterProcess, ManagerInv, ManagerTypes, Life
  <2>2. (toClose \subseteq owned /\ \A q \in owned : q \in Starts /\ at[q] = "owned")'
    BY <1>6 DEF RegisterProcess, ManagerInv, ManagerTypes
  <2>3. (manager = "collected" => \A q \in Starts : at[q] \in {"idle", "owned", "failed"})'
    BY <1>6 DEF RegisterProcess, ManagerInv, ManagerTypes
  <2>4. ASSUME NEW q \in Starts, managed'[q] PROVE TreeInv(q)'
    BY <1>6, <2>4 DEF RegisterProcess, ManagerInv, ManagerTypes, TreeInv, Life
  <2> QED  BY <2>1, <2>2, <2>3, <2>4 DEF ManagerInv
<1>7. ASSUME NEW r \in Starts, Spawn(r) PROVE ManagerInv'
  <2>1. ManagerTypes'
    BY <1>7 DEF Spawn, ManagerInv, ManagerTypes, Life
  <2>2. (toClose \subseteq owned /\ \A q \in owned : q \in Starts /\ at[q] = "owned")'
    BY <1>7 DEF Spawn, ManagerInv, ManagerTypes
  <2>3. (manager = "collected" => \A q \in Starts : at[q] \in {"idle", "owned", "failed"})'
    BY <1>7 DEF Spawn, ManagerInv, ManagerTypes
  <2>4. ASSUME NEW q \in Starts, managed'[q] PROVE TreeInv(q)'
    BY <1>7, <2>4 DEF Spawn, ManagerInv, ManagerTypes, TreeInv, Life
  <2> QED  BY <2>1, <2>2, <2>3, <2>4 DEF ManagerInv
<1>8. ASSUME NEW r \in Starts, RootExits(r) PROVE ManagerInv'
  <2>1. ManagerTypes'
    BY <1>8 DEF RootExits, ManagerInv, ManagerTypes, Life
  <2>2. (toClose \subseteq owned /\ \A q \in owned : q \in Starts /\ at[q] = "owned")'
    BY <1>8 DEF RootExits, ManagerInv, ManagerTypes
  <2>3. (manager = "collected" => \A q \in Starts : at[q] \in {"idle", "owned", "failed"})'
    BY <1>8 DEF RootExits, ManagerInv, ManagerTypes
  <2>4. ASSUME NEW q \in Starts, managed'[q] PROVE TreeInv(q)'
    BY <1>8, <2>4 DEF RootExits, ManagerInv, ManagerTypes, TreeInv, Life
  <2> QED  BY <2>1, <2>2, <2>3, <2>4 DEF ManagerInv
<1>9. ASSUME NEW r \in Starts, Terminate(r) PROVE ManagerInv'
  <2>1. ManagerTypes'
    BY <1>9 DEF Terminate, JobDies, RootDies, ManagerInv, ManagerTypes, Life
  <2>2. (toClose \subseteq owned /\ \A q \in owned : q \in Starts /\ at[q] = "owned")'
    BY <1>9 DEF Terminate, JobDies, RootDies, ManagerInv, ManagerTypes
  <2>3. (manager = "collected" => \A q \in Starts : at[q] \in {"idle", "owned", "failed"})'
    BY <1>9 DEF Terminate, JobDies, RootDies, ManagerInv, ManagerTypes
  <2>4. ASSUME NEW q \in Starts, managed'[q] PROVE TreeInv(q)'
    BY <1>9, <2>4 DEF Terminate, JobDies, RootDies, ManagerInv, ManagerTypes, TreeInv, Life
  <2> QED  BY <2>1, <2>2, <2>3, <2>4 DEF ManagerInv
<1>10. ASSUME NEW r \in Starts, CloseOne(r) PROVE ManagerInv'
  <2>1. ManagerTypes'
    BY <1>10 DEF CloseOne, JobDies, RootDies, ManagerInv, ManagerTypes, Life
  <2>2. (toClose \subseteq owned /\ \A q \in owned : q \in Starts /\ at[q] = "owned")'
    BY <1>10 DEF CloseOne, JobDies, RootDies, ManagerInv, ManagerTypes
  <2>3. (manager = "collected" => \A q \in Starts : at[q] \in {"idle", "owned", "failed"})'
    BY <1>10 DEF CloseOne, JobDies, RootDies, ManagerInv, ManagerTypes
  <2>4. ASSUME NEW q \in Starts, managed'[q] PROVE TreeInv(q)'
    BY <1>10, <2>4 DEF CloseOne, JobDies, RootDies, ManagerInv, ManagerTypes, TreeInv, Life
  <2> QED  BY <2>1, <2>2, <2>3, <2>4 DEF ManagerInv
<1>11. ASSUME CloseBegin PROVE ManagerInv'
  <2>1. ManagerTypes'
    BY <1>11 DEF CloseBegin, ManagerInv, ManagerTypes, Life
  <2>2. (toClose \subseteq owned /\ \A q \in owned : q \in Starts /\ at[q] = "owned")'
    BY <1>11 DEF CloseBegin, ManagerInv, ManagerTypes
  <2>3. (manager = "collected" => \A q \in Starts : at[q] \in {"idle", "owned", "failed"})'
    BY <1>11 DEF CloseBegin, ManagerInv, ManagerTypes
  <2>4. ASSUME NEW q \in Starts, managed'[q] PROVE TreeInv(q)'
    BY <1>11, <2>4 DEF CloseBegin, ManagerInv, ManagerTypes, TreeInv, Life
  <2> QED  BY <2>1, <2>2, <2>3, <2>4 DEF ManagerInv
<1>12. ASSUME CloseBreaks PROVE ManagerInv'
  <2>1. ManagerTypes'
    BY <1>12 DEF CloseBreaks, ManagerInv, ManagerTypes, Life
  <2>2. (toClose \subseteq owned /\ \A q \in owned : q \in Starts /\ at[q] = "owned")'
    BY <1>12 DEF CloseBreaks, ManagerInv, ManagerTypes
  <2>3. (manager = "collected" => \A q \in Starts : at[q] \in {"idle", "owned", "failed"})'
    BY <1>12 DEF CloseBreaks, ManagerInv, ManagerTypes
  <2>4. ASSUME NEW q \in Starts, managed'[q] PROVE TreeInv(q)'
    BY <1>12, <2>4 DEF CloseBreaks, ManagerInv, ManagerTypes, TreeInv, Life
  <2> QED  BY <2>1, <2>2, <2>3, <2>4 DEF ManagerInv
<1>13. ASSUME CloseEnd PROVE ManagerInv'
  <2>1. ManagerTypes'
    BY <1>13 DEF CloseEnd, ManagerInv, ManagerTypes, Life
  <2>2. (toClose \subseteq owned /\ \A q \in owned : q \in Starts /\ at[q] = "owned")'
    BY <1>13 DEF CloseEnd, ManagerInv, ManagerTypes
  <2>3. (manager = "collected" => \A q \in Starts : at[q] \in {"idle", "owned", "failed"})'
    BY <1>13 DEF CloseEnd, ManagerInv, ManagerTypes
  <2>4. ASSUME NEW q \in Starts, managed'[q] PROVE TreeInv(q)'
    BY <1>13, <2>4 DEF CloseEnd, ManagerInv, ManagerTypes, TreeInv, Life
  <2> QED  BY <2>1, <2>2, <2>3, <2>4 DEF ManagerInv
<1>14. ASSUME Collect PROVE ManagerInv'
  <2>1. ManagerTypes'
    BY <1>14 DEF Collect, ManagerInv, ManagerTypes, Life
  <2>2. (toClose \subseteq owned /\ \A q \in owned : q \in Starts /\ at[q] = "owned")'
    BY <1>14 DEF Collect, ManagerInv, ManagerTypes
  <2>3. (manager = "collected" => \A q \in Starts : at[q] \in {"idle", "owned", "failed"})'
    BY <1>14 DEF Collect, ManagerInv, ManagerTypes
  <2>4. ASSUME NEW q \in Starts, managed'[q] PROVE TreeInv(q)'
    BY <1>14, <2>4 DEF Collect, ManagerInv, ManagerTypes, TreeInv, Life
  <2> QED  BY <2>1, <2>2, <2>3, <2>4 DEF ManagerInv
<1>15. ASSUME UNCHANGED managerVars PROVE ManagerInv'
  <2>1. ManagerTypes'
    BY <1>15 DEF managerVars, ManagerInv, ManagerTypes, Life
  <2>2. (toClose \subseteq owned /\ \A q \in owned : q \in Starts /\ at[q] = "owned")'
    BY <1>15 DEF managerVars, ManagerInv, ManagerTypes
  <2>3. (manager = "collected" => \A q \in Starts : at[q] \in {"idle", "owned", "failed"})'
    BY <1>15 DEF managerVars, ManagerInv, ManagerTypes
  <2>4. ASSUME NEW q \in Starts, managed'[q] PROVE TreeInv(q)'
    BY <1>15, <2>4 DEF managerVars, ManagerInv, ManagerTypes, TreeInv, Life
  <2> QED  BY <2>1, <2>2, <2>3, <2>4 DEF ManagerInv
<1> QED
  BY <1>1, <1>2, <1>3, <1>4, <1>5, <1>6, <1>7, <1>8, <1>9, <1>10, <1>11, <1>12, <1>13, <1>14,
     <1>15 DEF ManagerNext

LEMMA ManagedDie == ManagerInv => ManagedTreesDie
<1> SUFFICES ASSUME ManagerInv, NEW r \in Starts, managed[r],
                    procHandle[r] = "closed" \/ manager = "collected"
             PROVE  root[r] \in {"none", "dead"} /\ desc[r] \in {"none", "dead"}
  BY DEF ManagedTreesDie
<1>1. TreeInv(r) /\ at[r] \in {"idle", "checked", "created", "assigned", "resumed", "owned",
                               "failed"}
  BY DEF ManagerInv, ManagerTypes
<1> QED  BY <1>1 DEF ManagerInv, ManagerTypes, TreeInv
-----------------------------------------------------------------------------
(* The shell and what is in its job, by where run() is.                    *)
ShellTreeInv ==
    /\ shell = "idle" => shellRoot = "none"
    /\ shell \in {"closing", "joining", "stdout", "stderr", "done"} => shellRoot = "dead"
    /\ shell \in {"joining", "stdout", "stderr", "done"} => shellDesc # "in_job"

LEMMA InitShellTree == ShellInit => ShellTreeInv
  BY DEF ShellInit, ShellTreeInv

LEMMA NextShellTree == ShellTreeInv /\ [ShellNext]_shellVars => ShellTreeInv'
<1> SUFFICES ASSUME ShellTreeInv, [ShellNext]_shellVars PROVE ShellTreeInv'
  OBVIOUS
<1>1. ASSUME RefuseShell PROVE ShellTreeInv'
  BY <1>1 DEF RefuseShell, treeVars, ShellTreeInv, Streams
<1>2. ASSUME LaunchShell PROVE ShellTreeInv'
  BY <1>2 DEF LaunchShell, ShellTreeInv, Streams
<1>3. ASSUME AssignShellJob PROVE ShellTreeInv'
  BY <1>3 DEF AssignShellJob, ShellTreeInv, Streams
<1>4. ASSUME ShellSpawn PROVE ShellTreeInv'
  BY <1>4 DEF ShellSpawn, ShellTreeInv, Streams
<1>5. ASSUME ShellExits PROVE ShellTreeInv'
  BY <1>5 DEF ShellExits, ShellTreeInv, Streams
<1>6. ASSUME WaitReturns PROVE ShellTreeInv'
  BY <1>6 DEF WaitReturns, treeVars, ShellTreeInv, Streams
<1>7. ASSUME ShellTimeout PROVE ShellTreeInv'
  BY <1>7 DEF ShellTimeout, ShellTreeInv, Streams
<1>8. ASSUME KillTree PROVE ShellTreeInv'
  BY <1>8 DEF KillTree, ShellTreeInv, Streams
<1>9. ASSUME CloseShellJob PROVE ShellTreeInv'
  BY <1>9 DEF CloseShellJob, ShellTreeInv, Streams
<1>10. ASSUME JoinDrains PROVE ShellTreeInv'
  BY <1>10 DEF JoinDrains, treeVars, ShellTreeInv, Streams
<1>11. ASSUME NEW s \in Streams, WriteChunk(s) PROVE ShellTreeInv'
  BY <1>11 DEF WriteChunk, treeVars, ShellTreeInv, Streams
<1>12. ASSUME NEW s \in Streams, ReadChunk(s) PROVE ShellTreeInv'
  BY <1>12 DEF ReadChunk, treeVars, ShellTreeInv, Streams
<1>13. ASSUME NEW s \in Streams, TakeChunk(s) PROVE ShellTreeInv'
  BY <1>13 DEF TakeChunk, treeVars, ShellTreeInv, Streams
<1>14. ASSUME NEW s \in Streams, DrainEnds(s) PROVE ShellTreeInv'
  BY <1>14 DEF DrainEnds, treeVars, ShellTreeInv, Streams
<1>15. ASSUME NEW s \in Streams, Render(s) PROVE ShellTreeInv'
  BY <1>15 DEF Render, treeVars, ShellTreeInv, Streams
<1>16. ASSUME UNCHANGED shellVars PROVE ShellTreeInv'
  BY <1>16 DEF shellVars, treeVars, ShellTreeInv, Streams
<1> QED
  BY <1>1, <1>2, <1>3, <1>4, <1>5, <1>6, <1>7, <1>8, <1>9, <1>10, <1>11, <1>12, <1>13, <1>14,
     <1>15, <1>16 DEF ShellNext

(* No process tree is left behind: of a managed process nothing outlives   *)
(* its handle or its manager, however start(), terminate(), close() and    *)
(* the exit of the root interleave; a shell that has been answered is      *)
(* gone with everything its job had (ProcessManager, ShellWorker.run).     *)
THEOREM TreesAreEnded == Spec => []NoTreeLeft
<1> DEFINE Inv == ManagerInv /\ ShellTreeInv
<1>1. Init => Inv
  BY InitManager, InitShellTree DEF Init, ProcessInit
<1>2. Inv /\ [Next]_vars => Inv'
  BY PlatformSteps, ProcessSteps, NextManager, NextShellTree
<1>3. Inv => NoTreeLeft
  BY ManagedDie DEF NoTreeLeft, ShellLeavesNoTree, ShellTreeInv
<1> QED  BY <1>1, <1>2, <1>3, PTL DEF Spec
-----------------------------------------------------------------------------
Kept == kept["stdout"] + kept["stderr"]
Taking == taking["stdout"] + taking["stderr"]
Total == total["stdout"] + total["stderr"]

OutputTypes ==
    /\ total \in [Streams -> Nat] /\ taking \in [Streams -> Nat] /\ kept \in [Streams -> Nat]
    /\ unread \in [Streams -> Nat] /\ text \in [Streams -> Nat]
    /\ remaining \in Nat /\ utf8Left \in Nat
    /\ drain \in [Streams -> {"idle", "reading", "ended"}]
    /\ truncated \in BOOLEAN /\ lost \in BOOLEAN /\ joined \in BOOLEAN

(* The first budget: what was read is kept, in somebody's hand, or lost,   *)
(* and nothing is lost before the budget is spent.                         *)
BudgetInv ==
    /\ Kept + remaining = MaxOutput
    /\ Kept + Taking <= Total
    /\ \A s \in Streams : drain[s] = "ended" => taking[s] = 0
    /\ shell \notin {"stderr", "done"} =>
         /\ lost <=> Kept + Taking < Total
         /\ lost => remaining = 0

(* The second budget, and the result as it is put together.                *)
TextInv ==
    /\ text["stdout"] + text["stderr"] + utf8Left <= MaxOutput
    /\ shell \notin {"stderr", "done"} => text["stdout"] = 0 /\ truncated = FALSE
    /\ shell # "done" => text["stderr"] = 0

(* Joined drains add nothing, so that totals and flags agree.              *)
JoinedInv ==
    /\ joined => /\ \A s \in Streams : drain[s] = "ended"
                 /\ shell \in {"stdout", "stderr", "done"}
    /\ joined /\ shell = "stderr" => (lost <=> truncated \/ Total > MaxOutput)
    /\ joined /\ shell = "done" => (truncated <=> lost)

OutputInv == OutputTypes /\ BudgetInv /\ TextInv /\ JoinedInv

LEMMA InitOutput == ShellInit => OutputInv
<1> SUFFICES ASSUME ShellInit PROVE OutputInv
  OBVIOUS
<1>1. OutputTypes
  BY ProcessAssumption DEF ShellInit, OutputTypes, Streams
<1>2. Kept = 0 /\ Taking = 0 /\ Total = 0
  BY DEF ShellInit, Streams, Kept, Taking, Total
<1>3. BudgetInv
  BY ProcessAssumption, <1>2 DEF ShellInit, BudgetInv, Streams
<1>4. TextInv /\ JoinedInv
  BY ProcessAssumption DEF ShellInit, TextInv, JoinedInv, Streams
<1> QED  BY <1>1, <1>3, <1>4 DEF OutputInv

LEMMA LeastNat == ASSUME NEW a \in Nat, NEW b \in Nat
                  PROVE  /\ Least(a, b) \in Nat /\ Least(a, b) <= a /\ Least(a, b) <= b
                         /\ Least(a, b) < a => Least(a, b) = b
  BY DEF Least

LEMMA EncodedNat == ASSUME NEW k \in Nat PROVE Encoded(k) \subseteq Nat
  BY DEF Encoded

LEMMA NextOutput == OutputInv /\ [ShellNext]_shellVars => OutputInv'
<1> SUFFICES ASSUME OutputInv, [ShellNext]_shellVars PROVE OutputInv'
  OBVIOUS
<1>0. OutputTypes /\ BudgetInv /\ TextInv /\ JoinedInv
  BY DEF OutputInv
<1>1. ASSUME RefuseShell PROVE OutputInv'
  <2>1. OutputTypes'
    BY <1>0, ProcessAssumption, <1>1 DEF RefuseShell, drainVars, resultVars, OutputTypes,
       OutputTypes, Kept, Taking, Total, Streams
  <2>2. BudgetInv'
    BY <1>0, ProcessAssumption, <1>1 DEF RefuseShell, drainVars, resultVars, OutputTypes,
       BudgetInv,
       Kept, Taking, Total, Streams
  <2>3. TextInv'
    BY <1>0, ProcessAssumption, <1>1 DEF RefuseShell, drainVars, resultVars, OutputTypes, TextInv,
       Kept, Taking, Total, Streams
  <2>4. JoinedInv'
    BY <1>0, ProcessAssumption, <1>1 DEF RefuseShell, drainVars, resultVars, OutputTypes,
       JoinedInv,
       Kept, Taking, Total, Streams
  <2> QED  BY <2>1, <2>2, <2>3, <2>4 DEF OutputInv
<1>2. ASSUME LaunchShell PROVE OutputInv'
  <2>1. OutputTypes'
    BY <1>0, ProcessAssumption, <1>2 DEF LaunchShell, drainVars, resultVars, OutputTypes,
       OutputTypes, Kept, Taking, Total, Streams
  <2>2. BudgetInv'
    BY <1>0, ProcessAssumption, <1>2 DEF LaunchShell, drainVars, resultVars, OutputTypes,
       BudgetInv,
       Kept, Taking, Total, Streams
  <2>3. TextInv'
    BY <1>0, ProcessAssumption, <1>2 DEF LaunchShell, drainVars, resultVars, OutputTypes, TextInv,
       Kept, Taking, Total, Streams
  <2>4. JoinedInv'
    BY <1>0, ProcessAssumption, <1>2 DEF LaunchShell, drainVars, resultVars, OutputTypes,
       JoinedInv,
       Kept, Taking, Total, Streams
  <2> QED  BY <2>1, <2>2, <2>3, <2>4 DEF OutputInv
<1>3. ASSUME AssignShellJob PROVE OutputInv'
  <2>1. OutputTypes'
    BY <1>0, ProcessAssumption, <1>3 DEF AssignShellJob, resultVars, OutputTypes, OutputTypes,
       Kept,
       Taking, Total, Streams
  <2>2. BudgetInv'
    BY <1>0, ProcessAssumption, <1>3 DEF AssignShellJob, resultVars, OutputTypes, BudgetInv, Kept,
       Taking, Total, Streams
  <2>3. TextInv'
    BY <1>0, ProcessAssumption, <1>3 DEF AssignShellJob, resultVars, OutputTypes, TextInv, Kept,
       Taking, Total, Streams
  <2>4. JoinedInv'
    BY <1>0, ProcessAssumption, <1>3 DEF AssignShellJob, resultVars, OutputTypes, JoinedInv, Kept,
       Taking, Total, Streams
  <2> QED  BY <2>1, <2>2, <2>3, <2>4 DEF OutputInv
<1>4. ASSUME ShellSpawn PROVE OutputInv'
  <2>1. OutputTypes'
    BY <1>0, ProcessAssumption, <1>4 DEF ShellSpawn, drainVars, resultVars, OutputTypes,
       OutputTypes,
       Kept, Taking, Total, Streams
  <2>2. BudgetInv'
    BY <1>0, ProcessAssumption, <1>4 DEF ShellSpawn, drainVars, resultVars, OutputTypes,
       BudgetInv,
       Kept, Taking, Total, Streams
  <2>3. TextInv'
    BY <1>0, ProcessAssumption, <1>4 DEF ShellSpawn, drainVars, resultVars, OutputTypes, TextInv,
       Kept, Taking, Total, Streams
  <2>4. JoinedInv'
    BY <1>0, ProcessAssumption, <1>4 DEF ShellSpawn, drainVars, resultVars, OutputTypes,
       JoinedInv,
       Kept, Taking, Total, Streams
  <2> QED  BY <2>1, <2>2, <2>3, <2>4 DEF OutputInv
<1>5. ASSUME ShellExits PROVE OutputInv'
  <2>1. OutputTypes'
    BY <1>0, ProcessAssumption, <1>5 DEF ShellExits, drainVars, resultVars, OutputTypes,
       OutputTypes,
       Kept, Taking, Total, Streams
  <2>2. BudgetInv'
    BY <1>0, ProcessAssumption, <1>5 DEF ShellExits, drainVars, resultVars, OutputTypes,
       BudgetInv,
       Kept, Taking, Total, Streams
  <2>3. TextInv'
    BY <1>0, ProcessAssumption, <1>5 DEF ShellExits, drainVars, resultVars, OutputTypes, TextInv,
       Kept, Taking, Total, Streams
  <2>4. JoinedInv'
    BY <1>0, ProcessAssumption, <1>5 DEF ShellExits, drainVars, resultVars, OutputTypes,
       JoinedInv,
       Kept, Taking, Total, Streams
  <2> QED  BY <2>1, <2>2, <2>3, <2>4 DEF OutputInv
<1>6. ASSUME WaitReturns PROVE OutputInv'
  <2>1. OutputTypes'
    BY <1>0, ProcessAssumption, <1>6 DEF WaitReturns, drainVars, resultVars, OutputTypes,
       OutputTypes, Kept, Taking, Total, Streams
  <2>2. BudgetInv'
    BY <1>0, ProcessAssumption, <1>6 DEF WaitReturns, drainVars, resultVars, OutputTypes,
       BudgetInv,
       Kept, Taking, Total, Streams
  <2>3. TextInv'
    BY <1>0, ProcessAssumption, <1>6 DEF WaitReturns, drainVars, resultVars, OutputTypes, TextInv,
       Kept, Taking, Total, Streams
  <2>4. JoinedInv'
    BY <1>0, ProcessAssumption, <1>6 DEF WaitReturns, drainVars, resultVars, OutputTypes,
       JoinedInv,
       Kept, Taking, Total, Streams
  <2> QED  BY <2>1, <2>2, <2>3, <2>4 DEF OutputInv
<1>7. ASSUME ShellTimeout PROVE OutputInv'
  <2>1. OutputTypes'
    BY <1>0, ProcessAssumption, <1>7 DEF ShellTimeout, drainVars, resultVars, OutputTypes,
       OutputTypes, Kept, Taking, Total, Streams
  <2>2. BudgetInv'
    BY <1>0, ProcessAssumption, <1>7 DEF ShellTimeout, drainVars, resultVars, OutputTypes,
       BudgetInv,
       Kept, Taking, Total, Streams
  <2>3. TextInv'
    BY <1>0, ProcessAssumption, <1>7 DEF ShellTimeout, drainVars, resultVars, OutputTypes,
       TextInv,
       Kept, Taking, Total, Streams
  <2>4. JoinedInv'
    BY <1>0, ProcessAssumption, <1>7 DEF ShellTimeout, drainVars, resultVars, OutputTypes,
       JoinedInv,
       Kept, Taking, Total, Streams
  <2> QED  BY <2>1, <2>2, <2>3, <2>4 DEF OutputInv
<1>8. ASSUME KillTree PROVE OutputInv'
  <2>1. OutputTypes'
    BY <1>0, ProcessAssumption, <1>8 DEF KillTree, drainVars, resultVars, OutputTypes,
       OutputTypes,
       Kept, Taking, Total, Streams
  <2>2. BudgetInv'
    BY <1>0, ProcessAssumption, <1>8 DEF KillTree, drainVars, resultVars, OutputTypes, BudgetInv,
       Kept, Taking, Total, Streams
  <2>3. TextInv'
    BY <1>0, ProcessAssumption, <1>8 DEF KillTree, drainVars, resultVars, OutputTypes, TextInv,
       Kept,
       Taking, Total, Streams
  <2>4. JoinedInv'
    BY <1>0, ProcessAssumption, <1>8 DEF KillTree, drainVars, resultVars, OutputTypes, JoinedInv,
       Kept, Taking, Total, Streams
  <2> QED  BY <2>1, <2>2, <2>3, <2>4 DEF OutputInv
<1>9. ASSUME CloseShellJob PROVE OutputInv'
  <2>1. OutputTypes'
    BY <1>0, ProcessAssumption, <1>9 DEF CloseShellJob, drainVars, resultVars, OutputTypes,
       OutputTypes, Kept, Taking, Total, Streams
  <2>2. BudgetInv'
    BY <1>0, ProcessAssumption, <1>9 DEF CloseShellJob, drainVars, resultVars, OutputTypes,
       BudgetInv, Kept, Taking, Total, Streams
  <2>3. TextInv'
    BY <1>0, ProcessAssumption, <1>9 DEF CloseShellJob, drainVars, resultVars, OutputTypes,
       TextInv,
       Kept, Taking, Total, Streams
  <2>4. JoinedInv'
    BY <1>0, ProcessAssumption, <1>9 DEF CloseShellJob, drainVars, resultVars, OutputTypes,
       JoinedInv, Kept, Taking, Total, Streams
  <2> QED  BY <2>1, <2>2, <2>3, <2>4 DEF OutputInv
<1>10. ASSUME JoinDrains PROVE OutputInv'
  <2>1. OutputTypes'
    BY <1>0, ProcessAssumption, <1>10 DEF JoinDrains, drainVars, OutputTypes, OutputTypes, Kept,
       Taking, Total, Streams
  <2>2. BudgetInv'
    BY <1>0, ProcessAssumption, <1>10 DEF JoinDrains, drainVars, OutputTypes, BudgetInv, Kept,
       Taking,
       Total, Streams
  <2>3. TextInv'
    BY <1>0, ProcessAssumption, <1>10 DEF JoinDrains, drainVars, OutputTypes, TextInv, Kept,
       Taking,
       Total, Streams
  <2>4. JoinedInv'
    BY <1>0, ProcessAssumption, <1>10 DEF JoinDrains, drainVars, OutputTypes, JoinedInv, Kept,
       Taking,
       Total, Streams
  <2> QED  BY <2>1, <2>2, <2>3, <2>4 DEF OutputInv
<1>11. ASSUME NEW s \in Streams, WriteChunk(s) PROVE OutputInv'
  <2>1. OutputTypes'
    BY <1>0, ProcessAssumption, <1>11 DEF WriteChunk, resultVars, OutputTypes, OutputTypes, Kept,
       Taking, Total, Streams
  <2>2. BudgetInv'
    BY <1>0, ProcessAssumption, <1>11 DEF WriteChunk, resultVars, OutputTypes, BudgetInv, Kept,
       Taking, Total, Streams
  <2>3. TextInv'
    BY <1>0, ProcessAssumption, <1>11 DEF WriteChunk, resultVars, OutputTypes, TextInv, Kept,
       Taking,
       Total, Streams
  <2>4. JoinedInv'
    BY <1>0, ProcessAssumption, <1>11 DEF WriteChunk, resultVars, OutputTypes, JoinedInv, Kept,
       Taking, Total, Streams
  <2> QED  BY <2>1, <2>2, <2>3, <2>4 DEF OutputInv
<1>12. ASSUME NEW s \in Streams, ReadChunk(s) PROVE OutputInv'
  <2>1. OutputTypes'
    BY <1>0, ProcessAssumption, <1>12 DEF ReadChunk, resultVars, OutputTypes, OutputTypes, Kept,
       Taking, Total, Streams
  <2>2. BudgetInv'
    BY <1>0, ProcessAssumption, <1>12 DEF ReadChunk, resultVars, OutputTypes, BudgetInv, Kept,
       Taking,
       Total, Streams
  <2>3. TextInv'
    BY <1>0, ProcessAssumption, <1>12 DEF ReadChunk, resultVars, OutputTypes, TextInv, Kept,
       Taking,
       Total, Streams
  <2>4. JoinedInv'
    BY <1>0, ProcessAssumption, <1>12 DEF ReadChunk, resultVars, OutputTypes, JoinedInv, Kept,
       Taking,
       Total, Streams
  <2> QED  BY <2>1, <2>2, <2>3, <2>4 DEF OutputInv
<1>13. ASSUME NEW s \in Streams, TakeChunk(s) PROVE OutputInv'
  <2>0. s = "stdout" \/ s = "stderr"
    BY DEF Streams
  <2> DEFINE k == Least(taking[s], remaining)
  <2>k. /\ k \in Nat /\ k <= taking[s] /\ k <= remaining /\ (k < taking[s] => k = remaining)
        /\ taking[s] \in Nat /\ taking[s] > 0
    BY <1>0, <1>13, LeastNat DEF OutputTypes, TakeChunk
  <2>a. /\ kept' = [kept EXCEPT ![s] = kept[s] + k] /\ remaining' = remaining - k
        /\ lost' = (lost \/ k < taking[s]) /\ taking' = [taking EXCEPT ![s] = 0]
        /\ UNCHANGED <<shell, drain, unread, total, text, joined, utf8Left, truncated>>
    BY <1>13 DEF TakeChunk
  <2> HIDE DEF k
  <2>1. OutputTypes'
    BY <1>0, <2>k, <2>a DEF OutputTypes
  <2>s. /\ Kept' = Kept + k /\ Taking' = Taking - taking[s] /\ Total' = Total
        /\ Kept \in Nat /\ Taking \in Nat /\ Total \in Nat /\ taking[s] <= Taking
    BY <1>0, <2>0, <2>k, <2>a DEF OutputTypes, Streams, Kept, Taking, Total
  <2>2. BudgetInv'
    <3>1. (Kept + remaining = MaxOutput /\ Kept + Taking <= Total)'
      BY <1>0, ProcessAssumption, <2>s, <2>k, <2>a DEF BudgetInv, OutputTypes
    <3>2. (\A q \in Streams : drain[q] = "ended" => taking[q] = 0)'
      BY <1>0, <2>0, <2>a DEF BudgetInv, OutputTypes, Streams
    <3>3. ASSUME shell \notin {"stderr", "done"}
          PROVE  (lost' <=> Kept' + Taking' < Total') /\ (lost' => remaining' = 0)
      <4>1. (lost <=> Kept + Taking < Total) /\ (lost => remaining = 0) /\ remaining \in Nat
            /\ Kept + Taking <= Total
        BY <1>0, <3>3 DEF BudgetInv, OutputTypes
      <4>2. CASE k < taking[s]
        <5>1. lost'
          BY <4>2, <2>a
        <5>2. Kept' + Taking' < Total' /\ remaining' = 0
          <6>1. Kept + k + (Taking - taking[s]) < Kept + Taking
            BY <4>2, <2>s, <2>k
          <6>2. k = remaining /\ remaining' = remaining - k
            BY <4>2, <2>k, <2>a
          <6> QED  BY <4>1, <6>1, <6>2, <2>s, <2>k
        <5> QED  BY <5>1, <5>2
      <4>3. CASE ~(k < taking[s])
        <5>1. lost' <=> lost
          BY <4>3, <2>a
        <5>2. k = taking[s] /\ remaining' = remaining - k
          BY <4>3, <2>k, <2>a
        <5>3. Kept' + Taking' = Kept + Taking /\ Total' = Total
          BY <5>2, <2>s, <2>k
        <5>4. remaining = 0 => remaining' = 0
          BY <5>2, <2>k, <4>1
        <5> QED  BY <4>1, <5>1, <5>3, <5>4
      <4> QED  BY <4>2, <4>3
    <3> QED  BY <3>1, <3>2, <3>3, <2>a DEF BudgetInv
  <2>3. TextInv'
    BY <1>0, <2>a DEF TextInv
  <2>4. JoinedInv'
    <3>1. ~joined
      BY <1>0, <2>k DEF JoinedInv, BudgetInv
    <3> QED  BY <3>1, <2>a DEF JoinedInv
  <2> QED  BY <2>1, <2>2, <2>3, <2>4 DEF OutputInv
<1>14. ASSUME NEW s \in Streams, DrainEnds(s) PROVE OutputInv'
  <2>1. OutputTypes'
    BY <1>0, ProcessAssumption, <1>14 DEF DrainEnds, resultVars, OutputTypes, OutputTypes, Kept,
       Taking, Total, Streams
  <2>2. BudgetInv'
    BY <1>0, ProcessAssumption, <1>14 DEF DrainEnds, resultVars, OutputTypes, BudgetInv, Kept,
       Taking,
       Total, Streams
  <2>3. TextInv'
    BY <1>0, ProcessAssumption, <1>14 DEF DrainEnds, resultVars, OutputTypes, TextInv, Kept,
       Taking,
       Total, Streams
  <2>4. JoinedInv'
    BY <1>0, ProcessAssumption, <1>14 DEF DrainEnds, resultVars, OutputTypes, JoinedInv, Kept,
       Taking,
       Total, Streams
  <2> QED  BY <2>1, <2>2, <2>3, <2>4 DEF OutputInv
<1>15. ASSUME NEW s \in Streams, Render(s) PROVE OutputInv'
  <2>0. (s = "stdout" \/ s = "stderr") /\ kept[s] \in Nat
    BY <1>0 DEF Streams, OutputTypes
  <2> PICK n \in Encoded(kept[s]) :
         /\ utf8Left' = utf8Left - Least(n, utf8Left)
         /\ lost' = (lost \/ Least(n, utf8Left) < n)
         /\ \E cut \in {0, 1} : /\ cut > 0 => Least(n, utf8Left) < n /\ Least(n, utf8Left) > 0
                                /\ text' = [text EXCEPT ![s] = Least(n, utf8Left) - cut]
         /\ truncated' = (\/ truncated \/ Least(n, utf8Left) < n
                          \/ s = "stderr" /\ total["stdout"] + total["stderr"] > MaxOutput)
    BY <1>15 DEF Render
  <2> DEFINE k == Least(n, utf8Left)
  <2>k. n \in Nat /\ k \in Nat /\ k <= utf8Left /\ utf8Left \in Nat
    BY <1>0, <2>0, LeastNat, EncodedNat DEF OutputTypes
  <2>t. PICK t \in Nat : t <= k /\ text' = [text EXCEPT ![s] = t]
    <3>1. PICK cut \in {0, 1} : /\ cut > 0 => k < n /\ k > 0
                                /\ text' = [text EXCEPT ![s] = k - cut]
      OBVIOUS
    <3>2. k - cut \in Nat /\ k - cut <= k
      BY <2>k, <3>1
    <3> QED  BY <3>1, <3>2
  <2>a. /\ utf8Left' = utf8Left - k /\ lost' = (lost \/ k < n)
        /\ truncated' = (truncated \/ k < n \/ (s = "stderr" /\ Total > MaxOutput))
    BY DEF Total
  <2>b. /\ shell = s /\ shell' = IF s = "stdout" THEN "stderr" ELSE "done"
        /\ UNCHANGED <<drain, unread, total, taking, kept, remaining, joined>>
    BY <1>15 DEF Render, drainVars
  <2> HIDE DEF k
  <2>1. OutputTypes'
    BY <1>0, <2>k, <2>t, <2>a, <2>b DEF OutputTypes
  <2>s. Kept' = Kept /\ Taking' = Taking /\ Total' = Total
    BY <2>b DEF Kept, Taking, Total
  <2>2. BudgetInv'
    BY <1>0, <2>0, <2>s, <2>b DEF BudgetInv
  <2>3. TextInv'
    BY <1>0, <2>0, <2>k, <2>t, <2>a, <2>b, ProcessAssumption DEF TextInv, OutputTypes, Streams
  <2>4. JoinedInv'
    <3>0. (joined => \A q \in Streams : drain[q] = "ended")'
      BY <1>0, <2>b DEF JoinedInv
    <3>1. CASE s = "stdout"
      <4>1. ASSUME joined PROVE lost <=> Total > MaxOutput
        <5>1. Taking = 0
          BY <1>0, <4>1 DEF JoinedInv, BudgetInv, Taking, Streams
        <5>2. Kept \in Nat /\ Total \in Nat /\ remaining \in Nat
          BY <1>0 DEF OutputTypes, Kept, Total, Streams
        <5>3. /\ Kept + remaining = MaxOutput /\ (lost <=> Kept + Taking < Total)
              /\ lost => remaining = 0
          BY <1>0, <2>b, <3>1 DEF BudgetInv
        <5> QED  BY <5>1, <5>2, <5>3, ProcessAssumption
      <4>2. truncated = FALSE
        BY <1>0, <2>b, <3>1 DEF TextInv
      <4> QED  BY <3>0, <3>1, <4>1, <4>2, <2>a, <2>b, <2>s DEF JoinedInv
    <3>2. CASE s = "stderr"
      BY <1>0, <3>0, <3>2, <2>a, <2>b, <2>s DEF JoinedInv
    <3> QED  BY <2>0, <3>1, <3>2
  <2> QED  BY <2>1, <2>2, <2>3, <2>4 DEF OutputInv
<1>16. ASSUME UNCHANGED shellVars PROVE OutputInv'
  <2>1. OutputTypes'
    BY <1>0, ProcessAssumption, <1>16 DEF shellVars, drainVars, resultVars, OutputTypes,
       OutputTypes,
       Kept, Taking, Total, Streams
  <2>2. BudgetInv'
    BY <1>0, ProcessAssumption, <1>16 DEF shellVars, drainVars, resultVars, OutputTypes,
       BudgetInv,
       Kept, Taking, Total, Streams
  <2>3. TextInv'
    BY <1>0, ProcessAssumption, <1>16 DEF shellVars, drainVars, resultVars, OutputTypes, TextInv,
       Kept, Taking, Total, Streams
  <2>4. JoinedInv'
    BY <1>0, ProcessAssumption, <1>16 DEF shellVars, drainVars, resultVars, OutputTypes,
       JoinedInv,
       Kept, Taking, Total, Streams
  <2> QED  BY <2>1, <2>2, <2>3, <2>4 DEF OutputInv
<1> QED
  BY <1>1, <1>2, <1>3, <1>4, <1>5, <1>6, <1>7, <1>8, <1>9, <1>10, <1>11, <1>12, <1>13, <1>14,
     <1>15, <1>16 DEF ShellNext

(* The answer to a shell command never holds more than max_output_bytes of *)
(* text, and when both drains had ended its truncated flag says exactly    *)
(* whether something that was read is missing, for every budget and every  *)
(* way the two drain threads and the command interleave.                   *)
THEOREM OutputIsHonest == Spec => []ShellOutputHonest
<1>1. Init => OutputInv
  BY InitOutput DEF Init, ProcessInit
<1>2. OutputInv /\ [Next]_vars => OutputInv'
  BY PlatformSteps, ProcessSteps, NextOutput
<1>3. OutputInv => ShellOutputHonest
  BY ProcessAssumption
     DEF OutputInv, OutputTypes, TextInv, JoinedInv, ShellOutputHonest, Streams
<1> QED  BY <1>1, <1>2, <1>3, PTL DEF Spec
-----------------------------------------------------------------------------
(* Who holds the handle of an exchange, by where its two threads are.      *)
Untaken(r) == canceller[r] \in {"idle", "done"}
TakenOver(r) == /\ canceller[r] \in {"taken", "cancelled", "failed"}
                /\ pipe[r] = "open" /\ closes[r] = 0

ExchangeInv(r) ==
    /\ exchange[r] \in {"idle", "locked"} =>
         Untaken(r) /\ pipe[r] = "none" /\ closes[r] = 0
    /\ exchange[r] \in {"connected", "exiting"} =>
         Untaken(r) /\ pipe[r] = "open" /\ closes[r] = 0
    /\ exchange[r] \in {"exchanging", "leaving"} =>
         \/ active = r /\ canceller[r] = "idle" /\ pipe[r] = "open" /\ closes[r] = 0
         \/ active # r /\ TakenOver(r)
         \/ active # r /\ canceller[r] = "done" /\ pipe[r] = "closed" /\ closes[r] = 1
    /\ exchange[r] = "done" =>
         TakenOver(r) \/ (Untaken(r) /\ pipe[r] # "open" /\ closes[r] \in {0, 1})
    /\ active = r => exchange[r] \in {"exchanging", "leaving"}
    /\ canceller[r] # "idle" => r \in abandoned
    /\ exchange[r] \in {"locked", "connected", "exchanging", "leaving", "exiting"} =>
         lockedBy = r

ClientTypes ==
    /\ exchange \in [Requests -> {"idle", "locked", "connected", "exchanging", "leaving",
                                  "exiting", "done"}]
    /\ canceller \in [Requests -> {"idle", "taken", "cancelled", "failed", "done"}]
    /\ pipe \in [Requests -> {"none", "open", "closed"}]
    /\ closes \in [Requests -> Nat]

ClientInv == ClientTypes /\ \A r \in Requests : ExchangeInv(r)

LEMMA InitClient == ClientInit => ClientInv
  BY ClientAssumption DEF ClientInit, ClientInv, ClientTypes, ExchangeInv, Untaken, TakenOver

LEMMA NextClient == ClientInv /\ [ClientNext]_clientVars => ClientInv'
<1> SUFFICES ASSUME ClientInv, [ClientNext]_clientVars PROVE ClientInv'
  OBVIOUS
<1>1. ASSUME NEW r \in Requests, TakeLock(r) PROVE ClientInv'
  <2>1. ClientTypes'
    BY <1>1 DEF TakeLock, ClientInv, ClientTypes
  <2>2. ExchangeInv(r)'
    BY <1>1, ClientAssumption
       DEF TakeLock, ClientInv, ClientTypes, ExchangeInv, Untaken, TakenOver
  <2>3. ASSUME NEW q \in Requests, q # r PROVE ExchangeInv(q)'
    BY <1>1, <2>3, ClientAssumption
       DEF TakeLock, ClientInv, ClientTypes, ExchangeInv, Untaken, TakenOver
  <2> QED  BY <2>1, <2>2, <2>3 DEF ClientInv
<1>2. ASSUME NEW r \in Requests, OpenPipe(r) PROVE ClientInv'
  <2>1. ClientTypes'
    BY <1>2 DEF OpenPipe, Leave, ClientInv, ClientTypes
  <2>2. ExchangeInv(r)'
    BY <1>2, ClientAssumption
       DEF OpenPipe, Leave, ClientInv, ClientTypes, ExchangeInv, Untaken, TakenOver
  <2>3. ASSUME NEW q \in Requests, q # r PROVE ExchangeInv(q)'
    BY <1>2, <2>3, ClientAssumption
       DEF OpenPipe, Leave, ClientInv, ClientTypes, ExchangeInv, Untaken, TakenOver
  <2> QED  BY <2>1, <2>2, <2>3 DEF ClientInv
<1>3. ASSUME NEW r \in Requests, Activate(r) PROVE ClientInv'
  <2>1. ClientTypes'
    BY <1>3 DEF Activate, Exit, Leave, ClientInv, ClientTypes
  <2>2. ExchangeInv(r)'
    BY <1>3, ClientAssumption
       DEF Activate, Exit, Leave, ClientInv, ClientTypes, ExchangeInv, Untaken, TakenOver
  <2>3. ASSUME NEW q \in Requests, q # r PROVE ExchangeInv(q)'
    BY <1>3, <2>3, ClientAssumption
       DEF Activate, Exit, Leave, ClientInv, ClientTypes, ExchangeInv, Untaken, TakenOver
  <2> QED  BY <2>1, <2>2, <2>3 DEF ClientInv
<1>4. ASSUME NEW r \in Requests, Exchanged(r) PROVE ClientInv'
  <2>1. ClientTypes'
    BY <1>4 DEF Exchanged, ClientInv, ClientTypes
  <2>2. ExchangeInv(r)'
    BY <1>4, ClientAssumption
       DEF Exchanged, ClientInv, ClientTypes, ExchangeInv, Untaken, TakenOver
  <2>3. ASSUME NEW q \in Requests, q # r PROVE ExchangeInv(q)'
    BY <1>4, <2>3, ClientAssumption
       DEF Exchanged, ClientInv, ClientTypes, ExchangeInv, Untaken, TakenOver
  <2> QED  BY <2>1, <2>2, <2>3 DEF ClientInv
<1>5. ASSUME NEW r \in Requests, Release(r) PROVE ClientInv'
  <2>1. ClientTypes'
    BY <1>5 DEF Release, Leave, ClientInv, ClientTypes
  <2>2. ExchangeInv(r)'
    BY <1>5, ClientAssumption
       DEF Release, Leave, ClientInv, ClientTypes, ExchangeInv, Untaken, TakenOver
  <2>3. ASSUME NEW q \in Requests, q # r PROVE ExchangeInv(q)'
    BY <1>5, <2>3, ClientAssumption
       DEF Release, Leave, ClientInv, ClientTypes, ExchangeInv, Untaken, TakenOver
  <2> QED  BY <2>1, <2>2, <2>3 DEF ClientInv
<1>6. ASSUME NEW r \in Requests, ReleaseExit(r) PROVE ClientInv'
  <2>1. ClientTypes'
    BY <1>6 DEF ReleaseExit, Exit, Leave, ClientInv, ClientTypes
  <2>2. ExchangeInv(r)'
    BY <1>6, ClientAssumption
       DEF ReleaseExit, Exit, Leave, ClientInv, ClientTypes, ExchangeInv, Untaken, TakenOver
  <2>3. ASSUME NEW q \in Requests, q # r PROVE ExchangeInv(q)'
    BY <1>6, <2>3, ClientAssumption
       DEF ReleaseExit, Exit, Leave, ClientInv, ClientTypes, ExchangeInv, Untaken, TakenOver
  <2> QED  BY <2>1, <2>2, <2>3 DEF ClientInv
<1>7. ASSUME NEW r \in Requests, Abandon(r) PROVE ClientInv'
  <2>1. ClientTypes'
    BY <1>7 DEF Abandon, ClientInv, ClientTypes
  <2>2. ExchangeInv(r)'
    BY <1>7, ClientAssumption
       DEF Abandon, ClientInv, ClientTypes, ExchangeInv, Untaken, TakenOver
  <2>3. ASSUME NEW q \in Requests, q # r PROVE ExchangeInv(q)'
    BY <1>7, <2>3, ClientAssumption
       DEF Abandon, ClientInv, ClientTypes, ExchangeInv, Untaken, TakenOver
  <2> QED  BY <2>1, <2>2, <2>3 DEF ClientInv
<1>8. ASSUME NEW r \in Requests, CancelTake(r) PROVE ClientInv'
  <2>1. ClientTypes'
    BY <1>8 DEF CancelTake, ClientInv, ClientTypes
  <2>2. ExchangeInv(r)'
    BY <1>8, ClientAssumption
       DEF CancelTake, ClientInv, ClientTypes, ExchangeInv, Untaken, TakenOver
  <2>3. ASSUME NEW q \in Requests, q # r PROVE ExchangeInv(q)'
    BY <1>8, <2>3, ClientAssumption
       DEF CancelTake, ClientInv, ClientTypes, ExchangeInv, Untaken, TakenOver
  <2> QED  BY <2>1, <2>2, <2>3 DEF ClientInv
<1>9. ASSUME NEW r \in Requests, CancelIo(r) PROVE ClientInv'
  <2>1. ClientTypes'
    BY <1>9 DEF CancelIo, ClientInv, ClientTypes
  <2>2. ExchangeInv(r)'
    BY <1>9, ClientAssumption
       DEF CancelIo, ClientInv, ClientTypes, ExchangeInv, Untaken, TakenOver
  <2>3. ASSUME NEW q \in Requests, q # r PROVE ExchangeInv(q)'
    BY <1>9, <2>3, ClientAssumption
       DEF CancelIo, ClientInv, ClientTypes, ExchangeInv, Untaken, TakenOver
  <2> QED  BY <2>1, <2>2, <2>3 DEF ClientInv
<1>10. ASSUME NEW r \in Requests, CancelExit(r) PROVE ClientInv'
  <2>1. ClientTypes'
    BY <1>10 DEF CancelExit, Exit, ClientInv, ClientTypes
  <2>2. ExchangeInv(r)'
    BY <1>10, ClientAssumption
       DEF CancelExit, Exit, ClientInv, ClientTypes, ExchangeInv, Untaken, TakenOver
  <2>3. ASSUME NEW q \in Requests, q # r PROVE ExchangeInv(q)'
    BY <1>10, <2>3, ClientAssumption
       DEF CancelExit, Exit, ClientInv, ClientTypes, ExchangeInv, Untaken, TakenOver
  <2> QED  BY <2>1, <2>2, <2>3 DEF ClientInv
<1>11. ASSUME UNCHANGED clientVars PROVE ClientInv'
  BY <1>11 DEF clientVars, ClientInv, ClientTypes, ExchangeInv, Untaken, TakenOver
<1> QED
  BY <1>1, <1>2, <1>3, <1>4, <1>5, <1>6, <1>7, <1>8, <1>9, <1>10, <1>11 DEF ClientNext

LEMMA ClientCloses == ClientInv => ClosedOnce
<1> SUFFICES ASSUME ClientInv, NEW r \in Requests
             PROVE  /\ closes[r] <= 1
                    /\ exchange[r] = "done" /\ canceller[r] \notin {"taken", "cancelled", "failed"}
                         => pipe[r] # "open"
  BY DEF ClosedOnce
<1>1. ExchangeInv(r) /\ exchange[r] \in {"idle", "locked", "connected", "exchanging", "leaving",
                                         "exiting", "done"}
  BY DEF ClientInv, ClientTypes
<1> QED  BY <1>1 DEF ExchangeInv, Untaken, TakenOver
-----------------------------------------------------------------------------
(* Where a connection is while the watcher sets it up, serves it and drops *)
(* it: the registry never names one whose handle was never opened, nor one *)
(* that is not registered yet or has just been unregistered.               *)
WatcherTypes ==
    /\ watcher \in {"loop", "connecting", "hello", "registering", "registered", "serving",
                    "reading", "final", "disconnecting", "closing", "clearing", "waiting",
                    "ended"}
    /\ mine \in 0..MaxPipes /\ fin \in 0..MaxPipes /\ current \in 0..MaxPipes
    /\ registry \in 0..MaxPipes /\ victim \in 0..MaxPipes
    /\ handle \in [Pipes -> {"none", "open", "closed"}]

CurrentInv ==
    /\ watcher \in {"hello", "registering", "registered", "serving", "reading"} => mine \in Pipes
    /\ watcher \in {"loop", "connecting", "hello", "registering", "registered", "waiting",
                    "ended"} => current = 0
    /\ watcher \in {"disconnecting", "closing", "clearing"} =>
         current \in {0, fin} /\ fin \in Pipes
    /\ killer \in {"took", "unregistered"} => victim \in Pipes

RegistryInv ==
    /\ registry # 0 => handle[registry] # "none"
    /\ watcher \in {"hello", "registering"} => registry # mine /\ handle[mine] # "none"
    /\ watcher \in {"closing", "clearing"} => registry # fin
    /\ watcher = "clearing" => handle[fin] # "open"

WatcherInv == WatcherTypes /\ CurrentInv /\ RegistryInv /\ NoOrphan

LEMMA InitWatcher == WatcherInit => WatcherInv
  BY WatcherAssumption
     DEF WatcherInit, WatcherInv, WatcherTypes, CurrentInv, RegistryInv, NoOrphan, Pipes

LEMMA NextWatcher == WatcherInv /\ [WatcherNext]_watcherVars => WatcherInv'
<1> SUFFICES ASSUME WatcherInv, [WatcherNext]_watcherVars PROVE WatcherInv'
  OBVIOUS
<1>0. WatcherTypes /\ CurrentInv /\ RegistryInv /\ NoOrphan
  BY DEF WatcherInv
<1>1. ASSUME Loop PROVE WatcherInv'
  <2>1. WatcherTypes'
    BY <1>0, WatcherAssumption, <1>1 DEF Loop, Go, killerVars, registryVars, WatcherTypes,
       CurrentInv, Pipes
  <2>2. CurrentInv'
    BY <1>0, WatcherAssumption, <1>1 DEF Loop, Go, killerVars, registryVars, WatcherTypes,
       CurrentInv, Pipes
  <2>3. RegistryInv'
    BY <1>0, WatcherAssumption, <1>1
       DEF Loop, Go, killerVars, registryVars, WatcherTypes, CurrentInv, RegistryInv, Pipes
  <2>4. ASSUME NEW k \in Pipes, handle'[k] = "open" PROVE WillClose(k)'
    BY <1>0, WatcherAssumption, <1>1, <2>4
       DEF Loop, Go, killerVars, registryVars, WatcherTypes, CurrentInv, RegistryInv,
           NoOrphan, WillClose, WillUnregister, Setting, Pipes
  <2>5. ASSUME registry' # 0 PROVE WillUnregister(registry)'
    BY <1>0, WatcherAssumption, <1>1, <2>5
       DEF Loop, Go, killerVars, registryVars, WatcherTypes, CurrentInv, RegistryInv,
           NoOrphan, WillUnregister, Setting, Pipes
  <2> QED  BY <2>1, <2>2, <2>3, <2>4, <2>5 DEF WatcherInv, NoOrphan
<1>2. ASSUME ConnectPipe PROVE WatcherInv'
  <2>1. WatcherTypes'
    BY <1>0, WatcherAssumption, <1>2 DEF ConnectPipe, Go, killerVars, registryVars,
       WatcherTypes, CurrentInv, Pipes
  <2>2. CurrentInv'
    BY <1>0, WatcherAssumption, <1>2 DEF ConnectPipe, Go, killerVars, registryVars,
       WatcherTypes, CurrentInv, Pipes
  <2>3. RegistryInv'
    BY <1>0, WatcherAssumption, <1>2
       DEF ConnectPipe, Go, killerVars, registryVars, WatcherTypes, CurrentInv, RegistryInv, Pipes
  <2>4. ASSUME NEW k \in Pipes, handle'[k] = "open" PROVE WillClose(k)'
    BY <1>0, WatcherAssumption, <1>2, <2>4
       DEF ConnectPipe, Go, killerVars, registryVars, WatcherTypes, CurrentInv, RegistryInv,
           NoOrphan, WillClose, WillUnregister, Setting, Pipes
  <2>5. ASSUME registry' # 0 PROVE WillUnregister(registry)'
    BY <1>0, WatcherAssumption, <1>2, <2>5
       DEF ConnectPipe, Go, killerVars, registryVars, WatcherTypes, CurrentInv, RegistryInv,
           NoOrphan, WillUnregister, Setting, Pipes
  <2> QED  BY <2>1, <2>2, <2>3, <2>4, <2>5 DEF WatcherInv, NoOrphan
<1>3. ASSUME Handshake PROVE WatcherInv'
  <2>1. WatcherTypes'
    BY <1>0, WatcherAssumption, <1>3 DEF Handshake, Closed, Go, killerVars, registryVars,
       WatcherTypes, CurrentInv, Pipes
  <2>2. CurrentInv'
    BY <1>0, WatcherAssumption, <1>3 DEF Handshake, Closed, Go, killerVars, registryVars,
       WatcherTypes, CurrentInv, Pipes
  <2>3. RegistryInv'
    BY <1>0, WatcherAssumption, <1>3
       DEF Handshake, Closed, Go, killerVars, registryVars, WatcherTypes, CurrentInv,
           RegistryInv, Pipes
  <2>4. ASSUME NEW k \in Pipes, handle'[k] = "open" PROVE WillClose(k)'
    BY <1>0, WatcherAssumption, <1>3, <2>4
       DEF Handshake, Closed, Go, killerVars, registryVars, WatcherTypes, CurrentInv, RegistryInv,
           NoOrphan, WillClose, WillUnregister, Setting, Pipes
  <2>5. ASSUME registry' # 0 PROVE WillUnregister(registry)'
    BY <1>0, WatcherAssumption, <1>3, <2>5
       DEF Handshake, Closed, Go, killerVars, registryVars, WatcherTypes, CurrentInv, RegistryInv,
           NoOrphan, WillUnregister, Setting, Pipes
  <2> QED  BY <2>1, <2>2, <2>3, <2>4, <2>5 DEF WatcherInv, NoOrphan
<1>4. ASSUME Register PROVE WatcherInv'
  <2>1. WatcherTypes'
    BY <1>0, WatcherAssumption, <1>4 DEF Register, Closed, Conflict, Go, killerVars,
       registryVars, WatcherTypes, CurrentInv, Pipes
  <2>2. CurrentInv'
    BY <1>0, WatcherAssumption, <1>4 DEF Register, Closed, Conflict, Go, killerVars,
       registryVars, WatcherTypes, CurrentInv, Pipes
  <2>3. RegistryInv'
    BY <1>0, WatcherAssumption, <1>4
       DEF Register, Closed, Conflict, Go, killerVars, registryVars, WatcherTypes, CurrentInv,
           RegistryInv, Pipes
  <2>4. ASSUME NEW k \in Pipes, handle'[k] = "open" PROVE WillClose(k)'
    BY <1>0, WatcherAssumption, <1>4, <2>4
       DEF Register, Closed, Conflict, Go, killerVars, registryVars, WatcherTypes, CurrentInv,
           RegistryInv,
           NoOrphan, WillClose, WillUnregister, Setting, Pipes
  <2>5. ASSUME registry' # 0 PROVE WillUnregister(registry)'
    BY <1>0, WatcherAssumption, <1>4, <2>5
       DEF Register, Closed, Conflict, Go, killerVars, registryVars, WatcherTypes, CurrentInv,
           RegistryInv,
           NoOrphan, WillUnregister, Setting, Pipes
  <2> QED  BY <2>1, <2>2, <2>3, <2>4, <2>5 DEF WatcherInv, NoOrphan
<1>5. ASSUME Publish PROVE WatcherInv'
  <2>1. WatcherTypes'
    BY <1>0, WatcherAssumption, <1>5 DEF Publish, Go, killerVars, registryVars, WatcherTypes,
       CurrentInv, Pipes
  <2>2. CurrentInv'
    BY <1>0, WatcherAssumption, <1>5 DEF Publish, Go, killerVars, registryVars, WatcherTypes,
       CurrentInv, Pipes
  <2>3. RegistryInv'
    BY <1>0, WatcherAssumption, <1>5
       DEF Publish, Go, killerVars, registryVars, WatcherTypes, CurrentInv, RegistryInv, Pipes
  <2>4. ASSUME NEW k \in Pipes, handle'[k] = "open" PROVE WillClose(k)'
    BY <1>0, WatcherAssumption, <1>5, <2>4
       DEF Publish, Go, killerVars, registryVars, WatcherTypes, CurrentInv, RegistryInv,
           NoOrphan, WillClose, WillUnregister, Setting, Pipes
  <2>5. ASSUME registry' # 0 PROVE WillUnregister(registry)'
    BY <1>0, WatcherAssumption, <1>5, <2>5
       DEF Publish, Go, killerVars, registryVars, WatcherTypes, CurrentInv, RegistryInv,
           NoOrphan, WillUnregister, Setting, Pipes
  <2> QED  BY <2>1, <2>2, <2>3, <2>4, <2>5 DEF WatcherInv, NoOrphan
<1>6. ASSUME Serve PROVE WatcherInv'
  <2>1. WatcherTypes'
    BY <1>0, WatcherAssumption, <1>6 DEF Serve, Go, killerVars, registryVars, WatcherTypes,
       CurrentInv, Pipes
  <2>2. CurrentInv'
    BY <1>0, WatcherAssumption, <1>6 DEF Serve, Go, killerVars, registryVars, WatcherTypes,
       CurrentInv, Pipes
  <2>3. RegistryInv'
    BY <1>0, WatcherAssumption, <1>6
       DEF Serve, Go, killerVars, registryVars, WatcherTypes, CurrentInv, RegistryInv, Pipes
  <2>4. ASSUME NEW k \in Pipes, handle'[k] = "open" PROVE WillClose(k)'
    BY <1>0, WatcherAssumption, <1>6, <2>4
       DEF Serve, Go, killerVars, registryVars, WatcherTypes, CurrentInv, RegistryInv,
           NoOrphan, WillClose, WillUnregister, Setting, Pipes
  <2>5. ASSUME registry' # 0 PROVE WillUnregister(registry)'
    BY <1>0, WatcherAssumption, <1>6, <2>5
       DEF Serve, Go, killerVars, registryVars, WatcherTypes, CurrentInv, RegistryInv,
           NoOrphan, WillUnregister, Setting, Pipes
  <2> QED  BY <2>1, <2>2, <2>3, <2>4, <2>5 DEF WatcherInv, NoOrphan
<1>7. ASSUME ReadHeartbeat PROVE WatcherInv'
  <2>1. WatcherTypes'
    BY <1>0, WatcherAssumption, <1>7 DEF ReadHeartbeat, Go, killerVars, registryVars,
       WatcherTypes, CurrentInv, Pipes
  <2>2. CurrentInv'
    BY <1>0, WatcherAssumption, <1>7 DEF ReadHeartbeat, Go, killerVars, registryVars,
       WatcherTypes, CurrentInv, Pipes
  <2>3. RegistryInv'
    BY <1>0, WatcherAssumption, <1>7
       DEF ReadHeartbeat, Go, killerVars, registryVars, WatcherTypes, CurrentInv, RegistryInv,
           Pipes
  <2>4. ASSUME NEW k \in Pipes, handle'[k] = "open" PROVE WillClose(k)'
    BY <1>0, WatcherAssumption, <1>7, <2>4
       DEF ReadHeartbeat, Go, killerVars, registryVars, WatcherTypes, CurrentInv, RegistryInv,
           NoOrphan, WillClose, WillUnregister, Setting, Pipes
  <2>5. ASSUME registry' # 0 PROVE WillUnregister(registry)'
    BY <1>0, WatcherAssumption, <1>7, <2>5
       DEF ReadHeartbeat, Go, killerVars, registryVars, WatcherTypes, CurrentInv, RegistryInv,
           NoOrphan, WillUnregister, Setting, Pipes
  <2> QED  BY <2>1, <2>2, <2>3, <2>4, <2>5 DEF WatcherInv, NoOrphan
<1>8. ASSUME ReadFails PROVE WatcherInv'
  <2>1. WatcherTypes'
    BY <1>0, WatcherAssumption, <1>8 DEF ReadFails, Go, killerVars, registryVars, WatcherTypes,
       CurrentInv, Pipes
  <2>2. CurrentInv'
    BY <1>0, WatcherAssumption, <1>8 DEF ReadFails, Go, killerVars, registryVars, WatcherTypes,
       CurrentInv, Pipes
  <2>3. RegistryInv'
    BY <1>0, WatcherAssumption, <1>8
       DEF ReadFails, Go, killerVars, registryVars, WatcherTypes, CurrentInv, RegistryInv, Pipes
  <2>4. ASSUME NEW k \in Pipes, handle'[k] = "open" PROVE WillClose(k)'
    BY <1>0, WatcherAssumption, <1>8, <2>4
       DEF ReadFails, Go, killerVars, registryVars, WatcherTypes, CurrentInv, RegistryInv,
           NoOrphan, WillClose, WillUnregister, Setting, Pipes
  <2>5. ASSUME registry' # 0 PROVE WillUnregister(registry)'
    BY <1>0, WatcherAssumption, <1>8, <2>5
       DEF ReadFails, Go, killerVars, registryVars, WatcherTypes, CurrentInv, RegistryInv,
           NoOrphan, WillUnregister, Setting, Pipes
  <2> QED  BY <2>1, <2>2, <2>3, <2>4, <2>5 DEF WatcherInv, NoOrphan
<1>9. ASSUME Finally PROVE WatcherInv'
  <2>1. WatcherTypes'
    BY <1>0, WatcherAssumption, <1>9 DEF Finally, Go, killerVars, registryVars, WatcherTypes,
       CurrentInv, Pipes
  <2>2. CurrentInv'
    BY <1>0, WatcherAssumption, <1>9 DEF Finally, Go, killerVars, registryVars, WatcherTypes,
       CurrentInv, Pipes
  <2>3. RegistryInv'
    BY <1>0, WatcherAssumption, <1>9
       DEF Finally, Go, killerVars, registryVars, WatcherTypes, CurrentInv, RegistryInv, Pipes
  <2>4. ASSUME NEW k \in Pipes, handle'[k] = "open" PROVE WillClose(k)'
    BY <1>0, WatcherAssumption, <1>9, <2>4
       DEF Finally, Go, killerVars, registryVars, WatcherTypes, CurrentInv, RegistryInv,
           NoOrphan, WillClose, WillUnregister, Setting, Pipes
  <2>5. ASSUME registry' # 0 PROVE WillUnregister(registry)'
    BY <1>0, WatcherAssumption, <1>9, <2>5
       DEF Finally, Go, killerVars, registryVars, WatcherTypes, CurrentInv, RegistryInv,
           NoOrphan, WillUnregister, Setting, Pipes
  <2> QED  BY <2>1, <2>2, <2>3, <2>4, <2>5 DEF WatcherInv, NoOrphan
<1>10. ASSUME FinallyDisconnect PROVE WatcherInv'
  <2>1. WatcherTypes'
    BY <1>0, WatcherAssumption, <1>10 DEF FinallyDisconnect, Unregistered, Go, killerVars,
       registryVars, WatcherTypes, CurrentInv, Pipes
  <2>2. CurrentInv'
    BY <1>0, WatcherAssumption, <1>10 DEF FinallyDisconnect, Unregistered, Go, killerVars,
       registryVars, WatcherTypes, CurrentInv, Pipes
  <2>3. RegistryInv'
    BY <1>0, WatcherAssumption, <1>10
       DEF FinallyDisconnect, Unregistered, Go, killerVars, registryVars, WatcherTypes,
           CurrentInv, RegistryInv, Pipes
  <2>4. ASSUME NEW k \in Pipes, handle'[k] = "open" PROVE WillClose(k)'
    BY <1>0, WatcherAssumption, <1>10, <2>4
       DEF FinallyDisconnect, Unregistered, Go, killerVars, registryVars, WatcherTypes,
           CurrentInv, RegistryInv,
           NoOrphan, WillClose, WillUnregister, Setting, Pipes
  <2>5. ASSUME registry' # 0 PROVE WillUnregister(registry)'
    BY <1>0, WatcherAssumption, <1>10, <2>5
       DEF FinallyDisconnect, Unregistered, Go, killerVars, registryVars, WatcherTypes,
           CurrentInv, RegistryInv,
           NoOrphan, WillUnregister, Setting, Pipes
  <2> QED  BY <2>1, <2>2, <2>3, <2>4, <2>5 DEF WatcherInv, NoOrphan
<1>11. ASSUME FinallyClose PROVE WatcherInv'
  <2>1. WatcherTypes'
    BY <1>0, WatcherAssumption, <1>11 DEF FinallyClose, Closed, Go, killerVars, registryVars,
       WatcherTypes, CurrentInv, Pipes
  <2>2. CurrentInv'
    BY <1>0, WatcherAssumption, <1>11 DEF FinallyClose, Closed, Go, killerVars, registryVars,
       WatcherTypes, CurrentInv, Pipes
  <2>3. RegistryInv'
    BY <1>0, WatcherAssumption, <1>11
       DEF FinallyClose, Closed, Go, killerVars, registryVars, WatcherTypes, CurrentInv,
           RegistryInv, Pipes
  <2>4. ASSUME NEW k \in Pipes, handle'[k] = "open" PROVE WillClose(k)'
    BY <1>0, WatcherAssumption, <1>11, <2>4
       DEF FinallyClose, Closed, Go, killerVars, registryVars, WatcherTypes, CurrentInv,
           RegistryInv,
           NoOrphan, WillClose, WillUnregister, Setting, Pipes
  <2>5. ASSUME registry' # 0 PROVE WillUnregister(registry)'
    BY <1>0, WatcherAssumption, <1>11, <2>5
       DEF FinallyClose, Closed, Go, killerVars, registryVars, WatcherTypes, CurrentInv,
           RegistryInv,
           NoOrphan, WillUnregister, Setting, Pipes
  <2> QED  BY <2>1, <2>2, <2>3, <2>4, <2>5 DEF WatcherInv, NoOrphan
<1>12. ASSUME FinallyClear PROVE WatcherInv'
  <2>1. WatcherTypes'
    BY <1>0, WatcherAssumption, <1>12 DEF FinallyClear, Go, killerVars, registryVars,
       WatcherTypes, CurrentInv, Pipes
  <2>2. CurrentInv'
    BY <1>0, WatcherAssumption, <1>12 DEF FinallyClear, Go, killerVars, registryVars,
       WatcherTypes, CurrentInv, Pipes
  <2>3. RegistryInv'
    BY <1>0, WatcherAssumption, <1>12
       DEF FinallyClear, Go, killerVars, registryVars, WatcherTypes, CurrentInv, RegistryInv,
           Pipes
  <2>4. ASSUME NEW k \in Pipes, handle'[k] = "open" PROVE WillClose(k)'
    BY <1>0, WatcherAssumption, <1>12, <2>4
       DEF FinallyClear, Go, killerVars, registryVars, WatcherTypes, CurrentInv, RegistryInv,
           NoOrphan, WillClose, WillUnregister, Setting, Pipes
  <2>5. ASSUME registry' # 0 PROVE WillUnregister(registry)'
    BY <1>0, WatcherAssumption, <1>12, <2>5
       DEF FinallyClear, Go, killerVars, registryVars, WatcherTypes, CurrentInv, RegistryInv,
           NoOrphan, WillUnregister, Setting, Pipes
  <2> QED  BY <2>1, <2>2, <2>3, <2>4, <2>5 DEF WatcherInv, NoOrphan
<1>13. ASSUME Retry PROVE WatcherInv'
  <2>1. WatcherTypes'
    BY <1>0, WatcherAssumption, <1>13 DEF Retry, Go, killerVars, registryVars, WatcherTypes,
       CurrentInv, Pipes
  <2>2. CurrentInv'
    BY <1>0, WatcherAssumption, <1>13 DEF Retry, Go, killerVars, registryVars, WatcherTypes,
       CurrentInv, Pipes
  <2>3. RegistryInv'
    BY <1>0, WatcherAssumption, <1>13
       DEF Retry, Go, killerVars, registryVars, WatcherTypes, CurrentInv, RegistryInv, Pipes
  <2>4. ASSUME NEW k \in Pipes, handle'[k] = "open" PROVE WillClose(k)'
    BY <1>0, WatcherAssumption, <1>13, <2>4
       DEF Retry, Go, killerVars, registryVars, WatcherTypes, CurrentInv, RegistryInv,
           NoOrphan, WillClose, WillUnregister, Setting, Pipes
  <2>5. ASSUME registry' # 0 PROVE WillUnregister(registry)'
    BY <1>0, WatcherAssumption, <1>13, <2>5
       DEF Retry, Go, killerVars, registryVars, WatcherTypes, CurrentInv, RegistryInv,
           NoOrphan, WillUnregister, Setting, Pipes
  <2> QED  BY <2>1, <2>2, <2>3, <2>4, <2>5 DEF WatcherInv, NoOrphan
<1>14. ASSUME TakeConnection PROVE WatcherInv'
  <2>1. WatcherTypes'
    BY <1>0, WatcherAssumption, <1>14 DEF TakeConnection, killerVars, registryVars,
       WatcherTypes, CurrentInv, Pipes
  <2>2. CurrentInv'
    BY <1>0, WatcherAssumption, <1>14 DEF TakeConnection, killerVars, registryVars,
       WatcherTypes, CurrentInv, Pipes
  <2>3. RegistryInv'
    BY <1>0, WatcherAssumption, <1>14
       DEF TakeConnection, killerVars, registryVars, WatcherTypes, CurrentInv, RegistryInv, Pipes
  <2>4. ASSUME NEW k \in Pipes, handle'[k] = "open" PROVE WillClose(k)'
    BY <1>0, WatcherAssumption, <1>14, <2>4
       DEF TakeConnection, killerVars, registryVars, WatcherTypes, CurrentInv, RegistryInv,
           NoOrphan, WillClose, WillUnregister, Setting, Pipes
  <2>5. ASSUME registry' # 0 PROVE WillUnregister(registry)'
    BY <1>0, WatcherAssumption, <1>14, <2>5
       DEF TakeConnection, killerVars, registryVars, WatcherTypes, CurrentInv, RegistryInv,
           NoOrphan, WillUnregister, Setting, Pipes
  <2> QED  BY <2>1, <2>2, <2>3, <2>4, <2>5 DEF WatcherInv, NoOrphan
<1>15. ASSUME Unregister PROVE WatcherInv'
  <2>1. WatcherTypes'
    BY <1>0, WatcherAssumption, <1>15 DEF Unregister, Unregistered, killerVars, registryVars,
       WatcherTypes, CurrentInv, Pipes
  <2>2. CurrentInv'
    BY <1>0, WatcherAssumption, <1>15 DEF Unregister, Unregistered, killerVars, registryVars,
       WatcherTypes, CurrentInv, Pipes
  <2>3. RegistryInv'
    BY <1>0, WatcherAssumption, <1>15
       DEF Unregister, Unregistered, killerVars, registryVars, WatcherTypes, CurrentInv,
           RegistryInv, Pipes
  <2>4. ASSUME NEW k \in Pipes, handle'[k] = "open" PROVE WillClose(k)'
    BY <1>0, WatcherAssumption, <1>15, <2>4
       DEF Unregister, Unregistered, killerVars, registryVars, WatcherTypes, CurrentInv,
           RegistryInv,
           NoOrphan, WillClose, WillUnregister, Setting, Pipes
  <2>5. ASSUME registry' # 0 PROVE WillUnregister(registry)'
    BY <1>0, WatcherAssumption, <1>15, <2>5
       DEF Unregister, Unregistered, killerVars, registryVars, WatcherTypes, CurrentInv,
           RegistryInv,
           NoOrphan, WillUnregister, Setting, Pipes
  <2> QED  BY <2>1, <2>2, <2>3, <2>4, <2>5 DEF WatcherInv, NoOrphan
<1>16. ASSUME CloseTaken PROVE WatcherInv'
  <2>1. WatcherTypes'
    BY <1>0, WatcherAssumption, <1>16 DEF CloseTaken, Closed, killerVars, registryVars,
       WatcherTypes, CurrentInv, Pipes
  <2>2. CurrentInv'
    BY <1>0, WatcherAssumption, <1>16 DEF CloseTaken, Closed, killerVars, registryVars,
       WatcherTypes, CurrentInv, Pipes
  <2>3. RegistryInv'
    BY <1>0, WatcherAssumption, <1>16
       DEF CloseTaken, Closed, killerVars, registryVars, WatcherTypes, CurrentInv, RegistryInv,
           Pipes
  <2>4. ASSUME NEW k \in Pipes, handle'[k] = "open" PROVE WillClose(k)'
    BY <1>0, WatcherAssumption, <1>16, <2>4
       DEF CloseTaken, Closed, killerVars, registryVars, WatcherTypes, CurrentInv, RegistryInv,
           NoOrphan, WillClose, WillUnregister, Setting, Pipes
  <2>5. ASSUME registry' # 0 PROVE WillUnregister(registry)'
    BY <1>0, WatcherAssumption, <1>16, <2>5
       DEF CloseTaken, Closed, killerVars, registryVars, WatcherTypes, CurrentInv, RegistryInv,
           NoOrphan, WillUnregister, Setting, Pipes
  <2> QED  BY <2>1, <2>2, <2>3, <2>4, <2>5 DEF WatcherInv, NoOrphan
<1>17. ASSUME WakeWatcher PROVE WatcherInv'
  <2>1. WatcherTypes'
    BY <1>0, WatcherAssumption, <1>17 DEF WakeWatcher, killerVars, registryVars, WatcherTypes,
       CurrentInv, Pipes
  <2>2. CurrentInv'
    BY <1>0, WatcherAssumption, <1>17 DEF WakeWatcher, killerVars, registryVars, WatcherTypes,
       CurrentInv, Pipes
  <2>3. RegistryInv'
    BY <1>0, WatcherAssumption, <1>17
       DEF WakeWatcher, killerVars, registryVars, WatcherTypes, CurrentInv, RegistryInv, Pipes
  <2>4. ASSUME NEW k \in Pipes, handle'[k] = "open" PROVE WillClose(k)'
    BY <1>0, WatcherAssumption, <1>17, <2>4
       DEF WakeWatcher, killerVars, registryVars, WatcherTypes, CurrentInv, RegistryInv,
           NoOrphan, WillClose, WillUnregister, Setting, Pipes
  <2>5. ASSUME registry' # 0 PROVE WillUnregister(registry)'
    BY <1>0, WatcherAssumption, <1>17, <2>5
       DEF WakeWatcher, killerVars, registryVars, WatcherTypes, CurrentInv, RegistryInv,
           NoOrphan, WillUnregister, Setting, Pipes
  <2> QED  BY <2>1, <2>2, <2>3, <2>4, <2>5 DEF WatcherInv, NoOrphan
<1>18. ASSUME Call PROVE WatcherInv'
  <2>1. WatcherTypes'
    BY <1>0, WatcherAssumption, <1>18 DEF Call, killerVars, registryVars, WatcherTypes,
       CurrentInv, Pipes
  <2>2. CurrentInv'
    BY <1>0, WatcherAssumption, <1>18 DEF Call, killerVars, registryVars, WatcherTypes,
       CurrentInv, Pipes
  <2>3. RegistryInv'
    BY <1>0, WatcherAssumption, <1>18
       DEF Call, killerVars, registryVars, WatcherTypes, CurrentInv, RegistryInv, Pipes
  <2>4. ASSUME NEW k \in Pipes, handle'[k] = "open" PROVE WillClose(k)'
    BY <1>0, WatcherAssumption, <1>18, <2>4
       DEF Call, killerVars, registryVars, WatcherTypes, CurrentInv, RegistryInv,
           NoOrphan, WillClose, WillUnregister, Setting, Pipes
  <2>5. ASSUME registry' # 0 PROVE WillUnregister(registry)'
    BY <1>0, WatcherAssumption, <1>18, <2>5
       DEF Call, killerVars, registryVars, WatcherTypes, CurrentInv, RegistryInv,
           NoOrphan, WillUnregister, Setting, Pipes
  <2> QED  BY <2>1, <2>2, <2>3, <2>4, <2>5 DEF WatcherInv, NoOrphan
<1>19. ASSUME WriteCloses PROVE WatcherInv'
  <2>1. WatcherTypes'
    BY <1>0, WatcherAssumption, <1>19 DEF WriteCloses, Closed, killerVars, registryVars,
       WatcherTypes, CurrentInv, Pipes
  <2>2. CurrentInv'
    BY <1>0, WatcherAssumption, <1>19 DEF WriteCloses, Closed, killerVars, registryVars,
       WatcherTypes, CurrentInv, Pipes
  <2>3. RegistryInv'
    BY <1>0, WatcherAssumption, <1>19
       DEF WriteCloses, Closed, killerVars, registryVars, WatcherTypes, CurrentInv, RegistryInv,
           Pipes
  <2>4. ASSUME NEW k \in Pipes, handle'[k] = "open" PROVE WillClose(k)'
    BY <1>0, WatcherAssumption, <1>19, <2>4
       DEF WriteCloses, Closed, killerVars, registryVars, WatcherTypes, CurrentInv, RegistryInv,
           NoOrphan, WillClose, WillUnregister, Setting, Pipes
  <2>5. ASSUME registry' # 0 PROVE WillUnregister(registry)'
    BY <1>0, WatcherAssumption, <1>19, <2>5
       DEF WriteCloses, Closed, killerVars, registryVars, WatcherTypes, CurrentInv, RegistryInv,
           NoOrphan, WillUnregister, Setting, Pipes
  <2> QED  BY <2>1, <2>2, <2>3, <2>4, <2>5 DEF WatcherInv, NoOrphan
<1>20. ASSUME Tick PROVE WatcherInv'
  <2>1. WatcherTypes'
    BY <1>0, WatcherAssumption, <1>20 DEF Tick, killerVars, registryVars, WatcherTypes,
       CurrentInv, Pipes
  <2>2. CurrentInv'
    BY <1>0, WatcherAssumption, <1>20 DEF Tick, killerVars, registryVars, WatcherTypes,
       CurrentInv, Pipes
  <2>3. RegistryInv'
    BY <1>0, WatcherAssumption, <1>20
       DEF Tick, killerVars, registryVars, WatcherTypes, CurrentInv, RegistryInv, Pipes
  <2>4. ASSUME NEW k \in Pipes, handle'[k] = "open" PROVE WillClose(k)'
    BY <1>0, WatcherAssumption, <1>20, <2>4
       DEF Tick, killerVars, registryVars, WatcherTypes, CurrentInv, RegistryInv,
           NoOrphan, WillClose, WillUnregister, Setting, Pipes
  <2>5. ASSUME registry' # 0 PROVE WillUnregister(registry)'
    BY <1>0, WatcherAssumption, <1>20, <2>5
       DEF Tick, killerVars, registryVars, WatcherTypes, CurrentInv, RegistryInv,
           NoOrphan, WillUnregister, Setting, Pipes
  <2> QED  BY <2>1, <2>2, <2>3, <2>4, <2>5 DEF WatcherInv, NoOrphan
<1>21. ASSUME Expire PROVE WatcherInv'
  <2>1. WatcherTypes'
    BY <1>0, WatcherAssumption, <1>21 DEF Expire, killerVars, registryVars, WatcherTypes,
       CurrentInv, Pipes
  <2>2. CurrentInv'
    BY <1>0, WatcherAssumption, <1>21 DEF Expire, killerVars, registryVars, WatcherTypes,
       CurrentInv, Pipes
  <2>3. RegistryInv'
    BY <1>0, WatcherAssumption, <1>21
       DEF Expire, killerVars, registryVars, WatcherTypes, CurrentInv, RegistryInv, Pipes
  <2>4. ASSUME NEW k \in Pipes, handle'[k] = "open" PROVE WillClose(k)'
    BY <1>0, WatcherAssumption, <1>21, <2>4
       DEF Expire, killerVars, registryVars, WatcherTypes, CurrentInv, RegistryInv,
           NoOrphan, WillClose, WillUnregister, Setting, Pipes
  <2>5. ASSUME registry' # 0 PROVE WillUnregister(registry)'
    BY <1>0, WatcherAssumption, <1>21, <2>5
       DEF Expire, killerVars, registryVars, WatcherTypes, CurrentInv, RegistryInv,
           NoOrphan, WillUnregister, Setting, Pipes
  <2> QED  BY <2>1, <2>2, <2>3, <2>4, <2>5 DEF WatcherInv, NoOrphan
<1>22. ASSUME NewWorker PROVE WatcherInv'
  <2>1. WatcherTypes'
    BY <1>0, WatcherAssumption, <1>22 DEF NewWorker, killerVars, registryVars, WatcherTypes,
       CurrentInv, Pipes
  <2>2. CurrentInv'
    BY <1>0, WatcherAssumption, <1>22 DEF NewWorker, killerVars, registryVars, WatcherTypes,
       CurrentInv, Pipes
  <2>3. RegistryInv'
    BY <1>0, WatcherAssumption, <1>22
       DEF NewWorker, killerVars, registryVars, WatcherTypes, CurrentInv, RegistryInv, Pipes
  <2>4. ASSUME NEW k \in Pipes, handle'[k] = "open" PROVE WillClose(k)'
    BY <1>0, WatcherAssumption, <1>22, <2>4
       DEF NewWorker, killerVars, registryVars, WatcherTypes, CurrentInv, RegistryInv,
           NoOrphan, WillClose, WillUnregister, Setting, Pipes
  <2>5. ASSUME registry' # 0 PROVE WillUnregister(registry)'
    BY <1>0, WatcherAssumption, <1>22, <2>5
       DEF NewWorker, killerVars, registryVars, WatcherTypes, CurrentInv, RegistryInv,
           NoOrphan, WillUnregister, Setting, Pipes
  <2> QED  BY <2>1, <2>2, <2>3, <2>4, <2>5 DEF WatcherInv, NoOrphan
<1>23. ASSUME UNCHANGED watcherVars PROVE WatcherInv'
  <2>1. WatcherTypes'
    BY <1>0, WatcherAssumption, <1>23 DEF watcherVars, killerVars, registryVars, WatcherTypes,
       CurrentInv, Pipes
  <2>2. CurrentInv'
    BY <1>0, WatcherAssumption, <1>23 DEF watcherVars, killerVars, registryVars, WatcherTypes,
       CurrentInv, Pipes
  <2>3. RegistryInv'
    BY <1>0, WatcherAssumption, <1>23
       DEF watcherVars, killerVars, registryVars, WatcherTypes, CurrentInv, RegistryInv, Pipes
  <2>4. ASSUME NEW k \in Pipes, handle'[k] = "open" PROVE WillClose(k)'
    BY <1>0, WatcherAssumption, <1>23, <2>4
       DEF watcherVars, killerVars, registryVars, WatcherTypes, CurrentInv, RegistryInv,
           NoOrphan, WillClose, WillUnregister, Setting, Pipes
  <2>5. ASSUME registry' # 0 PROVE WillUnregister(registry)'
    BY <1>0, WatcherAssumption, <1>23, <2>5
       DEF watcherVars, killerVars, registryVars, WatcherTypes, CurrentInv, RegistryInv,
           NoOrphan, WillUnregister, Setting, Pipes
  <2> QED  BY <2>1, <2>2, <2>3, <2>4, <2>5 DEF WatcherInv, NoOrphan
<1> QED
  BY <1>1, <1>2, <1>3, <1>4, <1>5, <1>6, <1>7, <1>8, <1>9, <1>10, <1>11, <1>12, <1>13, <1>14,
     <1>15, <1>16, <1>17, <1>18, <1>19, <1>20, <1>21, <1>22, <1>23 DEF WatcherNext, WatcherStep,
     KillerStep

(* pipe_acl_state against close().                                         *)
LEMMA NextProbe == ProbeOnOpenHandle /\ [FramingNext]_framingVars => ProbeOnOpenHandle'
  BY DEF ProbeOnOpenHandle, FramingNext, framingVars, gatewayEnd, EnterWrite, LockWrite,
     WriteSome, WriteTimeout, FailWrite, WriteBroken, MarkClosed, CancelPendingIo, CloseHandle,
     ProbeLock, ProbeStart, ProbeEnd, ReadSome, ReadTimeout, ReadEnds, ConditionFree

(* Every open pipe handle has a thread that will close it and every        *)
(* registered connection one that will unregister it, a client's handle is *)
(* closed at most once and left open only if cancelling its I/O failed,    *)
(* and no DACL is read from a closed handle: for any number of handles,    *)
(* generations, requests and threads (GatewayWorkerWatcher,                *)
(* NamedPipeIpcClient, pipe_acl_state).                                    *)
THEOREM HandlesAreAccounted == Spec => []HandlesAccounted
<1> DEFINE Inv == WatcherInv /\ ProbeOnOpenHandle /\ ClientInv
<1>1. Init => Inv
  BY InitWatcher, InitClient DEF Init, FramingInit, ProbeOnOpenHandle
<1>2. Inv /\ [Next]_vars => Inv'
  BY PlatformSteps, NextWatcher, NextProbe, NextClient
<1>3. Inv => HandlesAccounted
  BY ClientCloses DEF HandlesAccounted, WatcherInv
<1> QED  BY <1>1, <1>2, <1>3, PTL DEF Spec
-----------------------------------------------------------------------------
(* The bytes of a connection.  A write is a frame or, when it fails, the   *)
(* beginning of one; what is behind such a part comes after close() began. *)
StreamTypes ==
    /\ writer \in [Writers -> {"idle", "queued", "writing", "timeout", "done", "refused",
                               "failed"}]
    /\ written \in [Writers -> Nat]
    /\ writeLock \in Writers \cup {NoWriter}
    /\ wire \in Seq(Cell) /\ buffer \in Seq(Cell)
    /\ sent \in Seq(Writers) /\ received \in Seq(Writers) /\ late \subseteq Writers
    /\ reader \in {"prefix", "body", "ended"} /\ need \in Nat
    /\ reader # "ended" => Len(buffer) < need
    /\ reader = "prefix" => need = PrefixSize

(* The lock is that of the thread that writes, or whose write timed out.   *)
WriteInv == \A m \in Writers : writer[m] \in {"writing", "timeout"} => writeLock = m

(* Every byte in the pipe was written, is there once, and is followed by   *)
(* the rest of its frame if that was written to the end.                   *)
CellsInv ==
    /\ \A i \in 1..Len(wire) : wire[i][2] \in 1..written[wire[i][1]]
    /\ \A i, j \in 1..Len(wire) : wire[i] = wire[j] => i = j
    /\ \A i \in 1..Len(wire) :
         written[wire[i][1]] = FrameSize(wire[i][1]) =>
           \A d \in 0..(FrameSize(wire[i][1]) - wire[i][2]) :
              i + d \in 1..Len(wire) /\ wire[i + d] = <<wire[i][1], wire[i][2] + d>>

(* A frame that is written to the end counts as sent, before or after the  *)
(* connection began to close.                                              *)
CompleteInv ==
    /\ \A m \in Writers : written[m] <= FrameSize(m)
    /\ \A m \in Writers :
         written[m] = FrameSize(m) => m \in late \/ \E k \in 1..Len(sent) : sent[k] = m
    /\ \A k \in 1..Len(sent) : written[sent[k]] = FrameSize(sent[k])
    /\ closing = "open" => late = {} /\ Len(received) <= Len(sent)

(* What was received is in order, and its last byte is out of the pipe.    *)
ReceivedInv ==
    \A i \in 1..Len(received) :
        /\ i <= Len(sent) => received[i] = sent[i]
        /\ written[received[i]] = FrameSize(received[i])
        /\ \A j \in 1..Len(wire) : wire[j] # <<received[i], FrameSize(received[i])>>

(* The frames sent before the close follow each other in the pipe, and the *)
(* last one is followed by nothing as long as no part of a frame is there. *)
Whole == closing = "open" /\ (writeLock = NoWriter \/ writer[writeLock] = "writing")

LinkInv ==
    /\ \A i \in 1..Len(wire), k \in 1..Len(sent) :
         k < Len(sent) /\ wire[i] = <<sent[k], FrameSize(sent[k])>> =>
           i + 1 \in 1..Len(wire) /\ wire[i + 1] = <<sent[k + 1], 1>>
    /\ Whole /\ Len(wire) > 0 =>
         Len(sent) > 0 /\ wire[Len(wire)] = <<sent[Len(sent)], FrameSize(sent[Len(sent)])>>

(* How much of the current frame has been read, without the buffer.        *)
Base == IF reader = "body" THEN PrefixSize ELSE 0

(* The reader is inside the frame of m: the part that has been read is in  *)
(* the buffer, the next byte is the first one in the pipe.                 *)
Cursor(m) ==
    /\ reader = "body" => need = SizeOf[m]
    /\ \A i \in 1..Len(buffer) : buffer[i] = <<m, Base + i>>
    /\ Len(wire) > 0 /\ wire[1] = <<m, Base + Len(buffer) + 1>>

OrderInv ==
    reader # "ended" =>
        /\ Len(received) < Len(sent) => Cursor(sent[Len(received) + 1])
        /\ Len(received) >= Len(sent) /\ Whole =>
             wire = <<>> /\ buffer = <<>> /\ reader = "prefix"

StreamInv ==
    /\ StreamTypes /\ WriteInv /\ CellsInv /\ CompleteInv /\ ReceivedInv /\ LinkInv /\ OrderInv

(* The frame of m, byte by byte.                                           *)
LEMMA FrameFacts ==
  ASSUME NEW m \in Writers
  PROVE  /\ FrameSize(m) \in Nat /\ PrefixSize \in Nat /\ SizeOf[m] \in Nat
         /\ PrefixSize > 0 /\ SizeOf[m] > 0 /\ FrameSize(m) = PrefixSize + SizeOf[m]
         /\ Frame(m) \in Seq(Cell) /\ Len(Frame(m)) = FrameSize(m)
         /\ \A i \in 1..FrameSize(m) : Frame(m)[i] = <<m, i>> /\ <<m, i>> \in Cell
<1>1. FrameSize(m) \in Nat /\ PrefixSize \in Nat /\ SizeOf[m] \in Nat
      /\ PrefixSize > 0 /\ SizeOf[m] > 0 /\ FrameSize(m) = PrefixSize + SizeOf[m]
  BY FramingAssumption DEF FrameSize
<1>2. \A i \in 1..FrameSize(m) : Frame(m)[i] = <<m, i>> /\ <<m, i>> \in Cell
  BY <1>1 DEF Frame, Cell
<1>3. Frame(m) \in [1..FrameSize(m) -> Cell]
  BY <1>1 DEF Frame, Cell
<1>4. Frame(m) \in Seq(Cell) /\ Len(Frame(m)) = FrameSize(m)
  BY <1>1, <1>3
<1> QED  BY <1>1, <1>2, <1>4

(* The k bytes of the frame of m behind byte a.                            *)
LEMMA PartFacts ==
  ASSUME NEW m \in Writers, NEW a \in Nat, NEW k \in Nat, a + k <= FrameSize(m)
  PROVE  /\ SubSeq(Frame(m), a + 1, a + k) \in Seq(Cell)
         /\ Len(SubSeq(Frame(m), a + 1, a + k)) = k
         /\ \A i \in 1..k : SubSeq(Frame(m), a + 1, a + k)[i] = <<m, a + i>>
<1>0. FrameSize(m) \in Nat /\ a + 1 \in Int /\ a + k \in Int
  BY FrameFacts
<1>1. ASSUME NEW i \in (a + 1)..(a + k) PROVE Frame(m)[i] = <<m, i>> /\ Frame(m)[i] \in Cell
  <2>1. i \in 1..FrameSize(m)
    BY <1>0
  <2> QED  BY <2>1, FrameFacts
<1>2. /\ SubSeq(Frame(m), a + 1, a + k) \in Seq(Cell)
      /\ Len(SubSeq(Frame(m), a + 1, a + k)) = IF a + 1 <= a + k THEN (a + k) - (a + 1) + 1 ELSE 0
      /\ \A i \in 1..((a + k) - (a + 1) + 1) :
           SubSeq(Frame(m), a + 1, a + k)[i] = Frame(m)[(a + 1) + i - 1]
  BY <1>0, <1>1, SubSeqProperties
<1>3. ASSUME NEW i \in 1..k PROVE SubSeq(Frame(m), a + 1, a + k)[i] = <<m, a + i>>
  <2>1. i \in 1..((a + k) - (a + 1) + 1) /\ (a + 1) + i - 1 = a + i /\ a + i \in (a + 1)..(a + k)
    OBVIOUS
  <2> QED  BY <2>1, <1>1, <1>2
<1>4. Len(SubSeq(Frame(m), a + 1, a + k)) = k
  BY <1>2
<1> QED  BY <1>2, <1>3, <1>4

(* A write puts the next k bytes of the frame of m into the pipe: all of   *)
(* it at once, or not up to its end.                                       *)
Puts(m, k) ==
    /\ written[m] + k < FrameSize(m) \/ (written[m] = 0 /\ k = FrameSize(m))
    /\ wire' = wire \o SubSeq(Frame(m), written[m] + 1, written[m] + k)
    /\ written' = [written EXCEPT ![m] = @ + k]

(* What the pipe holds after a write.                                      *)
LEMMA Grows ==
  ASSUME StreamTypes, CellsInv, NEW m \in Writers, NEW k \in Nat, Puts(m, k)
  PROVE  /\ wire' \in Seq(Cell) /\ Len(wire') = Len(wire) + k
         /\ \A i \in 1..Len(wire) : wire'[i] = wire[i]
         /\ \A i \in 1..k : wire'[Len(wire) + i] = <<m, written[m] + i>>
         /\ written' \in [Writers -> Nat] /\ written'[m] = written[m] + k
         /\ \A q \in Writers : q # m => written'[q] = written[q]
         /\ \A i \in 1..Len(wire') :
              \/ i \in 1..Len(wire) /\ wire'[i] = wire[i]
              \/ \E j \in 1..k : i = Len(wire) + j /\ wire'[i] = <<m, written[m] + j>>
         /\ CellsInv'
<1> DEFINE s == SubSeq(Frame(m), written[m] + 1, written[m] + k)
<1>0. FrameSize(m) \in Nat /\ FrameSize(m) > 0
  BY FrameFacts
<1>1. /\ written[m] \in Nat /\ Len(wire) \in Nat /\ wire \in Seq(Cell)
      /\ written \in [Writers -> Nat] /\ FrameSize(m) \in Nat
      /\ FrameSize(m) > 0 /\ written[m] + k <= FrameSize(m)
      /\ written[m] + k < FrameSize(m) \/ (written[m] = 0 /\ k = FrameSize(m))
  <2>1. written \in [Writers -> Nat] /\ wire \in Seq(Cell)
    BY DEF StreamTypes
  <2>2. written[m] + k < FrameSize(m) \/ (written[m] = 0 /\ k = FrameSize(m))
    BY DEF Puts
  <2> QED  BY <1>0, <2>1, <2>2
<1>2. s \in Seq(Cell) /\ Len(s) = k /\ \A i \in 1..k : s[i] = <<m, written[m] + i>>
  BY <1>1, PartFacts
<1>3. /\ wire' \in Seq(Cell) /\ Len(wire') = Len(wire) + k
      /\ \A i \in 1..(Len(wire) + k) :
           wire'[i] = IF i <= Len(wire) THEN wire[i] ELSE s[i - Len(wire)]
  <2>1. wire' = wire \o s
    BY DEF Puts
  <2> HIDE DEF s
  <2>2. /\ wire \o s \in Seq(Cell) /\ Len(wire \o s) = Len(wire) + Len(s)
        /\ \A i \in 1..(Len(wire) + Len(s)) :
             (wire \o s)[i] = IF i <= Len(wire) THEN wire[i] ELSE s[i - Len(wire)]
    BY <1>1, <1>2, ConcatProperties
  <2> QED  BY <1>2, <2>1, <2>2
<1> HIDE DEF s
<1>4. \A i \in 1..Len(wire) : wire'[i] = wire[i]
  BY <1>1, <1>3
<1>5. ASSUME NEW i \in 1..k PROVE wire'[Len(wire) + i] = <<m, written[m] + i>>
  <2>1. /\ Len(wire) + i \in 1..(Len(wire) + k) /\ ~(Len(wire) + i <= Len(wire))
        /\ Len(wire) + i - Len(wire) = i
    BY <1>1
  <2>2. wire'[Len(wire) + i] = s[Len(wire) + i - Len(wire)]
    BY <2>1, <1>3
  <2> QED  BY <2>1, <2>2, <1>2
<1>6. /\ written' \in [Writers -> Nat] /\ written'[m] = written[m] + k
      /\ \A q \in Writers : q # m => written'[q] = written[q]
  BY <1>1 DEF Puts
<1>7. ASSUME NEW i \in 1..Len(wire')
      PROVE  \/ i \in 1..Len(wire) /\ wire'[i] = wire[i]
             \/ \E j \in 1..k : i = Len(wire) + j /\ wire'[i] = <<m, written[m] + j>>
  <2>1. CASE i <= Len(wire)
    BY <2>1, <1>1, <1>3, <1>4
  <2>2. CASE ~(i <= Len(wire))
    <3>1. i - Len(wire) \in 1..k /\ i = Len(wire) + (i - Len(wire))
      BY <1>1, <1>3, <2>2
    <3> QED  BY <3>1, <1>5
  <2> QED  BY <2>1, <2>2
<1>8. ASSUME NEW i \in 1..Len(wire)
      PROVE  /\ wire[i] \in Cell /\ wire[i][1] \in Writers /\ wire[i][2] \in Nat
             /\ wire[i] = <<wire[i][1], wire[i][2]>>
  <2>1. wire[i] \in Writers \X Nat
    BY <1>1, ElementOfSeq DEF Cell
  <2> QED  BY <2>1 DEF Cell
<1>9. ASSUME NEW i \in 1..Len(wire') PROVE wire'[i][2] \in 1..written'[wire'[i][1]]
  <2>1. CASE i \in 1..Len(wire) /\ wire'[i] = wire[i]
    <3>1. wire[i][2] \in 1..written[wire[i][1]] /\ wire[i][1] \in Writers
      BY <2>1, <1>8 DEF CellsInv
    <3>2. written[wire[i][1]] \in Nat /\ written'[wire[i][1]] \in Nat
          /\ written[wire[i][1]] <= written'[wire[i][1]]
      <4>1. CASE wire[i][1] = m
        BY <4>1, <1>6, <1>1
      <4>2. CASE wire[i][1] # m
        BY <4>2, <3>1, <1>6, <1>1
      <4> QED  BY <4>1, <4>2
    <3> QED  BY <2>1, <3>1, <3>2
  <2>2. CASE \E j \in 1..k : i = Len(wire) + j /\ wire'[i] = <<m, written[m] + j>>
    <3>1. PICK j \in 1..k : wire'[i] = <<m, written[m] + j>>
      BY <2>2
    <3>2. wire'[i][1] = m /\ wire'[i][2] = written[m] + j
      BY <3>1
    <3> QED  BY <3>2, <1>6, <1>1
  <2> QED  BY <1>7, <2>1, <2>2
<1>10. ASSUME NEW x \in 1..Len(wire), NEW y \in 1..k PROVE wire[x] # <<m, written[m] + y>>
  <2>1. wire[x][2] \in 1..written[wire[x][1]]
    BY DEF CellsInv
  <2>2. ASSUME wire[x] = <<m, written[m] + y>> PROVE FALSE
    <3>1. wire[x][1] = m /\ wire[x][2] = written[m] + y
      BY <2>2
    <3> QED  BY <3>1, <2>1, <1>1
  <2> QED  BY <2>2
<1>11. ASSUME NEW i \in 1..Len(wire'), NEW j \in 1..Len(wire'), wire'[i] = wire'[j]
       PROVE  i = j
  <2>1. CASE i \in 1..Len(wire) /\ wire'[i] = wire[i]
    BY <1>10, <1>11, <2>1, <1>7 DEF CellsInv
  <2>2. CASE \E y \in 1..k : i = Len(wire) + y /\ wire'[i] = <<m, written[m] + y>>
    <3>1. PICK y \in 1..k : i = Len(wire) + y /\ wire'[i] = <<m, written[m] + y>>
      BY <2>2
    <3>2. CASE j \in 1..Len(wire) /\ wire'[j] = wire[j]
      BY <1>10, <1>11, <3>1, <3>2
    <3>3. CASE \E z \in 1..k : j = Len(wire) + z /\ wire'[j] = <<m, written[m] + z>>
      <4>1. PICK z \in 1..k : j = Len(wire) + z /\ wire'[j] = <<m, written[m] + z>>
        BY <3>3
      <4>2. written[m] + y = written[m] + z
        BY <1>11, <3>1, <4>1
      <4> QED  BY <3>1, <4>1, <4>2, <1>1
    <3> QED  BY <1>7, <3>2, <3>3
  <2> QED  BY <1>7, <2>1, <2>2
<1>12. ASSUME NEW i \in 1..Len(wire'), written'[wire'[i][1]] = FrameSize(wire'[i][1]),
              NEW d \in 0..(FrameSize(wire'[i][1]) - wire'[i][2])
       PROVE  i + d \in 1..Len(wire') /\ wire'[i + d] = <<wire'[i][1], wire'[i][2] + d>>
  <2>1. CASE i \in 1..Len(wire) /\ wire'[i] = wire[i]
    <3>1. wire[i][1] \in Writers /\ wire[i][2] \in 1..written[wire[i][1]]
      BY <2>1, <1>8 DEF CellsInv
    <3>2. wire[i][1] # m
      <4> SUFFICES ASSUME wire[i][1] = m PROVE FALSE
        OBVIOUS
      <4>1. written[m] > 0 /\ written[m] + k = FrameSize(m)
        BY <3>1, <2>1, <1>12, <1>6, <1>1
      <4> QED  BY <4>1, <1>1
    <3>3. written[wire[i][1]] = FrameSize(wire[i][1])
      BY <3>1, <3>2, <2>1, <1>6, <1>12
    <3>4. i + d \in 1..Len(wire) /\ wire[i + d] = <<wire[i][1], wire[i][2] + d>>
      BY <3>3, <2>1, <1>12 DEF CellsInv
    <3> QED  BY <3>4, <1>3, <1>4, <1>1, <2>1
  <2>2. CASE \E y \in 1..k : i = Len(wire) + y /\ wire'[i] = <<m, written[m] + y>>
    <3>1. PICK y \in 1..k : i = Len(wire) + y /\ wire'[i] = <<m, written[m] + y>>
      BY <2>2
    <3>2. wire'[i][1] = m /\ wire'[i][2] = written[m] + y
      BY <3>1
    <3>3. written[m] = 0 /\ k = FrameSize(m)
      BY <3>2, <1>12, <1>6, <1>1
    <3>4. y + d \in 1..k /\ i + d = Len(wire) + (y + d) /\ i + d \in 1..Len(wire')
          /\ wire'[i][2] + d = y + d /\ 0 + (y + d) = y + d
      BY <3>1, <3>2, <3>3, <1>12, <1>1, <1>3
    <3>5. wire'[i + d] = <<m, y + d>>
      BY <3>3, <3>4, <1>5
    <3> QED  BY <3>2, <3>4, <3>5
  <2> QED  BY <1>7, <2>1, <2>2
<1>13. CellsInv'
  BY <1>9, <1>11, <1>12 DEF CellsInv
<1> QED  BY <1>3, <1>4, <1>5, <1>6, <1>7, <1>13

(* What a write leaves as it is: what was received, the order of what was  *)
(* sent, and the next byte of the reader.                                  *)
LEMMA Keeps ==
  ASSUME StreamInv, NEW m \in Writers, NEW k \in Nat, Puts(m, k)
  PROVE  /\ \A j \in 1..Len(sent) : sent[j] \in Writers /\ sent[j] # m
                                    /\ written'[sent[j]] = FrameSize(sent[j])
         /\ \A i \in 1..Len(received) :
              /\ received[i] \in Writers /\ written'[received[i]] = FrameSize(received[i])
              /\ \A j \in 1..Len(wire') : wire'[j] # <<received[i], FrameSize(received[i])>>
         /\ \A i \in 1..Len(wire'), j \in 1..Len(sent) :
              j < Len(sent) /\ wire'[i] = <<sent[j], FrameSize(sent[j])>> =>
                i + 1 \in 1..Len(wire') /\ wire'[i + 1] = <<sent[j + 1], 1>>
         /\ Len(wire) > 0 => Len(wire') > 0 /\ wire'[1] = wire[1]
<1>0. /\ StreamTypes /\ CellsInv /\ wire \in Seq(Cell) /\ Len(wire) \in Nat
      /\ sent \in Seq(Writers) /\ received \in Seq(Writers) /\ written[m] \in Nat
      /\ Len(sent) \in Nat /\ Len(received) \in Nat
  BY DEF StreamInv, StreamTypes
<1>1. written[m] < FrameSize(m) /\ FrameSize(m) \in Nat /\ written[m] + k <= FrameSize(m)
  <2>1. FrameSize(m) \in Nat /\ FrameSize(m) > 0
    BY FrameFacts
  <2>2. written[m] + k < FrameSize(m) \/ (written[m] = 0 /\ k = FrameSize(m))
    BY DEF Puts
  <2> QED  BY ONLY <1>0, <2>1, <2>2, k \in Nat
<1>2. /\ Len(wire') = Len(wire) + k
      /\ \A i \in 1..Len(wire) : wire'[i] = wire[i]
      /\ \A q \in Writers : q # m => written'[q] = written[q]
      /\ \A i \in 1..Len(wire') :
           \/ i \in 1..Len(wire) /\ wire'[i] = wire[i]
           \/ \E j \in 1..k : i = Len(wire) + j /\ wire'[i] = <<m, written[m] + j>>
  BY <1>0, Grows
<1>3. ASSUME NEW j \in 1..Len(sent)
      PROVE  sent[j] \in Writers /\ sent[j] # m /\ written'[sent[j]] = FrameSize(sent[j])
  <2>1. sent[j] \in Writers
    BY <1>0, ElementOfSeq
  <2>2. written[sent[j]] = FrameSize(sent[j])
    BY DEF StreamInv, CompleteInv
  <2> QED  BY <2>1, <2>2, <1>1, <1>2
<1>4. ASSUME NEW q \in Writers, q # m, NEW x, NEW j \in 1..Len(wire'), wire'[j] = <<q, x>>
      PROVE  j \in 1..Len(wire) /\ wire[j] = <<q, x>>
  BY <1>2, <1>4
<1>5. ASSUME NEW i \in 1..Len(received)
      PROVE  /\ received[i] \in Writers /\ written'[received[i]] = FrameSize(received[i])
             /\ \A j \in 1..Len(wire') : wire'[j] # <<received[i], FrameSize(received[i])>>
  <2>1. received[i] \in Writers
    BY <1>0, ElementOfSeq
  <2>2. /\ written[received[i]] = FrameSize(received[i])
        /\ \A j \in 1..Len(wire) : wire[j] # <<received[i], FrameSize(received[i])>>
    BY DEF StreamInv, ReceivedInv
  <2>3. received[i] # m
    BY <2>2, <1>1
  <2>4. written'[received[i]] = FrameSize(received[i])
    BY <2>1, <2>2, <2>3, <1>2
  <2> QED  BY <2>1, <2>2, <2>3, <2>4, <1>4
<1>6. ASSUME NEW i \in 1..Len(wire'), NEW j \in 1..Len(sent), j < Len(sent),
             wire'[i] = <<sent[j], FrameSize(sent[j])>>
      PROVE  i + 1 \in 1..Len(wire') /\ wire'[i + 1] = <<sent[j + 1], 1>>
  <2>1. i \in 1..Len(wire) /\ wire[i] = <<sent[j], FrameSize(sent[j])>>
    BY <1>3, <1>4, <1>6
  <2>2. i + 1 \in 1..Len(wire) /\ wire[i + 1] = <<sent[j + 1], 1>>
    BY <2>1, <1>6 DEF StreamInv, LinkInv
  <2> QED  BY <2>2, <1>0, <1>2
<1>7. ASSUME Len(wire) > 0 PROVE Len(wire') > 0 /\ wire'[1] = wire[1]
  BY <1>7, <1>0, <1>2
<1> QED  BY <1>3, <1>5, <1>6, <1>7

(* A write that fails leaves a part of a frame, at most.                   *)
LEMMA AfterPart ==
  ASSUME StreamInv, NEW m \in Writers, NEW k \in Nat, Puts(m, k), written[m] + k < FrameSize(m),
         UNCHANGED <<history, workerEnd>>, ~Whole', closing' = "open" => closing = "open",
         writer' \in [Writers -> {"idle", "queued", "writing", "timeout", "done", "refused",
                                  "failed"}],
         writeLock' \in Writers \cup {NoWriter}, WriteInv'
  PROVE  StreamInv'
<1>0. /\ StreamTypes /\ CellsInv /\ CompleteInv /\ ReceivedInv /\ OrderInv
      /\ UNCHANGED <<sent, late, received, buffer, reader, need>>
      /\ written \in [Writers -> Nat] /\ FrameSize(m) \in Nat
  BY FrameFacts DEF StreamInv, StreamTypes, history, workerEnd
<1>2. StreamTypes'
  <2>1. wire' \in Seq(Cell) /\ written' \in [Writers -> Nat]
    BY <1>0, Grows
  <2> QED  BY <1>0, <2>1 DEF StreamTypes
<1>3. CellsInv'
  BY <1>0, Grows
<1>4. CompleteInv'
  <2>1. written'[m] = written[m] + k /\ \A q \in Writers : q # m => written'[q] = written[q]
    BY <1>0, Grows
  <2>2. \A j \in 1..Len(sent) : written'[sent[j]] = FrameSize(sent[j])
    BY Keeps
  <2>3. \A q \in Writers : written'[q] <= FrameSize(q)
    BY <2>1, <1>0 DEF CompleteInv
  <2>4. ASSUME NEW q \in Writers, written'[q] = FrameSize(q)
        PROVE  q \in late \/ \E j \in 1..Len(sent) : sent[j] = q
    <3>1. q # m
      BY <2>1, <2>4, <1>0
    <3> QED  BY <3>1, <2>1, <2>4, <1>0 DEF CompleteInv
  <2> QED  BY <1>0, <2>2, <2>3, <2>4 DEF CompleteInv
<1>5. ReceivedInv'
  BY <1>0, Keeps DEF ReceivedInv
<1>6. LinkInv'
  BY <1>0, Keeps DEF LinkInv
<1>7. OrderInv'
  <2>1. ASSUME reader # "ended", Len(received) < Len(sent)
        PROVE  Cursor(sent[Len(received) + 1])'
    <3>1. Cursor(sent[Len(received) + 1])
      BY <1>0, <2>1 DEF OrderInv
    <3>2. Len(wire') > 0 /\ wire'[1] = wire[1]
      BY <3>1, Keeps DEF Cursor
    <3> QED  BY <1>0, <3>1, <3>2 DEF Cursor, Base
  <2> QED  BY <1>0, <2>1 DEF OrderInv
<1> QED  BY <1>2, <1>3, <1>4, <1>5, <1>6, <1>7 DEF StreamInv

(* Steps that write and read nothing.                                      *)
LEMMA Quiet ==
  ASSUME StreamInv, UNCHANGED <<written, wire, history, workerEnd>>,
         Whole' => Whole, closing' = "open" => closing = "open",
         writer' \in [Writers -> {"idle", "queued", "writing", "timeout", "done", "refused",
                                  "failed"}],
         writeLock' \in Writers \cup {NoWriter}, WriteInv'
  PROVE  StreamInv'
<1>0. /\ StreamTypes /\ CellsInv /\ CompleteInv /\ ReceivedInv /\ LinkInv /\ OrderInv
      /\ UNCHANGED <<sent, late, received, buffer, reader, need, written, wire>>
  BY DEF StreamInv, history, workerEnd
<1>2. StreamTypes'
  BY <1>0 DEF StreamTypes
<1>3. CellsInv' /\ CompleteInv' /\ ReceivedInv'
  BY <1>0 DEF CellsInv, CompleteInv, ReceivedInv
<1>4. LinkInv'
  BY <1>0 DEF LinkInv
<1>5. \A m : Cursor(m) => Cursor(m)'
  BY <1>0 DEF Cursor, Base
<1>6. OrderInv'
  BY <1>0, <1>5 DEF OrderInv
<1> QED  BY <1>2, <1>3, <1>4, <1>6 DEF StreamInv

(* A whole frame is written: it comes behind the last one that was sent.   *)
LEMMA NextWrite ==
  ASSUME WholeWrites, StreamInv, NEW m \in Writers, NEW n, WriteSome(m, n)
  PROVE  StreamInv'
<1>0. /\ StreamTypes /\ WriteInv /\ CellsInv /\ CompleteInv /\ ReceivedInv /\ LinkInv /\ OrderInv
      /\ UNCHANGED <<closing, received, buffer, reader, need>>
      /\ FrameSize(m) \in Nat /\ FrameSize(m) > 0 /\ written[m] \in Nat
      /\ sent \in Seq(Writers) /\ Len(sent) \in Nat /\ Len(received) \in Nat /\ Len(wire) \in Nat
  BY FrameFacts DEF StreamInv, StreamTypes, WriteSome, workerEnd
<1>1. n = FrameSize(m) /\ written[m] = 0 /\ n \in Nat
  BY <1>0 DEF WriteSome
<1>2. Puts(m, n) /\ n > 0
  BY <1>0, <1>1 DEF WriteSome, Puts
<1>3. /\ wire' \in Seq(Cell) /\ Len(wire') = Len(wire) + n
      /\ \A i \in 1..Len(wire) : wire'[i] = wire[i]
      /\ \A i \in 1..n : wire'[Len(wire) + i] = <<m, written[m] + i>>
      /\ written' \in [Writers -> Nat] /\ written'[m] = written[m] + n
      /\ \A q \in Writers : q # m => written'[q] = written[q]
      /\ \A i \in 1..Len(wire') :
           \/ i \in 1..Len(wire) /\ wire'[i] = wire[i]
           \/ \E j \in 1..n : i = Len(wire) + j /\ wire'[i] = <<m, written[m] + j>>
      /\ CellsInv'
  BY <1>0, <1>1, <1>2, Grows
<1>4. /\ writer' = [writer EXCEPT ![m] = "done"] /\ writeLock' = NoWriter /\ Completed(m)
      /\ writer[m] = "writing"
  BY <1>0, <1>1, <1>3 DEF WriteSome
<1>5. /\ \A j \in 1..Len(sent) : sent[j] \in Writers /\ sent[j] # m
                                 /\ written'[sent[j]] = FrameSize(sent[j])
      /\ \A i \in 1..Len(received) :
           /\ received[i] \in Writers /\ written'[received[i]] = FrameSize(received[i])
           /\ \A j \in 1..Len(wire') : wire'[j] # <<received[i], FrameSize(received[i])>>
      /\ \A i \in 1..Len(wire'), j \in 1..Len(sent) :
           j < Len(sent) /\ wire'[i] = <<sent[j], FrameSize(sent[j])>> =>
             i + 1 \in 1..Len(wire') /\ wire'[i + 1] = <<sent[j + 1], 1>>
      /\ Len(wire) > 0 => Len(wire') > 0 /\ wire'[1] = wire[1]
  BY <1>1, <1>2, Keeps
<1>6. closing = "open" => Whole
  BY <1>0, <1>4 DEF WriteInv, Whole
<1>7. /\ closing = "open" => /\ sent' = Append(sent, m) /\ late' = late
                             /\ sent' \in Seq(Writers) /\ Len(sent') = Len(sent) + 1
                             /\ \A j \in 1..Len(sent) : sent'[j] = sent[j]
                             /\ sent'[Len(sent) + 1] = m
      /\ closing # "open" => sent' = sent /\ late' = late \cup {m}
  <2>1. /\ closing = "open" => sent' = Append(sent, m) /\ late' = late
        /\ closing # "open" => sent' = sent /\ late' = late \cup {m}
    BY <1>4 DEF Completed
  <2>2. /\ Append(sent, m) \in Seq(Writers) /\ Len(Append(sent, m)) = Len(sent) + 1
        /\ \A j \in 1..Len(sent) : Append(sent, m)[j] = sent[j]
        /\ Append(sent, m)[Len(sent) + 1] = m
    BY ONLY m \in Writers, <1>0, AppendProperties
  <2> QED  BY <2>1, <2>2
<1>8. StreamTypes'
  BY <1>0, <1>3, <1>4, <1>7 DEF StreamTypes
<1>9. WriteInv'
  BY <1>0, <1>4 DEF WriteInv, StreamTypes
<1>10. CompleteInv'
  <2>1. \A q \in Writers : written'[q] <= FrameSize(q)
    <3>1. written'[m] <= FrameSize(m)
      BY <1>0, <1>1, <1>3
    <3> QED  BY <3>1, <1>0, <1>3 DEF CompleteInv
  <2>2. ASSUME NEW q \in Writers, written'[q] = FrameSize(q)
        PROVE  q \in late' \/ \E j \in 1..Len(sent') : sent'[j] = q
    <3>1. CASE q = m
      <4>1. CASE closing = "open"
        <5>1. Len(sent) + 1 \in 1..Len(sent') /\ sent'[Len(sent) + 1] = q
          BY <1>0, <1>7, <3>1, <4>1
        <5> QED  BY <5>1
      <4>2. CASE closing # "open"
        BY <1>7, <3>1, <4>2
      <4> QED  BY <4>1, <4>2
    <3>2. CASE q # m
      <4>1. q \in late \/ \E j \in 1..Len(sent) : sent[j] = q
        BY <1>0, <1>3, <2>2, <3>2 DEF CompleteInv
      <4>2. /\ late \subseteq late'
            /\ \A j \in 1..Len(sent) : j \in 1..Len(sent') /\ sent'[j] = sent[j]
        BY <1>0, <1>7
      <4> QED  BY <4>1, <4>2
    <3> QED  BY <3>1, <3>2
  <2>3. ASSUME NEW j \in 1..Len(sent') PROVE written'[sent'[j]] = FrameSize(sent'[j])
    <3>1. CASE closing = "open"
      <4>1. CASE j = Len(sent) + 1
        BY <1>1, <1>3, <1>7, <3>1, <4>1
      <4>2. CASE j # Len(sent) + 1
        <5>1. j \in 1..Len(sent) /\ sent'[j] = sent[j]
          BY <1>0, <1>7, <3>1, <4>2
        <5> QED  BY <5>1, <1>5
      <4> QED  BY <4>1, <4>2
    <3>2. CASE closing # "open"
      BY <1>5, <1>7, <3>2
    <3> QED  BY <3>1, <3>2
  <2>4. closing' = "open" => late' = {} /\ Len(received') <= Len(sent')
    BY <1>0, <1>7 DEF CompleteInv
  <2> QED  BY <2>1, <2>2, <2>3, <2>4 DEF CompleteInv
<1>11. ReceivedInv'
  <2>1. ASSUME NEW i \in 1..Len(received), i <= Len(sent') PROVE received[i] = sent'[i]
    <3>1. i \in 1..Len(sent) /\ sent'[i] = sent[i]
      BY <1>0, <1>7, <2>1 DEF CompleteInv
    <3> QED  BY <1>0, <3>1 DEF ReceivedInv
  <2> QED  BY <1>0, <1>5, <2>1 DEF ReceivedInv
<1>12. LinkInv'
  <2>1. CASE closing = "open"
    <3>1. wire'[Len(wire')] = <<m, FrameSize(m)>> /\ Len(wire') > 0
      BY <1>0, <1>1, <1>3
    <3>2. ASSUME NEW i \in 1..Len(wire'), NEW j \in 1..Len(sent'), j < Len(sent'),
                 wire'[i] = <<sent'[j], FrameSize(sent'[j])>>
          PROVE  i + 1 \in 1..Len(wire') /\ wire'[i + 1] = <<sent'[j + 1], 1>>
      <4>1. j \in 1..Len(sent) /\ sent'[j] = sent[j] /\ sent'[j] # m
        BY <1>0, <1>5, <1>7, <2>1, <3>2
      <4>2. CASE j < Len(sent)
        <5>1. sent'[j + 1] = sent[j + 1]
          BY <1>0, <1>7, <2>1, <4>1, <4>2
        <5> QED  BY <5>1, <1>5, <3>2, <4>1, <4>2
      <4>3. CASE j = Len(sent)
        <5>1. i \in 1..Len(wire) /\ wire[i] = <<sent[j], FrameSize(sent[j])>>
          BY <1>3, <3>2, <4>1
        <5>2. wire[Len(wire)] = wire[i]
          BY <5>1, <4>3, <1>0, <1>6, <2>1 DEF LinkInv
        <5>3. i = Len(wire)
          <6>1. Len(wire) \in 1..Len(wire)
            BY <5>1, <1>0
          <6> QED  BY <5>1, <5>2, <6>1, <1>0 DEF CellsInv
        <5>4. wire'[Len(wire) + 1] = <<m, 1>> /\ Len(wire) + 1 \in 1..Len(wire')
          BY <1>0, <1>1, <1>3
        <5> QED  BY <5>3, <5>4, <4>3, <1>7, <2>1
      <4> QED  BY <1>0, <4>1, <4>2, <4>3
    <3>3. Len(sent') > 0 /\ sent'[Len(sent')] = m
      BY <1>0, <1>7, <2>1
    <3> QED  BY <3>1, <3>2, <3>3 DEF LinkInv
  <2>2. CASE closing # "open"
    <3>1. ~Whole'
      BY <1>0, <2>2 DEF Whole
    <3> QED  BY <3>1, <1>5, <1>7, <2>2 DEF LinkInv
  <2> QED  BY <2>1, <2>2
<1>13. OrderInv'
  <2>1. ASSUME reader # "ended", Len(received) < Len(sent)
        PROVE  Cursor(sent[Len(received) + 1])'
    <3>1. Cursor(sent[Len(received) + 1]) /\ sent'[Len(received) + 1] = sent[Len(received) + 1]
      BY <1>0, <1>7, <2>1 DEF OrderInv
    <3>2. Len(wire') > 0 /\ wire'[1] = wire[1]
      BY <3>1, <1>5 DEF Cursor
    <3> QED  BY <1>0, <3>1, <3>2 DEF Cursor, Base
  <2>2. ASSUME reader # "ended", Len(received) >= Len(sent), Len(received) < Len(sent')
        PROVE  Cursor(sent[Len(received) + 1])'
    <3>1. closing = "open" /\ Len(received) = Len(sent)
      BY <1>0, <1>7, <2>2 DEF CompleteInv
    <3>2. wire = <<>> /\ buffer = <<>> /\ reader = "prefix"
      BY <1>0, <1>6, <2>2, <3>1 DEF OrderInv
    <3>3. wire'[1] = <<m, 1>> /\ Len(wire') > 0 /\ sent'[Len(received) + 1] = m
      BY <1>0, <1>1, <1>3, <1>7, <3>1, <3>2
    <3> QED  BY <1>0, <3>2, <3>3 DEF Cursor, Base
  <2>3. ASSUME Len(received) >= Len(sent') PROVE ~Whole'
    BY <1>0, <1>7, <2>3 DEF CompleteInv, Whole
  <2> QED  BY <1>0, <2>1, <2>2, <2>3 DEF OrderInv
<1> QED  BY <1>3, <1>8, <1>9, <1>10, <1>11, <1>12, <1>13 DEF StreamInv

(* A failed write, in the form of Puts.                                    *)
LEMMA PartIsPut ==
  ASSUME StreamTypes, NEW m \in Writers, LeavesPart(m)
  PROVE  \E k \in Nat : Puts(m, k) /\ written[m] + k < FrameSize(m)
<1>1. written[m] \in Nat /\ FrameSize(m) \in Nat
  BY FrameFacts DEF StreamTypes
<1>2. PICK k \in 0..(FrameSize(m) - written[m] - 1) :
        /\ wire' = wire \o SubSeq(Frame(m), written[m] + 1, written[m] + k)
        /\ written' = [written EXCEPT ![m] = @ + k]
  BY DEF LeavesPart
<1>3. k \in Nat /\ written[m] + k < FrameSize(m)
  BY <1>1
<1>4. Puts(m, k)
  BY <1>2, <1>3 DEF Puts
<1> QED  BY <1>3, <1>4

(* The Gateway's threads, but for a write that succeeds.                   *)
LEMMA NextThreads ==
  ASSUME StreamInv,
         \/ \E m \in Writers :
              EnterWrite(m) \/ LockWrite(m) \/ WriteTimeout(m) \/ FailWrite(m) \/ WriteBroken(m)
         \/ MarkClosed \/ CancelPendingIo \/ CloseHandle \/ ProbeLock \/ ProbeStart \/ ProbeEnd
  PROVE  StreamInv'
<1>0. /\ StreamTypes /\ WriteInv
      /\ writer \in [Writers -> {"idle", "queued", "writing", "timeout", "done", "refused",
                                 "failed"}]
      /\ writeLock \in Writers \cup {NoWriter} /\ NoWriter \notin Writers
  BY FramingAssumption DEF StreamInv, StreamTypes
<1>1. ASSUME NEW m \in Writers, EnterWrite(m) PROVE StreamInv'
  <2>1. /\ UNCHANGED <<written, wire, history, workerEnd, closing, writeLock>>
        /\ writer' \in [Writers -> {"idle", "queued", "writing", "timeout", "done", "refused",
                                    "failed"}]
        /\ writer'[m] \in {"queued", "failed"} /\ \A q \in Writers : q # m => writer'[q] = writer[q]
        /\ writer[m] = "idle"
    BY <1>0, <1>1 DEF EnterWrite
  <2>2. WriteInv' /\ (Whole' => Whole)
    BY <1>0, <2>1 DEF WriteInv, Whole
  <2> QED  BY <1>0, <2>1, <2>2, Quiet
<1>2. ASSUME NEW m \in Writers, LockWrite(m) PROVE StreamInv'
  <2>1. /\ UNCHANGED <<written, wire, history, workerEnd, closing>> /\ writeLock = NoWriter
        /\ writer' \in [Writers -> {"idle", "queued", "writing", "timeout", "done", "refused",
                                    "failed"}]
        /\ \A q \in Writers : q # m => writer'[q] = writer[q]
        /\ \/ writer'[m] = "writing" /\ writeLock' = m
           \/ writer'[m] = "refused" /\ writeLock' = writeLock
    BY <1>0, <1>2 DEF LockWrite
  <2>2. WriteInv' /\ (Whole' => Whole)
    BY <1>0, <2>1 DEF WriteInv, Whole
  <2>3. writeLock' \in Writers \cup {NoWriter}
    BY <2>1
  <2> QED  BY <1>0, <2>1, <2>2, <2>3, Quiet
<1>3. ASSUME NEW m \in Writers, WriteTimeout(m) PROVE StreamInv'
  <2>1. /\ UNCHANGED <<history, workerEnd, closing, writeLock>> /\ writer[m] = "writing"
        /\ writer' \in [Writers -> {"idle", "queued", "writing", "timeout", "done", "refused",
                                    "failed"}]
        /\ writer'[m] = "timeout" /\ \A q \in Writers : q # m => writer'[q] = writer[q]
    BY <1>0, <1>3 DEF WriteTimeout
  <2>2. WriteInv' /\ ~Whole'
    BY <1>0, <2>1 DEF WriteInv, Whole
  <2>3. PICK k \in Nat : Puts(m, k) /\ written[m] + k < FrameSize(m)
    BY <1>0, <1>3, PartIsPut DEF WriteTimeout
  <2> QED  BY <1>0, <2>1, <2>2, <2>3, AfterPart
<1>4. ASSUME NEW m \in Writers, FailWrite(m) PROVE StreamInv'
  <2>1. /\ UNCHANGED <<written, wire, history, workerEnd, closing>> /\ writer[m] = "timeout"
        /\ writer' \in [Writers -> {"idle", "queued", "writing", "timeout", "done", "refused",
                                    "failed"}]
        /\ writer'[m] = "failed" /\ \A q \in Writers : q # m => writer'[q] = writer[q]
        /\ writeLock' = NoWriter /\ closing # "open"
    BY <1>0, <1>4 DEF FailWrite
  <2>2. WriteInv' /\ (Whole' => Whole)
    BY <1>0, <2>1 DEF WriteInv, Whole
  <2> QED  BY <1>0, <2>1, <2>2, Quiet
<1>5. ASSUME NEW m \in Writers, WriteBroken(m) PROVE StreamInv'
  <2>1. /\ UNCHANGED <<written, wire, history, workerEnd, closing>> /\ writer[m] = "writing"
        /\ writer' \in [Writers -> {"idle", "queued", "writing", "timeout", "done", "refused",
                                    "failed"}]
        /\ writer'[m] = "failed" /\ \A q \in Writers : q # m => writer'[q] = writer[q]
        /\ writeLock' = NoWriter
    BY <1>0, <1>5 DEF WriteBroken
  <2>2. WriteInv' /\ (Whole' => Whole)
    BY <1>0, <2>1 DEF WriteInv, Whole
  <2> QED  BY <1>0, <2>1, <2>2, Quiet
<1>6. CASE MarkClosed \/ CloseHandle \/ ProbeLock \/ ProbeStart \/ ProbeEnd
  <2>1. /\ UNCHANGED <<written, wire, history, workerEnd, writer, writeLock>>
        /\ closing' = "open" => closing = "open"
    BY <1>6 DEF MarkClosed, CloseHandle, ProbeLock, ProbeStart, ProbeEnd
  <2>2. WriteInv' /\ (Whole' => Whole)
    BY <1>0, <2>1 DEF WriteInv, Whole
  <2> QED  BY <1>0, <2>1, <2>2, Quiet
<1>7. CASE CancelPendingIo
  <2>1. UNCHANGED <<history, workerEnd>> /\ closing' = "cancelled" /\ ~Whole'
    BY <1>7 DEF CancelPendingIo, Whole
  <2>2. CASE UNCHANGED <<writer, written, writeLock, wire>>
    <3>1. WriteInv'
      BY <1>0, <2>2 DEF WriteInv
    <3> QED  BY <1>0, <2>1, <2>2, <3>1, Quiet
  <2>3. ASSUME NEW q \in Writers, writer[q] = "writing", LeavesPart(q),
               writer' = [writer EXCEPT ![q] = "failed"], writeLock' = NoWriter
        PROVE  StreamInv'
    <3>1. /\ writer' \in [Writers -> {"idle", "queued", "writing", "timeout", "done", "refused",
                                      "failed"}]
          /\ writer'[q] = "failed" /\ \A x \in Writers : x # q => writer'[x] = writer[x]
      BY <1>0, <2>3
    <3>2. WriteInv'
      BY <1>0, <2>3, <3>1 DEF WriteInv
    <3>3. PICK k \in Nat : Puts(q, k) /\ written[q] + k < FrameSize(q)
      BY <1>0, <2>3, PartIsPut
    <3> QED  BY <1>0, <2>1, <2>3, <3>1, <3>2, <3>3, AfterPart
  <2> QED  BY <1>7, <2>2, <2>3 DEF CancelPendingIo
<1> QED  BY <1>1, <1>2, <1>3, <1>4, <1>5, <1>6, <1>7

(* A read takes c bytes out of the pipe; with the buffer they are a chunk. *)
Takes(c) ==
    /\ c \in 1..Len(wire)
    /\ wire' = SubSeq(wire, c + 1, Len(wire))
    /\ UNCHANGED written

Chunk(c) == buffer \o SubSeq(wire, 1, c)

(* What the pipe holds after a read, and what the reader has then.         *)
LEMMA Reads ==
  ASSUME StreamTypes, CellsInv, NEW c, Takes(c)
  PROVE  /\ wire' \in Seq(Cell) /\ Len(wire') = Len(wire) - c
         /\ \A i \in 1..Len(wire') : wire'[i] = wire[c + i] /\ c + i \in 1..Len(wire)
         /\ CellsInv'
         /\ Chunk(c) \in Seq(Cell) /\ Len(Chunk(c)) = Len(buffer) + c
         /\ \A i \in 1..Len(buffer) : Chunk(c)[i] = buffer[i]
         /\ \A i \in 1..c : Chunk(c)[Len(buffer) + i] = wire[i]
<1>1. /\ wire \in Seq(Cell) /\ buffer \in Seq(Cell) /\ Len(wire) \in Nat /\ Len(buffer) \in Nat
      /\ c \in 1..Len(wire) /\ c \in Nat /\ written' = written
  BY DEF StreamTypes, Takes
<1>2. \A i \in 1..Len(wire) : wire[i] \in Cell
  BY <1>1, ElementOfSeq
<1>3. /\ wire' \in Seq(Cell) /\ Len(wire') = Len(wire) - c
      /\ \A i \in 1..Len(wire') : wire'[i] = wire[c + i] /\ c + i \in 1..Len(wire)
  <2>1. \A i \in (c + 1)..Len(wire) : wire[i] \in Cell
    BY <1>1, <1>2
  <2>2. c + 1 \in Int /\ Len(wire) \in Int
    BY <1>1
  <2>3. /\ SubSeq(wire, c + 1, Len(wire)) \in Seq(Cell)
        /\ Len(SubSeq(wire, c + 1, Len(wire))) =
             IF c + 1 <= Len(wire) THEN Len(wire) - (c + 1) + 1 ELSE 0
        /\ \A i \in 1..(Len(wire) - (c + 1) + 1) :
             SubSeq(wire, c + 1, Len(wire))[i] = wire[(c + 1) + i - 1]
    BY <2>1, <2>2, SubSeqProperties
  <2>4. /\ wire' \in Seq(Cell)
        /\ Len(wire') = IF c + 1 <= Len(wire) THEN Len(wire) - (c + 1) + 1 ELSE 0
        /\ \A i \in 1..(Len(wire) - (c + 1) + 1) : wire'[i] = wire[(c + 1) + i - 1]
    BY <2>3 DEF Takes
  <2>5. Len(wire') = Len(wire) - c
    BY <2>4, <1>1
  <2>6. ASSUME NEW i \in 1..Len(wire') PROVE wire'[i] = wire[c + i] /\ c + i \in 1..Len(wire)
    <3>1. i \in 1..(Len(wire) - (c + 1) + 1) /\ (c + 1) + i - 1 = c + i /\ c + i \in 1..Len(wire)
      BY <2>5, <1>1
    <3> QED  BY <2>4, <3>1
  <2> QED  BY <2>4, <2>5, <2>6
<1>4. CellsInv'
  <2>1. ASSUME NEW i \in 1..Len(wire') PROVE wire'[i][2] \in 1..written'[wire'[i][1]]
    BY <1>1, <1>3 DEF CellsInv
  <2>2. ASSUME NEW i \in 1..Len(wire'), NEW j \in 1..Len(wire'), wire'[i] = wire'[j] PROVE i = j
    <3>1. c + i = c + j
      BY <1>3, <2>2 DEF CellsInv
    <3> QED  BY <3>1, <1>1, <1>3
  <2>3. ASSUME NEW i \in 1..Len(wire'), written'[wire'[i][1]] = FrameSize(wire'[i][1]),
               NEW d \in 0..(FrameSize(wire'[i][1]) - wire'[i][2])
        PROVE  i + d \in 1..Len(wire') /\ wire'[i + d] = <<wire'[i][1], wire'[i][2] + d>>
    <3>1. c + i \in 1..Len(wire) /\ wire'[i] = wire[c + i]
      BY <1>3
    <3>2. (c + i) + d \in 1..Len(wire) /\ wire[(c + i) + d] = <<wire'[i][1], wire'[i][2] + d>>
      BY <3>1, <1>1, <2>3 DEF CellsInv
    <3>3. i + d \in 1..Len(wire') /\ c + (i + d) = (c + i) + d
      <4>1. d \in Nat /\ i \in Nat
        BY <2>3
      <4> QED  BY <3>2, <1>1, <1>3, <4>1
    <3> QED  BY <3>2, <3>3, <1>3
  <2> QED  BY <2>1, <2>2, <2>3 DEF CellsInv
<1>5. /\ SubSeq(wire, 1, c) \in Seq(Cell) /\ Len(SubSeq(wire, 1, c)) = c
      /\ \A i \in 1..c : SubSeq(wire, 1, c)[i] = wire[i]
  <2>1. \A i \in 1..c : wire[i] \in Cell
    BY <1>1, <1>2
  <2>2. 1 \in Int /\ c \in Int
    BY <1>1
  <2>3. /\ SubSeq(wire, 1, c) \in Seq(Cell)
        /\ Len(SubSeq(wire, 1, c)) = IF 1 <= c THEN c - 1 + 1 ELSE 0
        /\ \A i \in 1..(c - 1 + 1) : SubSeq(wire, 1, c)[i] = wire[1 + i - 1]
    BY <2>1, <2>2, SubSeqProperties
  <2> QED  BY <2>3, <1>1
<1> DEFINE t == SubSeq(wire, 1, c)
<1>6. Chunk(c) = buffer \o t /\ t \in Seq(Cell) /\ Len(t) = c /\ \A i \in 1..c : t[i] = wire[i]
  BY <1>5 DEF Chunk
<1> HIDE DEF t
<1>7. /\ Chunk(c) \in Seq(Cell) /\ Len(Chunk(c)) = Len(buffer) + c
      /\ \A i \in 1..(Len(buffer) + c) :
           Chunk(c)[i] = IF i <= Len(buffer) THEN buffer[i] ELSE t[i - Len(buffer)]
  BY <1>1, <1>6, ConcatProperties
<1>8. \A i \in 1..Len(buffer) : Chunk(c)[i] = buffer[i]
  BY <1>1, <1>7
<1>9. ASSUME NEW i \in 1..c PROVE Chunk(c)[Len(buffer) + i] = wire[i]
  <2>1. /\ Len(buffer) + i \in 1..(Len(buffer) + c) /\ ~(Len(buffer) + i <= Len(buffer))
        /\ Len(buffer) + i - Len(buffer) = i
    BY <1>1
  <2>2. Chunk(c)[Len(buffer) + i] = t[Len(buffer) + i - Len(buffer)]
    BY <1>7, <2>1
  <2> QED  BY <2>1, <2>2, <1>6
<1> QED  BY <1>3, <1>4, <1>7, <1>8, <1>9

(* While a frame sent before the close is not received, the chunk is the   *)
(* next part of it.                                                        *)
LEMMA InFrame ==
  ASSUME StreamInv, reader # "ended", Len(received) < Len(sent),
         NEW c, Takes(c), c <= need - Len(buffer),
         NEW m, m = sent[Len(received) + 1]
  PROVE  /\ m \in Writers /\ written[m] = FrameSize(m)
         /\ Base \in Nat /\ (reader = "body" => need = SizeOf[m])
         /\ Base + need <= FrameSize(m) /\ (reader = "body" => Base + need = FrameSize(m))
         /\ \A i \in 1..(Len(buffer) + c) : Chunk(c)[i] = <<m, Base + i>>
         /\ wire[c] = <<m, Base + Len(buffer) + c>>
         /\ Base + Len(buffer) + c < FrameSize(m) =>
              Len(wire') > 0 /\ wire'[1] = <<m, Base + Len(buffer) + c + 1>>
<1>0. /\ StreamTypes /\ CellsInv /\ Cursor(m) /\ sent \in Seq(Writers) /\ need \in Nat
      /\ Len(buffer) \in Nat /\ Len(wire) \in Nat /\ Len(sent) \in Nat /\ Len(received) \in Nat
      /\ c \in 1..Len(wire) /\ reader \in {"prefix", "body"}
      /\ reader = "prefix" => need = PrefixSize
  BY DEF StreamInv, StreamTypes, OrderInv, Takes
<1>1. Len(received) + 1 \in 1..Len(sent)
  BY <1>0
<1>2. m \in Writers /\ written[m] = FrameSize(m)
  BY <1>0, <1>1, ElementOfSeq DEF StreamInv, CompleteInv
<1>3. /\ FrameSize(m) \in Nat /\ PrefixSize \in Nat /\ SizeOf[m] \in Nat
      /\ PrefixSize > 0 /\ SizeOf[m] > 0 /\ FrameSize(m) = PrefixSize + SizeOf[m]
  BY <1>2, FrameFacts
<1>4. /\ Base \in Nat /\ (reader = "body" => need = SizeOf[m])
      /\ Base + need <= FrameSize(m) /\ (reader = "body" => Base + need = FrameSize(m))
  BY <1>0, <1>3 DEF Base, Cursor
<1>5. wire[1] = <<m, Base + Len(buffer) + 1>> /\ 1 \in 1..Len(wire)
      /\ \A i \in 1..Len(buffer) : buffer[i] = <<m, Base + i>>
  BY <1>0 DEF Cursor
<1>6. ASSUME NEW d \in 0..(FrameSize(m) - (Base + Len(buffer) + 1))
      PROVE  1 + d \in 1..Len(wire) /\ wire[1 + d] = <<m, (Base + Len(buffer) + 1) + d>>
  <2>1. wire[1][1] = m /\ wire[1][2] = Base + Len(buffer) + 1
    BY <1>5
  <2>2. written[wire[1][1]] = FrameSize(wire[1][1]) =>
          \A x \in 0..(FrameSize(wire[1][1]) - wire[1][2]) :
            1 + x \in 1..Len(wire) /\ wire[1 + x] = <<wire[1][1], wire[1][2] + x>>
    BY ONLY <1>0, <1>5, Zenon DEF CellsInv
  <2> QED  BY <2>1, <2>2, <1>2
<1>7. ASSUME NEW i \in 1..c PROVE wire[i] = <<m, Base + Len(buffer) + i>>
  <2>1. /\ i - 1 \in 0..(FrameSize(m) - (Base + Len(buffer) + 1)) /\ 1 + (i - 1) = i
        /\ (Base + Len(buffer) + 1) + (i - 1) = Base + Len(buffer) + i
    <3>1. /\ i \in Nat /\ 1 <= i /\ i <= c /\ c \in Nat /\ c <= need - Len(buffer)
          /\ need \in Nat /\ Len(buffer) \in Nat /\ FrameSize(m) \in Nat
      BY <1>0, <1>3
    <3> QED  BY ONLY <3>1, <1>4
  <2>2. wire[1 + (i - 1)] = <<m, (Base + Len(buffer) + 1) + (i - 1)>>
    BY <2>1, <1>6
  <2> QED  BY <2>1, <2>2
<1>8. ASSUME Base + Len(buffer) + c < FrameSize(m)
      PROVE  Len(wire') > 0 /\ wire'[1] = <<m, Base + Len(buffer) + c + 1>>
  <2>1. /\ c \in 0..(FrameSize(m) - (Base + Len(buffer) + 1))
        /\ (Base + Len(buffer) + 1) + c = Base + Len(buffer) + c + 1 /\ 1 + c = c + 1
    BY <1>0, <1>3, <1>4, <1>8
  <2>2. c + 1 \in 1..Len(wire) /\ wire[c + 1] = <<m, Base + Len(buffer) + c + 1>>
    BY <2>1, <1>6
  <2>3. Len(wire') = Len(wire) - c /\ \A i \in 1..Len(wire') : wire'[i] = wire[c + i]
    BY <1>0, Reads
  <2>4. 1 \in 1..Len(wire') /\ Len(wire') > 0
    BY <1>0, <2>2, <2>3
  <2> QED  BY <2>2, <2>3, <2>4
<1>9. ASSUME NEW i \in 1..(Len(buffer) + c) PROVE Chunk(c)[i] = <<m, Base + i>>
  <2>1. /\ \A j \in 1..Len(buffer) : Chunk(c)[j] = buffer[j]
        /\ \A j \in 1..c : Chunk(c)[Len(buffer) + j] = wire[j]
    BY <1>0, Reads
  <2>2. CASE i <= Len(buffer)
    <3>1. i \in 1..Len(buffer)
      BY <1>0, <2>2
    <3> QED  BY <3>1, <1>5, <2>1
  <2>3. CASE ~(i <= Len(buffer))
    <3>1. /\ i - Len(buffer) \in 1..c /\ Len(buffer) + (i - Len(buffer)) = i
          /\ Base + Len(buffer) + (i - Len(buffer)) = Base + i
      BY <1>0, <1>4, <2>3
    <3>2. Chunk(c)[Len(buffer) + (i - Len(buffer))] = <<m, Base + Len(buffer) + (i - Len(buffer))>>
      BY <2>1, <3>1, <1>7
    <3> QED  BY <3>1, <3>2
  <2> QED  BY <2>2, <2>3
<1>10. wire[c] = <<m, Base + Len(buffer) + c>>
  <2>1. c \in 1..c
    BY <1>0
  <2> QED  BY <1>7, <2>1
<1> QED  BY <1>2, <1>4, <1>8, <1>9, <1>10

(* What is left in the pipe is as it was.                                  *)
LEMMA ReadsLinks ==
  ASSUME StreamInv, NEW c, Takes(c), UNCHANGED gatewayEnd PROVE LinkInv'
<1>0. /\ StreamTypes /\ CellsInv /\ LinkInv /\ Len(wire) \in Nat /\ c \in 1..Len(wire)
      /\ UNCHANGED <<sent, closing, writeLock, writer>> /\ Len(sent) \in Nat
  BY DEF StreamInv, StreamTypes, Takes, gatewayEnd, history
<1>1. /\ Len(wire') = Len(wire) - c
      /\ \A i \in 1..Len(wire') : wire'[i] = wire[c + i] /\ c + i \in 1..Len(wire)
  BY <1>0, Reads
<1>2. Whole' <=> Whole
  BY <1>0 DEF Whole
<1>3. ASSUME NEW i \in 1..Len(wire'), NEW k \in 1..Len(sent), k < Len(sent),
             wire'[i] = <<sent[k], FrameSize(sent[k])>>
      PROVE  i + 1 \in 1..Len(wire') /\ wire'[i + 1] = <<sent[k + 1], 1>>
  <2>1. c + i \in 1..Len(wire) /\ wire[c + i] = <<sent[k], FrameSize(sent[k])>>
    BY <1>1, <1>3
  <2>2. (c + i) + 1 \in 1..Len(wire) /\ wire[(c + i) + 1] = <<sent[k + 1], 1>>
    BY <1>0, <1>3, <2>1 DEF LinkInv
  <2>3. i + 1 \in 1..Len(wire') /\ c + (i + 1) = (c + i) + 1
    BY <1>0, <1>1, <2>2
  <2> QED  BY <1>1, <2>2, <2>3
<1>4. ASSUME Len(wire') > 0 PROVE Len(wire) > 0 /\ wire'[Len(wire')] = wire[Len(wire)]
  <2>1. Len(wire') \in 1..Len(wire') /\ c + Len(wire') = Len(wire) /\ Len(wire) > 0
    BY <1>0, <1>1, <1>4
  <2> QED  BY <1>1, <2>1
<1> QED  BY <1>0, <1>2, <1>3, <1>4 DEF LinkInv

(* What a read of the session loop is for the channel.                     *)
Outcome ==
    \/ reader' # "ended" /\ UNCHANGED received
    \/ reader' = "ended" /\ UNCHANGED received
    \/ /\ reader' # "ended" /\ Len(received) < Len(sent)
       /\ received' = Append(received, sent[Len(received) + 1])
    \/ /\ reader' # "ended" /\ Len(received) >= Len(sent)
       /\ \E m \in late : /\ \A i \in 1..Len(received) : received[i] # m
                          /\ received' = Append(received, m)

(* A part of a frame, or a refused one.                                    *)
LEMMA ReadsPart ==
  ASSUME StreamInv, NEW c, Takes(c), UNCHANGED <<gatewayEnd, received>>,
         buffer' \in Seq(Cell), reader' \in {"prefix", "body", "ended"}, need' \in Nat,
         reader' # "ended" => Len(buffer') < need',
         reader' = "prefix" => need' = PrefixSize,
         reader' # "ended" => OrderInv'
  PROVE  StreamInv'
<1>0. /\ StreamTypes /\ CellsInv /\ CompleteInv /\ ReceivedInv /\ WriteInv
      /\ UNCHANGED <<sent, late, closing, writeLock, writer, written, received>>
  BY DEF StreamInv, gatewayEnd, history
<1>1. /\ wire' \in Seq(Cell) /\ CellsInv'
      /\ \A i \in 1..Len(wire') : wire'[i] = wire[c + i] /\ c + i \in 1..Len(wire)
  BY <1>0, Reads
<1>2. StreamTypes'
  BY <1>0, <1>1 DEF StreamTypes
<1>3. WriteInv' /\ CompleteInv'
  BY <1>0 DEF WriteInv, CompleteInv
<1>4. ReceivedInv'
  BY <1>0, <1>1 DEF ReceivedInv
<1>5. LinkInv'
  BY ReadsLinks
<1>6. OrderInv'
  BY DEF OrderInv
<1> QED  BY <1>1, <1>2, <1>3, <1>4, <1>5, <1>6 DEF StreamInv

(* The last byte of a payload.                                             *)
LEMMA ReadsMessage ==
  ASSUME StreamInv, NEW c, Takes(c), UNCHANGED gatewayEnd, reader = "body",
         Len(Chunk(c)) = need, IsPayload(Chunk(c)),
         reader' = "prefix", need' = PrefixSize, buffer' = <<>>,
         received' = Append(received, Chunk(c)[1][1])
  PROVE  StreamInv' /\ Outcome
<1> DEFINE m == Chunk(c)[1][1]
<1>0. /\ StreamTypes /\ CellsInv /\ CompleteInv /\ ReceivedInv /\ WriteInv /\ LinkInv /\ OrderInv
      /\ UNCHANGED <<sent, late, closing, writeLock, writer, written>>
      /\ Len(wire) \in Nat /\ c \in 1..Len(wire) /\ Len(buffer) \in Nat /\ need \in Nat
      /\ Len(sent) \in Nat /\ Len(received) \in Nat /\ received \in Seq(Writers)
      /\ sent \in Seq(Writers)
  BY DEF StreamInv, StreamTypes, gatewayEnd, history, Takes
<1>1. /\ wire' \in Seq(Cell) /\ CellsInv' /\ Len(wire') = Len(wire) - c
      /\ \A i \in 1..Len(wire') : wire'[i] = wire[c + i] /\ c + i \in 1..Len(wire)
      /\ Chunk(c) \in Seq(Cell) /\ Len(Chunk(c)) = Len(buffer) + c
      /\ \A i \in 1..Len(buffer) : Chunk(c)[i] = buffer[i]
      /\ \A i \in 1..c : Chunk(c)[Len(buffer) + i] = wire[i]
  BY <1>0, Reads
<1>2. m \in Writers
  <2>1. 1 \in 1..Len(Chunk(c))
    BY <1>0, <1>1
  <2>2. Chunk(c)[1] \in Writers \X Nat
    BY <1>1, <2>1, ElementOfSeq DEF Cell
  <2> QED  BY <2>2
<1>3. Chunk(c) = SubSeq(Frame(m), PrefixSize + 1, FrameSize(m))
  BY DEF IsPayload
<1> HIDE DEF m
<1>4. /\ FrameSize(m) \in Nat /\ PrefixSize \in Nat /\ SizeOf[m] \in Nat
      /\ PrefixSize > 0 /\ SizeOf[m] > 0 /\ FrameSize(m) = PrefixSize + SizeOf[m]
  BY <1>2, FrameFacts
<1>5. Len(Chunk(c)) = SizeOf[m] /\ \A i \in 1..SizeOf[m] : Chunk(c)[i] = <<m, PrefixSize + i>>
  <2>1. /\ Len(SubSeq(Frame(m), PrefixSize + 1, PrefixSize + SizeOf[m])) = SizeOf[m]
        /\ \A i \in 1..SizeOf[m] :
             SubSeq(Frame(m), PrefixSize + 1, PrefixSize + SizeOf[m])[i] = <<m, PrefixSize + i>>
    <3>1. PrefixSize + SizeOf[m] <= FrameSize(m) /\ PrefixSize \in Nat /\ SizeOf[m] \in Nat
      BY <1>4
    <3> QED  BY ONLY <1>2, <3>1, PartFacts
  <2>2. Chunk(c) = SubSeq(Frame(m), PrefixSize + 1, PrefixSize + SizeOf[m])
    BY <1>3, <1>4
  <2> QED  BY <2>1, <2>2
<1>6. wire[c] = <<m, FrameSize(m)>>
  <2>0. Len(buffer) + c = SizeOf[m]
    BY <1>1, <1>5
  <2>1. c \in 1..c /\ Len(buffer) + c \in 1..SizeOf[m]
        /\ PrefixSize + (Len(buffer) + c) = FrameSize(m)
    BY <1>0, <1>4, <2>0
  <2> QED  BY <2>1, <1>1, <1>5
<1>7. written[m] = FrameSize(m)
  <2>1. wire[c][1] = m /\ wire[c][2] = FrameSize(m)
    BY <1>6
  <2>2. FrameSize(m) \in 1..written[m] /\ written[m] \in Nat /\ written[m] <= FrameSize(m)
    BY <2>1, <1>0, <1>2 DEF CellsInv, CompleteInv, StreamTypes
  <2> QED  BY <2>2, <1>4
<1>8. \A i \in 1..Len(received) : received[i] # m
  BY <1>0, <1>6 DEF ReceivedInv
<1>9. ASSUME Len(received) < Len(sent) PROVE m = sent[Len(received) + 1]
  <2>1. c <= need - Len(buffer)
    BY <1>0, <1>1
  <2>2. wire[c] = <<sent[Len(received) + 1], Base + Len(buffer) + c>>
    BY <1>9, <2>1, InFrame
  <2> QED  BY <2>2, <1>6
<1>10. ASSUME Len(received) >= Len(sent) PROVE m \in late /\ closing # "open"
  <2>1. ASSUME NEW k \in 1..Len(sent), sent[k] = m PROVE FALSE
    <3>1. k \in 1..Len(received) /\ received[k] = sent[k]
      BY <1>0, <1>10, <2>1 DEF ReceivedInv
    <3> QED  BY <3>1, <2>1, <1>8
  <2>2. m \in late
    BY <2>1, <1>0, <1>2, <1>7 DEF CompleteInv
  <2> QED  BY <2>2, <1>0 DEF CompleteInv
<1>11. /\ received' = Append(received, m)
       /\ received' \in Seq(Writers) /\ Len(received') = Len(received) + 1
       /\ \A i \in 1..Len(received) : received'[i] = received[i]
       /\ received'[Len(received) + 1] = m
  <2>1. received' = Append(received, m)
    BY DEF m
  <2> QED  BY <2>1, <1>0, <1>2, AppendProperties
<1>12. Outcome
  BY <1>8, <1>9, <1>10, <1>11 DEF Outcome
<1>13. StreamTypes' /\ WriteInv'
  <2>1. <<>> \in Seq(Cell) /\ Len(<<>>) = 0
    OBVIOUS
  <2> QED  BY <2>1, <1>0, <1>1, <1>4, <1>11 DEF StreamTypes, WriteInv
<1>14. CompleteInv'
  <2>1. closing = "open" => Len(received') <= Len(sent)
    BY <1>0, <1>10, <1>11
  <2> QED  BY <2>1, <1>0 DEF CompleteInv
<1>15. ASSUME NEW j \in 1..Len(wire') PROVE wire'[j] # <<m, FrameSize(m)>>
  <2>1. wire'[j] = wire[c + j] /\ c + j \in 1..Len(wire) /\ c + j # c
    BY <1>0, <1>1
  <2>2. wire[c + j] # wire[c]
    BY <2>1, <1>0 DEF CellsInv
  <2> QED  BY <2>1, <2>2, <1>6
<1>16. ReceivedInv'
  <2> SUFFICES ASSUME NEW i \in 1..Len(received')
               PROVE  /\ i <= Len(sent) => received'[i] = sent[i]
                      /\ written[received'[i]] = FrameSize(received'[i])
                      /\ \A j \in 1..Len(wire') :
                           wire'[j] # <<received'[i], FrameSize(received'[i])>>
    BY <1>0 DEF ReceivedInv
  <2>1. CASE i = Len(received) + 1
    <3>1. received'[i] = m /\ (i <= Len(sent) => Len(received) < Len(sent))
      BY <2>1, <1>0, <1>11
    <3>2. i <= Len(sent) => received'[i] = sent[i]
      BY <2>1, <3>1, <1>9
    <3> QED  BY <3>1, <3>2, <1>7, <1>15
  <2>2. CASE i # Len(received) + 1
    <3>1. i \in 1..Len(received) /\ received'[i] = received[i]
      BY <2>2, <1>0, <1>11
    <3> QED  BY <3>1, <1>0, <1>1 DEF ReceivedInv
  <2> QED  BY <2>1, <2>2
<1>17. LinkInv'
  BY ReadsLinks
<1>18. OrderInv'
  <2>1. ASSUME Len(received') < Len(sent) PROVE Cursor(sent[Len(received) + 1])'
    <3>1. /\ Len(received) + 1 \in 1..Len(sent) /\ Len(received) + 1 < Len(sent)
          /\ Len(received) < Len(sent)
      BY <2>1, <1>0, <1>11
    <3>2. wire[c] = <<sent[Len(received) + 1], FrameSize(sent[Len(received) + 1])>>
      BY <3>1, <1>6, <1>9
    <3>3. c + 1 \in 1..Len(wire) /\ wire[c + 1] = <<sent[(Len(received) + 1) + 1], 1>>
      BY <3>1, <3>2, <1>0 DEF LinkInv
    <3>4. 1 \in 1..Len(wire') /\ Len(wire') > 0 /\ wire'[1] = <<sent[(Len(received) + 1) + 1], 1>>
      BY <3>3, <1>0, <1>1
    <3>5. (Base = 0 /\ Len(buffer) = 0)'
      BY DEF Base
    <3>6. sent'[Len(received') + 1] = sent[(Len(received) + 1) + 1]
      BY <1>0, <1>11
    <3> QED  BY <3>4, <3>5, <3>6, <1>0, <1>11 DEF Cursor
  <2>2. ASSUME Len(received') >= Len(sent), Whole' PROVE wire' = <<>>
    <3>1. Whole /\ closing = "open"
      BY <2>2, <1>0 DEF Whole
    <3>2. Len(received) + 1 = Len(sent) /\ m = sent[Len(sent)]
      BY <2>2, <3>1, <1>0, <1>9, <1>10, <1>11
    <3>3. wire[Len(wire)] = wire[c] /\ Len(wire) \in 1..Len(wire)
      BY <3>1, <3>2, <1>0, <1>6 DEF LinkInv
    <3>4. Len(wire) = c
      BY <3>3, <1>0 DEF CellsInv
    <3>5. Len(wire') = 0
      BY <3>4, <1>1, <1>0
    <3> QED  BY <3>5, <1>1, EmptySeq
  <2> QED  BY <2>1, <2>2, <1>0 DEF OrderInv
<1> QED  BY <1>1, <1>12, <1>13, <1>14, <1>16, <1>17, <1>18 DEF StreamInv

(* A read: a part, a message, or a frame that is refused.                  *)
LEMMA NextRead ==
  ASSUME StreamInv, NEW c, ReadSome(c) PROVE StreamInv' /\ Outcome
<1>0. /\ StreamTypes /\ CellsInv /\ OrderInv /\ UNCHANGED gatewayEnd /\ reader # "ended"
      /\ Len(wire) \in Nat /\ Len(buffer) \in Nat /\ need \in Nat /\ buffer \in Seq(Cell)
      /\ Len(sent) \in Nat /\ Len(received) \in Nat
      /\ reader \in {"prefix", "body"} /\ (reader = "prefix" => need = PrefixSize)
      /\ UNCHANGED <<sent, late, closing, writeLock, writer, written>>
  BY DEF StreamInv, StreamTypes, ReadSome, gatewayEnd, history
<1>1. Takes(c) /\ c \in 1..Len(wire) /\ c <= need - Len(buffer)
  BY <1>0 DEF ReadSome, Takes
<1>2. /\ Chunk(c) \in Seq(Cell) /\ Len(Chunk(c)) = Len(buffer) + c
      /\ wire' \in Seq(Cell)
  BY <1>0, <1>1, Reads
<1>3. Whole' <=> Whole
  BY <1>0 DEF Whole
<1>4. ~(Len(received) >= Len(sent) /\ Whole)
  BY <1>0, <1>1 DEF OrderInv
<1>5. PrefixSize \in Nat /\ PrefixSize > 0 /\ MaxMessageSize \in Nat
  BY FramingAssumption
<1>6. CASE /\ Len(Chunk(c)) < need /\ buffer' = Chunk(c)
           /\ UNCHANGED <<reader, need, received, torn, malformed>>
  <2>1. OrderInv'
    <3>1. ASSUME Len(received) < Len(sent) PROVE Cursor(sent[Len(received) + 1])'
      <4> DEFINE m == sent[Len(received) + 1]
      <4>0. /\ m \in Writers /\ Base \in Nat /\ Base + need <= FrameSize(m)
            /\ (reader = "body" => need = SizeOf[m])
        BY <3>1, <1>0, <1>1, InFrame
      <4>1. \A i \in 1..(Len(buffer) + c) : Chunk(c)[i] = <<m, Base + i>>
        BY <3>1, <1>0, <1>1, InFrame
      <4>1a. Base + Len(buffer) + c < FrameSize(m) =>
              Len(wire') > 0 /\ wire'[1] = <<m, Base + Len(buffer) + c + 1>>
        BY <3>1, <1>0, <1>1, InFrame
      <4>2. m' = m /\ Base' = Base
        BY <1>0, <1>6 DEF Base
      <4> HIDE DEF m
      <4>3. /\ Base + Len(buffer) + c < FrameSize(m)
            /\ Base + (Len(buffer) + c) + 1 = Base + Len(buffer) + c + 1
        <5>1. FrameSize(m) \in Nat
          BY <4>0, FrameFacts
        <5> QED  BY <1>0, <1>1, <1>2, <1>6, <4>0, <5>1
      <4>4. Len(wire') > 0 /\ wire'[1] = <<m, Base + Len(buffer') + 1>>
        BY <4>1a, <4>3, <1>2, <1>6
      <4>5. \A i \in 1..Len(buffer') : buffer'[i] = <<m, Base + i>>
        BY <4>1, <1>2, <1>6
      <4>6. Cursor(m)'
        BY <4>0, <4>2, <4>4, <4>5, <1>6 DEF Cursor
      <4> QED  BY <4>6 DEF m
    <3> QED  BY <3>1, <1>0, <1>3, <1>4, <1>6 DEF OrderInv
  <2>2. StreamInv'
    BY <1>0, <1>1, <1>2, <1>6, <2>1, ReadsPart
  <2> QED  BY <2>2, <1>0, <1>6 DEF Outcome
<1>7. CASE RefuseFrame
  <2>1. reader' = "ended" /\ buffer' = <<>> /\ UNCHANGED <<need, received>>
    BY <1>7 DEF RefuseFrame
  <2>2. StreamInv'
    <3>1. <<>> \in Seq(Cell)
      OBVIOUS
    <3> QED  BY <1>0, <1>1, <2>1, <3>1, ReadsPart
  <2> QED  BY <2>1, <2>2 DEF Outcome
<1>8. ASSUME Len(Chunk(c)) = need, reader = "prefix", NEW size \in DeclaredSizes(Chunk(c)),
             size \in 1..MaxMessageSize, NextPart("body", size), UNCHANGED received
      PROVE  StreamInv' /\ Outcome
  <2>0. reader' = "body" /\ need' = size /\ buffer' = <<>> /\ size \in Nat /\ size > 0
        /\ buffer' \in Seq(Cell) /\ Len(buffer') = 0
    BY <1>5, <1>8 DEF NextPart
  <2>1. OrderInv'
    <3>1. ASSUME Len(received) < Len(sent) PROVE Cursor(sent[Len(received) + 1])'
      <4> DEFINE m == sent[Len(received) + 1]
      <4>1. /\ m \in Writers
            /\ \A i \in 1..(Len(buffer) + c) : Chunk(c)[i] = <<m, Base + i>>
            /\ Base + Len(buffer) + c < FrameSize(m) =>
                 Len(wire') > 0 /\ wire'[1] = <<m, Base + Len(buffer) + c + 1>>
        BY <3>1, <1>0, <1>1, InFrame
      <4>2. m' = m /\ Base = 0 /\ Base' = PrefixSize
        BY <1>0, <1>8, <2>0 DEF Base
      <4> HIDE DEF m
      <4>3. /\ FrameSize(m) \in Nat /\ SizeOf[m] \in Nat /\ SizeOf[m] > 0
            /\ FrameSize(m) = PrefixSize + SizeOf[m]
        BY <4>1, FrameFacts
      <4>4. Len(buffer) + c = PrefixSize
        BY <1>0, <1>2, <1>8
      <4>5. ASSUME NEW i \in 1..PrefixSize PROVE Chunk(c)[i] = <<m, i>>
        <5>1. Chunk(c)[i] = <<m, 0 + i>>
          BY <4>1, <4>2, <4>4
        <5> QED  BY <5>1, <1>5
      <4>6. Chunk(c) = SubSeq(Frame(m), 1, PrefixSize) /\ Chunk(c)[1][1] = m
        <5>1. /\ SubSeq(Frame(m), 0 + 1, 0 + PrefixSize) \in Seq(Cell)
              /\ Len(SubSeq(Frame(m), 0 + 1, 0 + PrefixSize)) = PrefixSize
              /\ \A i \in 1..PrefixSize : SubSeq(Frame(m), 0 + 1, 0 + PrefixSize)[i] = <<m, 0 + i>>
          <6>1. 0 + PrefixSize <= FrameSize(m) /\ 0 \in Nat
            BY <4>3, <1>5
          <6> QED  BY ONLY <4>1, <1>5, <6>1, PartFacts
        <5>2. /\ SubSeq(Frame(m), 1, PrefixSize) \in Seq(Cell)
              /\ Len(SubSeq(Frame(m), 1, PrefixSize)) = PrefixSize
              /\ \A i \in 1..PrefixSize : SubSeq(Frame(m), 1, PrefixSize)[i] = <<m, i>>
          BY <5>1, <1>5
        <5>3. Len(Chunk(c)) = PrefixSize
          BY <1>2, <4>4
        <5>4. Chunk(c) = SubSeq(Frame(m), 1, PrefixSize)
          BY <5>2, <5>3, <4>5, <1>2, SeqEqual
        <5>5. Chunk(c)[1] = <<m, 1>>
          BY <4>5, <1>5
        <5>6. Chunk(c)[1][1] = m
          BY ONLY <5>5
        <5> QED  BY <5>4, <5>6
      <4>7. size = SizeOf[m]
        BY <4>6, <1>8 DEF DeclaredSizes
      <4>8. Len(wire') > 0 /\ wire'[1] = <<m, PrefixSize + 1>>
        <5>1. Base + Len(buffer) + c = PrefixSize
          BY <4>2, <4>4, <1>0, <1>1
        <5> QED  BY <5>1, <4>1, <4>3, <1>5
      <4>9. PrefixSize + 0 + 1 = PrefixSize + 1
        BY <1>5
      <4>10. Cursor(m)'
        BY <4>2, <4>7, <4>8, <4>9, <2>0 DEF Cursor
      <4> QED  BY <4>10 DEF m
    <3> QED  BY <3>1, <1>0, <1>3, <1>4, <1>8 DEF OrderInv
  <2>2. StreamInv'
    BY <1>0, <1>1, <1>8, <2>0, <2>1, ReadsPart
  <2> QED  BY <2>0, <2>2, <1>8 DEF Outcome
<1>9. ASSUME Len(Chunk(c)) = need, reader = "body", IsPayload(Chunk(c)),
             NextPart("prefix", PrefixSize), received' = Append(received, Chunk(c)[1][1])
      PROVE  StreamInv' /\ Outcome
  <2>1. reader' = "prefix" /\ need' = PrefixSize /\ buffer' = <<>>
    BY <1>9 DEF NextPart
  <2> QED  BY <2>1, <1>0, <1>1, <1>9, ReadsMessage
<1> QED
  <2>1. \/ /\ Len(Chunk(c)) < need
           /\ buffer' = Chunk(c)
           /\ UNCHANGED <<reader, need, received, torn, malformed>>
        \/ /\ Len(Chunk(c)) = need /\ reader = "prefix"
           /\ \E size \in DeclaredSizes(Chunk(c)) :
                \/ /\ size \in 1..MaxMessageSize
                   /\ NextPart("body", size)
                   /\ UNCHANGED <<received, torn, malformed>>
                \/ /\ size = 0 \/ size > MaxMessageSize
                   /\ RefuseFrame
        \/ /\ Len(Chunk(c)) = need /\ reader = "body"
           /\ \/ /\ IsPayload(Chunk(c))
                 /\ NextPart("prefix", PrefixSize)
                 /\ received' = Append(received, Chunk(c)[1][1])
                 /\ UNCHANGED <<torn, malformed>>
              \/ /\ ~IsPayload(Chunk(c))
                 /\ RefuseFrame
    BY DEF ReadSome, Chunk
  <2> QED  BY <2>1, <1>6, <1>7, <1>8, <1>9

(* A time-out or the end of the session between two reads.                 *)
LEMMA NextQuietRead ==
  ASSUME StreamInv, ReadTimeout \/ ReadEnds PROVE StreamInv' /\ Outcome
<1>0. /\ StreamTypes /\ CellsInv /\ CompleteInv /\ ReceivedInv /\ WriteInv /\ LinkInv /\ OrderInv
      /\ UNCHANGED <<sent, late, closing, writeLock, writer, written, wire, received>>
      /\ reader # "ended" /\ buffer' = <<>> /\ Len(sent) \in Nat /\ Len(received) \in Nat
  BY DEF StreamInv, StreamTypes, ReadTimeout, ReadEnds, NextPart, gatewayEnd, history
<1>1. \/ reader' = "ended" /\ need' = need
      \/ reader' = "prefix" /\ need' = PrefixSize /\ wire = <<>>
  BY DEF ReadTimeout, ReadEnds, NextPart
<1>2. StreamTypes'
  <2>1. <<>> \in Seq(Cell) /\ Len(<<>>) = 0 /\ PrefixSize \in Nat /\ PrefixSize > 0
    BY FramingAssumption
  <2> QED  BY <2>1, <1>0, <1>1 DEF StreamTypes
<1>3. CellsInv' /\ CompleteInv' /\ ReceivedInv' /\ WriteInv'
  BY <1>0 DEF CellsInv, CompleteInv, ReceivedInv, WriteInv
<1>4. LinkInv'
  BY <1>0 DEF LinkInv, Whole
<1>5. OrderInv'
  <2>1. wire = <<>> => Len(received) >= Len(sent)
    BY <1>0 DEF OrderInv, Cursor
  <2> QED  BY <2>1, <1>0, <1>1 DEF OrderInv
<1>6. Outcome
  BY <1>0, <1>1 DEF Outcome
<1> QED  BY <1>2, <1>3, <1>4, <1>5, <1>6 DEF StreamInv

(* A new connection has an empty pipe.                                     *)
LEMMA InitStream == FramingInit => StreamInv
<1> SUFFICES ASSUME FramingInit PROVE StreamInv
  OBVIOUS
<1>1. /\ wire = <<>> /\ buffer = <<>> /\ sent = <<>> /\ received = <<>> /\ late = {}
      /\ Len(wire) = 0 /\ Len(buffer) = 0 /\ Len(sent) = 0 /\ Len(received) = 0
      /\ reader = "prefix" /\ need = PrefixSize /\ PrefixSize \in Nat /\ PrefixSize > 0
      /\ written = [m \in Writers |-> 0] /\ writer = [m \in Writers |-> "idle"]
      /\ writeLock = NoWriter /\ \A i : ~(i \in 1..0)
  BY FramingAssumption DEF FramingInit
<1>2. StreamTypes
  BY <1>1 DEF StreamTypes
<1>3. WriteInv
  BY <1>1 DEF WriteInv
<1>4. CellsInv /\ ReceivedInv
  BY <1>1 DEF CellsInv, ReceivedInv
<1>5. CompleteInv
  <2>1. \A m \in Writers : written[m] = 0 /\ FrameSize(m) \in Nat /\ FrameSize(m) > 0
    BY <1>1, FrameFacts
  <2>2. \A m \in Writers : written[m] <= FrameSize(m) /\ written[m] # FrameSize(m)
    BY <2>1
  <2> QED  BY <1>1, <2>2 DEF CompleteInv
<1>6. LinkInv /\ OrderInv
  BY <1>1 DEF LinkInv, OrderInv
<1> QED  BY <1>2, <1>3, <1>4, <1>5, <1>6 DEF StreamInv

(* StreamInv is inductive if a write that succeeds takes the whole frame.  *)
LEMMA NextStream ==
  ASSUME WholeWrites, StreamInv, [FramingNext]_framingVars PROVE StreamInv'
<1>1. ASSUME NEW m \in Writers, NEW n, WriteSome(m, n) PROVE StreamInv'
  BY <1>1, NextWrite
<1>2. CASE \/ \E m \in Writers :
                EnterWrite(m) \/ LockWrite(m) \/ WriteTimeout(m) \/ FailWrite(m) \/ WriteBroken(m)
           \/ MarkClosed \/ CancelPendingIo \/ CloseHandle \/ ProbeLock \/ ProbeStart \/ ProbeEnd
  BY <1>2, NextThreads
<1>3. ASSUME NEW n, ReadSome(n) PROVE StreamInv'
  BY <1>3, NextRead
<1>4. CASE ReadTimeout \/ ReadEnds
  BY <1>4, NextQuietRead
<1>5. CASE UNCHANGED framingVars
  <2>1. /\ UNCHANGED <<written, wire, history, workerEnd, writer, writeLock, closing>>
        /\ StreamTypes /\ WriteInv
    BY <1>5 DEF framingVars, gatewayEnd, StreamInv
  <2>2. /\ writer' \in [Writers -> {"idle", "queued", "writing", "timeout", "done", "refused",
                                    "failed"}]
        /\ writeLock' \in Writers \cup {NoWriter} /\ WriteInv' /\ (Whole' => Whole)
    BY <2>1 DEF StreamTypes, WriteInv, Whole
  <2> QED  BY <2>1, <2>2, Quiet
<1> QED  BY <1>1, <1>2, <1>3, <1>4, <1>5 DEF FramingNext

(* Every step of the bytes is a step of the channel.                       *)
LEMMA ChannelStep ==
  ASSUME WholeWrites, StreamInv, [FramingNext]_framingVars
  PROVE  [Channel!Next]_(Channel!channel)
<1>0. /\ StreamTypes /\ CompleteInv /\ received \in Seq(Writers) /\ sent \in Seq(Writers)
      /\ Len(received) \in Nat /\ Len(sent) \in Nat
  BY DEF StreamInv, StreamTypes
<1>1. ASSUME NEW m \in Writers, NEW n, WriteSome(m, n)
      PROVE  Channel!Next \/ UNCHANGED Channel!channel
  <2>1. UNCHANGED <<closing, received, reader>>
    BY <1>1 DEF WriteSome, workerEnd
  <2>2. Completed(m) \/ UNCHANGED <<sent, late>>
    BY <1>1 DEF WriteSome, history
  <2>3. CASE Completed(m)
    BY <2>1, <2>3 DEF Completed, Channel!Next, Channel!Send, Channel!SendLate
  <2>4. CASE UNCHANGED <<sent, late>>
    BY <2>1, <2>4 DEF Channel!channel
  <2> QED  BY <2>2, <2>3, <2>4
<1>2. ASSUME UNCHANGED <<history, workerEnd>>, closing = "open" \/ closing' # "open"
      PROVE  Channel!Next \/ UNCHANGED Channel!channel
  <2>1. UNCHANGED <<sent, late, received, reader>>
    BY <1>2 DEF history, workerEnd
  <2>2. CASE closing = "open" /\ closing' # "open"
    BY <2>1, <2>2 DEF Channel!Next, Channel!Close
  <2>3. CASE (closing' # "open") = (closing # "open")
    BY <2>1, <2>3 DEF Channel!channel
  <2> QED  BY <1>2, <2>2, <2>3
<1>3. ASSUME Outcome, UNCHANGED <<gatewayEnd>>, reader # "ended"
      PROVE  Channel!Next \/ UNCHANGED Channel!channel
  <2>1. UNCHANGED <<sent, late, closing>>
    BY <1>3 DEF gatewayEnd, history
  <2>2. CASE reader' # "ended" /\ UNCHANGED received
    BY <1>3, <2>1, <2>2 DEF Channel!channel
  <2>3. CASE reader' = "ended" /\ UNCHANGED received
    BY <1>3, <2>1, <2>3 DEF Channel!Next, Channel!Fail
  <2>4. CASE /\ reader' # "ended" /\ Len(received) < Len(sent)
             /\ received' = Append(received, sent[Len(received) + 1])
    BY <1>3, <2>1, <2>4 DEF Channel!Next, Channel!Receive
  <2>5. ASSUME reader' # "ended", Len(received) >= Len(sent), NEW m \in late,
               \A i \in 1..Len(received) : received[i] # m, received' = Append(received, m)
        PROVE  Channel!Next
    <3>1. m \in Writers
      BY <1>0 DEF StreamTypes
    <3>2. Channel!ReceiveLate(m)
      BY <1>3, <2>1, <2>5 DEF Channel!ReceiveLate
    <3> QED  BY <3>1, <3>2 DEF Channel!Next
  <2> QED  BY <1>3, <2>2, <2>3, <2>4, <2>5 DEF Outcome
<1>4. CASE \/ \E m \in Writers :
                EnterWrite(m) \/ LockWrite(m) \/ WriteTimeout(m) \/ FailWrite(m) \/ WriteBroken(m)
           \/ MarkClosed \/ CancelPendingIo \/ CloseHandle \/ ProbeLock \/ ProbeStart \/ ProbeEnd
           \/ UNCHANGED framingVars
  <2>1. UNCHANGED <<history, workerEnd>> /\ (closing = "open" \/ closing' # "open")
    BY <1>4 DEF EnterWrite, LockWrite, WriteTimeout, FailWrite, WriteBroken, MarkClosed,
       CancelPendingIo, CloseHandle, ProbeLock, ProbeStart, ProbeEnd, framingVars, gatewayEnd
  <2> QED  BY <1>2, <2>1
<1>5. ASSUME NEW n, ReadSome(n) PROVE Channel!Next \/ UNCHANGED Channel!channel
  <2>1. Outcome
    BY <1>5, NextRead
  <2> QED  BY <2>1, <1>3, <1>5 DEF ReadSome
<1>6. CASE ReadTimeout \/ ReadEnds
  <2>1. Outcome
    BY <1>6, NextQuietRead
  <2> QED  BY <2>1, <1>3, <1>6 DEF ReadTimeout, ReadEnds
<1> QED  BY <1>1, <1>4, <1>5, <1>6 DEF FramingNext

(* The bytes of a connection make a channel of whole messages in order,    *)
(* for any number of writers, any sizes of prefix, messages and limit, and *)
(* any way in which reads are cut up, reads and writes time out and the    *)
(* connection is closed (write_pipe_message under _write_lock, read_frame, *)
(* _WorkerSession.run), if a WriteFile that succeeds took the whole frame. *)
THEOREM BytesMakeMessages == ASSUME WholeWrites PROVE Spec => ChannelSpec
<1>1. Init => StreamInv /\ Channel!Init
  BY InitStream DEF Init, FramingInit, Channel!Init
<1>2. StreamInv /\ [Next]_vars => StreamInv' /\ [Channel!Next]_(Channel!channel)
  BY PlatformSteps, NextStream, ChannelStep
<1> QED  BY <1>1, <1>2, PTL DEF Spec, ChannelSpec, Channel!Spec
=============================================================================
