---------------------------- MODULE JobRegistry ----------------------------
(***************************************************************************)
(* The durable background jobs of the Worker (JobRegistry, JobStore,       *)
(* recover_store): the catalogue in memory, the snapshot and output files  *)
(* on disk, one executor task (_run) per job and the process it owns.      *)
(*                                                                         *)
(* Every "with self._lock" section is one step, but for the last one of    *)
(* _run: a crash can fall between its output files and its snapshot.  A    *)
(* snapshot file is replaced atomically, so a write happens or raises.     *)
(* Calls that change nothing (status, output, a replayed or conflicting    *)
(* start, any error before the first assignment) are not steps.            *)
(***************************************************************************)
EXTENDS Naturals, FiniteSets

CONSTANTS
    Jobs,           \* job ids, each drawn once (uuid4)
    Ops,            \* operation ids of job_start
    MaxConcurrent,  \* JobLimits.max_concurrent: executor threads
    Retention,      \* JobLimits.retention
    MaxTime,        \* bound: last wall clock value
    DiskFaults,     \* whether a file write may raise OSError
    None

Active   == {"queued", "running"}
TERMINAL_JOB_STATES == {"succeeded", "failed", "cancelled", "interrupted"}
Snapshot == [op : Ops, state : Active \cup TERMINAL_JOB_STATES, updated : 0..MaxTime]

ASSUME JobAssumption ==
    /\ MaxConcurrent \in Nat \ {0}
    /\ Retention \in Nat \ {0}
    /\ MaxTime \in Nat
    /\ DiskFaults \in BOOLEAN
    /\ None \notin Jobs \cup Ops \cup Snapshot

VARIABLES
    now,        \* datetime.now(UTC)
    reg,        \* state of the registry and of its close()
    pending,    \* jobs close() has still to cancel
    mem,        \* JobRegistry._records: snapshots by job
    opjobs,     \* JobRegistry._operation_jobs
    proc,       \* jobs whose JobRecord.process is set
    run,        \* [Jobs -> progress of the executor task]
    os,         \* [Jobs -> the process of the job]
    writing,    \* job whose task is inside the last lock section of _run
    disk,       \* snapshot files by job
    outputs,    \* jobs with stdout/stderr files
    broken      \* jobs of which an exception nobody handles hit a step

vars == <<now, reg, pending, mem, opjobs, proc, run, os, writing, disk,
          outputs, broken>>
memory == <<pending, mem, opjobs, proc>>

(* Phases of a task that holds an executor thread.                         *)
Threaded == {"spawning", "spawned", "waiting"}
Tasked   == Threaded \cup {"queued"}

TypeOK ==
    /\ now \in 0..MaxTime
    /\ reg \in {"down", "open", "closing", "shutdown", "closed", "aborted"}
    /\ pending \subseteq Jobs
    /\ mem \in [Jobs -> Snapshot \cup {None}]
    /\ opjobs \in [Ops -> Jobs \cup {None}]
    /\ proc \subseteq Jobs
    /\ run \in [Jobs -> Tasked \cup {"none", "done", "lost"}]
    /\ os \in [Jobs -> {"none", "alive", "killed", "exited"}]
    /\ writing \in Jobs \cup {None}
    /\ disk \in [Jobs -> Snapshot \cup {None}]
    /\ outputs \subseteq Jobs
    /\ broken \subseteq Jobs

Init ==
    /\ now = 0
    /\ reg = "open"
    /\ pending = {}
    /\ mem = [j \in Jobs |-> None]
    /\ opjobs = [o \in Ops |-> None]
    /\ proc = {}
    /\ run = [j \in Jobs |-> "none"]
    /\ os = [j \in Jobs |-> "none"]
    /\ writing = None
    /\ disk = [j \in Jobs |-> None]
    /\ outputs = {}
    /\ broken = {}
-----------------------------------------------------------------------------
(* The lock can be taken in a registry that exists.                        *)
Locked == reg # "down" /\ writing = None

(* model_copy(update={state, updated_at}) of a snapshot.                   *)
State(j, s) == [mem[j] EXCEPT !.state = s, !.updated = now]

(* record.snapshot is replaced and its file written.  If the write raises, *)
(* what follows it in the code does not happen.                            *)
Save(j, s) ==
    /\ mem' = [mem EXCEPT ![j] = s]
    /\ disk' = [disk EXCEPT ![j] = s]
    /\ UNCHANGED broken
SaveFails(j, s) ==
    /\ DiskFaults
    /\ mem' = [mem EXCEPT ![j] = s]
    /\ broken' = broken \cup {j}
    /\ UNCHANGED disk

Kill(j) == os' = [os EXCEPT ![j] = IF @ = "alive" THEN "killed" ELSE @]

(* start, for an operation id that has no job yet.                         *)
Start(o, j) ==
    /\ reg = "open"
    /\ writing = None
    /\ opjobs[o] = None
    /\ run[j] = "none"
    /\ opjobs' = [opjobs EXCEPT ![o] = j]
    /\ LET s == [op |-> o, state |-> "queued", updated |-> now] IN
       \/ Save(j, s) /\ run' = [run EXCEPT ![j] = "queued"]
       \/ SaveFails(j, s) /\ run' = [run EXCEPT ![j] = "lost"]
    /\ UNCHANGED <<now, reg, pending, proc, os, writing, outputs>>

(* Mutant: the job is marked and its process left alone.                   *)
CancelRecordOnly(j) == Save(j, State(j, "cancelled")) /\ UNCHANGED os

(* The body of cancel: the snapshot first, then the process if there is one*)
CancelRecord(j) ==
    /\ Save(j, State(j, "cancelled"))
    /\ IF j \in proc THEN Kill(j) ELSE UNCHANGED os

(* cancel, of a job that is not terminal.                                  *)
Cancel(j) ==
    /\ Locked
    /\ mem[j] # None
    /\ mem[j].state \in Active
    /\ \/ CancelRecord(j)
       \/ SaveFails(j, State(j, "cancelled")) /\ UNCHANGED os
    /\ UNCHANGED <<now, reg, pending, opjobs, proc, run, writing, outputs>>

(* close: new jobs are refused, then the active ones are cancelled, each   *)
(* in a lock section of its own, then the executor is joined.              *)
Close ==
    /\ reg = "open"
    /\ writing = None
    /\ reg' = "closing"
    /\ pending' = {j \in Jobs : mem[j] # None /\ mem[j].state \in Active}
    /\ UNCHANGED <<now, mem, opjobs, proc, run, os, writing, disk, outputs, broken>>

CloseCancel(j) ==
    /\ reg = "closing"
    /\ writing = None
    /\ j \in pending
    /\ pending' = pending \ {j}
    /\ \/ /\ mem[j].state \in TERMINAL_JOB_STATES
          /\ UNCHANGED <<reg, mem, disk, os, broken>>
       \/ /\ mem[j].state \in Active
          /\ CancelRecord(j)
          /\ UNCHANGED reg
       \/ /\ mem[j].state \in Active
          /\ SaveFails(j, State(j, "cancelled"))
          /\ reg' = "aborted"
          /\ UNCHANGED os
    /\ UNCHANGED <<now, opjobs, proc, run, writing, outputs>>

Shutdown ==
    /\ reg = "closing"
    /\ pending = {}
    /\ reg' = "shutdown"
    /\ UNCHANGED <<now, memory, run, os, writing, disk, outputs, broken>>

ShutdownDone ==
    /\ reg = "shutdown"
    /\ \A j \in Jobs : run[j] \notin Tasked
    /\ reg' = "closed"
    /\ UNCHANGED <<now, memory, run, os, writing, disk, outputs, broken>>
-----------------------------------------------------------------------------
(* An executor thread takes the task: first section of _run.               *)
TaskBegin(j) ==
    /\ Locked
    /\ run[j] = "queued"
    /\ Cardinality({i \in Jobs : run[i] \in Threaded}) < MaxConcurrent
    /\ run' = [run EXCEPT ![j] =
                 IF mem[j].state = "cancelled" THEN "done" ELSE "spawning"]
    /\ UNCHANGED <<now, reg, memory, os, writing, disk, outputs, broken>>

(* The process factory returns, outside the lock.                          *)
Spawn(j) ==
    /\ run[j] = "spawning"
    /\ run' = [run EXCEPT ![j] = "spawned"]
    /\ os' = [os EXCEPT ![j] = "alive"]
    /\ UNCHANGED <<now, reg, memory, writing, disk, outputs, broken>>

(* The factory raises OSError: the job is failed, whatever its state.      *)
SpawnFails(j) ==
    /\ Locked
    /\ run[j] = "spawning"
    /\ run' = [run EXCEPT ![j] = "done"]
    /\ Save(j, State(j, "failed")) \/ SaveFails(j, State(j, "failed"))
    /\ UNCHANGED <<now, reg, pending, opjobs, proc, os, writing, outputs>>

(* The factory raises pywintypes.error, which _run does not catch.         *)
SpawnEscapes(j) ==
    /\ run[j] = "spawning"
    /\ run' = [run EXCEPT ![j] = "lost"]
    /\ broken' = broken \cup {j}
    /\ UNCHANGED <<now, reg, memory, os, writing, disk, outputs>>

(* Mutant: a cancel that came while the process was created is overlooked. *)
RegisterRacing(j) ==
    /\ Locked
    /\ run[j] = "spawned"
    /\ proc' = proc \cup {j}
    /\ Save(j, State(j, "running"))
    /\ run' = [run EXCEPT ![j] = "waiting"]
    /\ UNCHANGED <<now, reg, pending, opjobs, os, writing, outputs>>

(* The process is put in the record; a cancel that came first is applied.  *)
Register(j) ==
    /\ Locked
    /\ run[j] = "spawned"
    /\ proc' = proc \cup {j}
    /\ \/ /\ mem[j].state = "cancelled"
          /\ Kill(j)
          /\ run' = [run EXCEPT ![j] = "waiting"]
          /\ UNCHANGED <<mem, disk, broken>>
       \/ /\ mem[j].state # "cancelled"
          /\ Save(j, State(j, "running"))
          /\ run' = [run EXCEPT ![j] = "waiting"]
          /\ UNCHANGED os
       \/ /\ mem[j].state # "cancelled"
          /\ SaveFails(j, State(j, "running"))
          /\ run' = [run EXCEPT ![j] = "lost"]
          /\ UNCHANGED os
    /\ UNCHANGED <<now, reg, pending, opjobs, writing, outputs>>

(* The program of the job ends by itself.                                  *)
ProcessExit(j) ==
    /\ os[j] = "alive"
    /\ os' = [os EXCEPT ![j] = "exited"]
    /\ UNCHANGED <<now, reg, memory, run, writing, disk, outputs, broken>>

(* process.wait returned; the last section of _run writes the outputs ...  *)
WriteOutput(j) ==
    /\ Locked
    /\ run[j] = "waiting"
    /\ os[j] \in {"killed", "exited"}
    /\ \/ /\ writing' = j
          /\ outputs' = outputs \cup {j}
          /\ UNCHANGED <<run, broken>>
       \/ /\ DiskFaults
          /\ run' = [run EXCEPT ![j] = "lost"]
          /\ broken' = broken \cup {j}
          /\ UNCHANGED <<writing, outputs>>
    /\ UNCHANGED <<now, reg, memory, os, disk>>

(* ... and then the snapshot.                                              *)
Complete(j) ==
    /\ writing = j
    /\ \E s \in IF mem[j].state = "cancelled" THEN {"cancelled"}
                ELSE IF os[j] = "exited" THEN {"succeeded", "failed"} ELSE {"failed"} :
         \/ Save(j, State(j, s)) /\ proc' = proc \ {j}
         \/ SaveFails(j, State(j, s)) /\ UNCHANGED proc
    /\ run' = [run EXCEPT ![j] = "done"]
    /\ writing' = None
    /\ UNCHANGED <<now, reg, pending, opjobs, os, outputs>>
-----------------------------------------------------------------------------
(* The Worker dies: the kernel closes its Job Objects, which kills what    *)
(* runs in them.                                                           *)
Crash ==
    /\ reg # "down"
    /\ reg' = "down"
    /\ pending' = {}
    /\ mem' = [j \in Jobs |-> None]
    /\ opjobs' = [o \in Ops |-> None]
    /\ proc' = {}
    /\ run' = [j \in Jobs |-> IF run[j] \in Tasked THEN "lost" ELSE run[j]]
    /\ os' = [j \in Jobs |-> IF os[j] = "alive" THEN "killed" ELSE os[j]]
    /\ writing' = None
    /\ UNCHANGED <<now, disk, outputs, broken>>

(* What load deletes, and what recover_store interrupts.                   *)
Expired == {j \in Jobs : disk[j] # None /\ disk[j].updated + Retention < now}
(* Mutant: cancelled jobs are interrupted too.                             *)
StaleUnfinished ==
    {j \in Jobs \ Expired :
       disk[j] # None /\ disk[j].state \notin {"succeeded", "failed", "interrupted"}}
Stale   == {j \in Jobs \ Expired : disk[j] # None /\ disk[j].state \in Active}

(* _interrupt_stale_snapshot.                                              *)
Interrupt(j) == [disk[j] EXCEPT !.state = "interrupted", !.updated = now]

(* __init__: load deletes what is past its retention, recover_store fixes  *)
(* what was active as interrupted and rebuilds the catalogue.              *)
Recover ==
    /\ reg = "down"
    /\ reg' = "open"
    /\ LET d == [j \in Jobs |-> IF j \in Expired THEN None
                                ELSE IF j \in Stale THEN Interrupt(j) ELSE disk[j]] IN
       /\ disk' = d
       /\ mem' = d
       /\ opjobs' = [o \in Ops |->
                       IF \E j \in Jobs : d[j] # None /\ d[j].op = o
                       THEN CHOOSE j \in Jobs : d[j] # None /\ d[j].op = o
                       ELSE None]
    /\ outputs' = outputs \ Expired
    /\ UNCHANGED <<now, pending, proc, run, os, writing, broken>>

(* Mutant: delete removes the output files before the snapshot.            *)
RecoverOutputsFirst(gone, rest, fixed) ==
    /\ reg = "down"
    /\ fixed # {} => gone = Expired /\ rest = {}
    /\ disk' = [j \in Jobs |-> IF j \in gone \ rest THEN None
                               ELSE IF j \in fixed THEN Interrupt(j) ELSE disk[j]]
    /\ outputs' = outputs \ gone
    /\ UNCHANGED <<now, reg, memory, run, os, writing, broken>>

(* The Worker dies again inside __init__: the deletions of the jobs in gone*)
(* are done, but for the output files of those in rest; interruptions only *)
(* start once every expired job is deleted.                                *)
RecoverPartly(gone, rest, fixed) ==
    /\ reg = "down"
    /\ fixed # {} => gone = Expired /\ rest = {}
    /\ disk' = [j \in Jobs |-> IF j \in gone THEN None
                               ELSE IF j \in fixed THEN Interrupt(j) ELSE disk[j]]
    /\ outputs' = outputs \ (gone \ rest)
    /\ UNCHANGED <<now, reg, memory, run, os, writing, broken>>

Tick ==
    /\ now < MaxTime
    /\ now' = now + 1
    /\ UNCHANGED <<reg, memory, run, os, writing, disk, outputs, broken>>
-----------------------------------------------------------------------------
Next ==
    \/ \E j \in Jobs :
         \/ \E o \in Ops : Start(o, j)
         \/ Cancel(j)
         \/ CloseCancel(j)
         \/ TaskBegin(j)
         \/ Spawn(j)
         \/ SpawnFails(j)
         \/ SpawnEscapes(j)
         \/ Register(j)
         \/ ProcessExit(j)
         \/ WriteOutput(j)
         \/ Complete(j)
    \/ Close
    \/ Shutdown
    \/ ShutdownDone
    \/ Crash
    \/ Recover
    \/ \E gone \in SUBSET Expired : \E rest \in SUBSET gone, fixed \in SUBSET Stale :
         RecoverPartly(gone, rest, fixed)
    \/ Tick

Spec == Init /\ [][Next]_vars

(* What fairness is assumed of: executor threads and the thread in close() *)
(* are scheduled, and a process factory returns or raises.  Nothing is     *)
(* assumed of the programs that run.                                       *)
TaskStep(j) ==
    \/ TaskBegin(j) \/ Spawn(j) \/ SpawnFails(j) \/ SpawnEscapes(j)
    \/ Register(j) \/ WriteOutput(j) \/ Complete(j)
CloseStep == Shutdown \/ ShutdownDone \/ \E j \in Jobs : CloseCancel(j)
-----------------------------------------------------------------------------
(* The idempotency index and the catalogue name the same jobs, after any   *)
(* crash, partial recovery and failed write: a repeated start finds the    *)
(* record of its job, and no operation has two jobs (start, recover_store).*)
CatalogConsistent ==
    /\ \A o \in Ops : opjobs[o] # None =>
         mem[opjobs[o]] # None /\ mem[opjobs[o]].op = o
    /\ \A j \in Jobs : mem[j] # None => opjobs[mem[j].op] = j

(* A job the registry reports as queued or running has a task that will    *)
(* carry it on, unless an exception ended the task: no restart leaves a    *)
(* job active that nothing executes (recover_store, start's submit).       *)
ActiveHasTask ==
    \A j \in Jobs \ broken :
        mem[j] # None /\ mem[j].state \in Active => run[j] \in Tasked

(* A job reported as cancelled has no live process but one its task has    *)
(* yet to register, and will kill when it does (cancel and the second      *)
(* section of _run, in either order).                                      *)
CancelledIsKilled ==
    \A j \in Jobs \ broken :
        mem[j] # None /\ mem[j].state = "cancelled" /\ os[j] = "alive"
        => run[j] = "spawned"

(* Wherever a crash falls, a job whose file says it succeeded has its      *)
(* output files (order of the writes in _run and in delete).               *)
SuccessHasOutput ==
    \A j \in Jobs : disk[j] # None /\ disk[j].state = "succeeded" => j \in outputs

(* Across concurrent cancels, a crash between any two writes, a crash in   *)
(* recovery and failed writes, the registry accounts for every job: the    *)
(* index agrees with the catalogue, an active job has its task, a          *)
(* cancelled one no process, and a success its output (JobRegistry).       *)
JobsAccounted ==
    /\ CatalogConsistent
    /\ ActiveHasTask
    /\ CancelledIsKilled
    /\ SuccessHasOutput

(* What a job's file says only moves forward, across crashes and restarts: *)
(* a terminal state is never active again, a success or failure is final,  *)
(* and recovery interrupts active jobs only.                               *)
Forward ==
    { <<"queued", "running">>, <<"queued", "failed">>, <<"queued", "cancelled">>,
      <<"queued", "interrupted">>, <<"running", "succeeded">>, <<"running", "failed">>,
      <<"running", "cancelled">>, <<"running", "interrupted">>, <<"cancelled", "failed">> }
DurableLifecycle ==
    [][\A j \in Jobs : disk[j] # None /\ disk'[j] # None /\ disk[j].state # disk'[j].state
         => <<disk[j].state, disk'[j].state>> \in Forward]_vars

(* A cancelled job's process ends, even if the cancel came while the       *)
(* process was being created (second section of _run).                     *)
CancelledDies ==
    \A j \in Jobs :
        (mem[j] # None /\ mem[j].state = "cancelled" /\ os[j] = "alive")
        ~> (os[j] # "alive" \/ j \in broken)

(* close() comes to an end: every task it waits for ends, those still      *)
(* queued or creating their process when close() began included.  (A       *)
(* cancel whose write failed leaves a process that close() never kills.)   *)
CloseEnds ==
    reg = "closing" ~> reg \in {"closed", "aborted", "down"} \/ broken # {}
-----------------------------------------------------------------------------
(* JobState: "the one-way lifecycle of a durable job"; cancel: "fixes a    *)
(* queued or running job as cancelled".  A terminal state is final.        *)
TerminalIsFinal ==
    [][\A j \in Jobs : mem[j] # None /\ mem'[j] # None
         /\ mem[j].state \in TERMINAL_JOB_STATES => mem'[j].state = mem[j].state]_vars
=============================================================================
