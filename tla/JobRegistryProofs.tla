------------------------- MODULE JobRegistryProofs -------------------------
(***************************************************************************)
(* Proofs about the durable jobs (JobRegistry) and about the Codex adapter *)
(* that is built on them (CodexSession), for every set of jobs and         *)
(* operation ids, any limits and any clock, with and without disk faults.  *)
(***************************************************************************)
EXTENDS CodexSession, TLAPS

Starting == {"queued", "spawning", "spawned"}

(* A job id that was not drawn yet is nowhere.                             *)
FreshInv ==
    \A j \in Jobs : run[j] = "none" =>
        mem[j] = None /\ disk[j] = None /\ j \notin proc /\ os[j] = "none"

(* Nothing of a dead Worker is left but its files.                         *)
DownInv ==
    reg = "down" =>
        /\ \A j \in Jobs : mem[j] = None /\ run[j] \notin Tasked /\ os[j] # "alive"
        /\ \A o \in Ops : opjobs[o] = None
        /\ pending = {} /\ proc = {} /\ writing = None

(* What the phase of a task says about the snapshot of its job and about   *)
(* the file, which a failed write leaves behind the snapshot.              *)
TaskInv ==
    \A j \in Jobs :
        /\ run[j] \in Starting =>
             /\ mem[j] # None /\ mem[j].state \in {"queued", "cancelled"}
             /\ disk[j] # None /\ disk[j].state \in {"queued", "cancelled"}
        /\ run[j] = "waiting" =>
             /\ mem[j] # None /\ mem[j].state \in {"running", "cancelled"}
             /\ disk[j] # None /\ disk[j].state \in {"queued", "running", "cancelled"}
        /\ run[j] = "waiting" /\ mem[j].state = "running" => disk[j].state = "running"

(* A file is never ahead of the snapshot of an active job.                 *)
LagInv ==
    \A j \in Jobs : mem[j] # None /\ mem[j].state \in Active /\ disk[j] # None =>
        /\ disk[j].state \in Active
        /\ mem[j].state = "queued" => disk[j].state = "queued"

(* The files of a living registry are in its catalogue, and no two files   *)
(* are of the same operation.                                              *)
FilesInv ==
    /\ \A j \in Jobs : reg # "down" /\ disk[j] # None =>
         mem[j] # None /\ mem[j].op = disk[j].op
    /\ \A i, j \in Jobs : disk[i] # None /\ disk[j] # None /\ disk[i].op = disk[j].op
         => i = j

(* close() cancels jobs of the catalogue, a live process is registered or  *)
(* about to be, and the last section of _run is that of a finished task.   *)
ProcInv ==
    /\ \A j \in pending : mem[j] # None
    /\ \A j \in Jobs : os[j] = "alive" => run[j] = "spawned" \/ j \in proc
    /\ writing # None =>
         /\ run[writing] = "waiting" /\ os[writing] \in {"killed", "exited"}
         /\ writing \in outputs

(* The inductive invariant.                                                *)
IInv ==
    /\ TypeOK
    /\ FreshInv /\ DownInv /\ TaskInv /\ LagInv /\ FilesInv /\ ProcInv
    /\ CatalogConsistent /\ ActiveHasTask /\ CancelledIsKilled /\ SuccessHasOutput

LEMMA InitIInv == Init => IInv
  BY JobAssumption
  DEF Init, IInv, TypeOK, FreshInv, DownInv, TaskInv, LagInv, FilesInv, ProcInv, Tasked,
      Threaded, Starting, CatalogConsistent, ActiveHasTask, CancelledIsKilled,
      SuccessHasOutput

(* What the type invariant says of single values.                          *)
LEMMA Typed ==
  ASSUME TypeOK
  PROVE  /\ None \notin Jobs /\ pending \subseteq Jobs /\ writing \in Jobs \cup {None}
         /\ \A o \in Ops : opjobs[o] # None => opjobs[o] \in Jobs
         /\ \A j \in Jobs : mem[j] # None => mem[j] \in Snapshot /\ mem[j].op \in Ops
         /\ \A j \in Jobs : disk[j] # None => disk[j] \in Snapshot /\ disk[j].op \in Ops
  BY JobAssumption DEF TypeOK, Snapshot

States == Active \cup TERMINAL_JOB_STATES

(* model_copy replaces the state and the time of a snapshot.               *)
LEMMA SnapshotCopy ==
  ASSUME NEW r \in Snapshot, NEW s \in States, NEW t \in 0..MaxTime
  PROVE  LET c == [r EXCEPT !.state = s, !.updated = t] IN
         c \in Snapshot /\ c.op = r.op /\ c.state = s
  BY DEF Snapshot, States

(* The body of DurableLifecycle.                                           *)
Lifecycle ==
    \A j \in Jobs : disk[j] # None /\ disk'[j] # None /\ disk[j].state # disk'[j].state
        => <<disk[j].state, disk'[j].state>> \in Forward

(* What a step of the registry that neither starts nor recovers a job      *)
(* leaves of the jobs outside S: no job appears, gets a task, changes its   *)
(* operation or becomes active, and a file is of the operation of its job. *)
Kept(S) ==
    /\ \A j \in Jobs : j \in broken => j \in broken'
    /\ \A j \in Jobs \ S :
         /\ run[j] = "none" => run'[j] = "none"
         /\ mem'[j] # None =>
              /\ mem[j] # None /\ mem'[j].op = mem[j].op
              /\ mem'[j].state \in Active => mem[j].state \in Active
         /\ disk'[j] # None =>
              \/ disk[j] # None /\ disk'[j].op = disk[j].op
              \/ mem[j] # None /\ disk'[j].op = mem[j].op

(* What start makes of job j.                                              *)
Started(o, j) ==
    /\ mem'[j].op = o
    /\ disk'[j] # None => disk'[j].op = o
    /\ run'[j] = "lost" => j \in broken'

(* What recovery makes of the catalogue.                                   *)
Rebuilt ==
    /\ UNCHANGED <<run, broken>>
    /\ \A j \in Jobs :
         /\ mem'[j] # None =>
              disk[j] # None /\ mem'[j].op = disk[j].op /\ mem'[j].state \notin Active
         /\ disk'[j] # None => disk[j] # None /\ disk'[j].op = disk[j].op

(* A snapshot is replaced, and its file with it unless the write raises.   *)
Replaced(j, o, s) ==
    /\ mem'[j] \in Snapshot /\ mem'[j].op = o /\ mem'[j].state = s
    /\ mem' \in [Jobs -> Snapshot \cup {None}]
    /\ disk' \in [Jobs -> Snapshot \cup {None}]
    /\ broken' \subseteq Jobs
    /\ \A i \in Jobs \ {j} : mem'[i] = mem[i] /\ disk'[i] = disk[i]
    /\ \A i \in Jobs : i \in broken => i \in broken'
    /\ \/ disk'[j] = mem'[j]
       \/ disk'[j] = disk[j] /\ j \in broken'

LEMMA SaveStep ==
  ASSUME TypeOK, NEW j \in Jobs, NEW r \in Snapshot, Save(j, r) \/ SaveFails(j, r)
  PROVE  Replaced(j, r.op, r.state)
<1>1. CASE Save(j, r)
  BY <1>1 DEF Save, TypeOK, Replaced
<1>2. CASE SaveFails(j, r)
  BY <1>2 DEF SaveFails, TypeOK, Replaced
<1> QED
  BY <1>1, <1>2

LEMMA StateStep ==
  ASSUME TypeOK, NEW j \in Jobs, mem[j] # None, NEW s \in States,
         Save(j, State(j, s)) \/ SaveFails(j, State(j, s))
  PROVE  Replaced(j, mem[j].op, s)
<1>1. mem[j] \in Snapshot /\ now \in 0..MaxTime
  BY DEF TypeOK
<1>2. State(j, s) \in Snapshot /\ State(j, s).op = mem[j].op /\ State(j, s).state = s
  BY <1>1, SnapshotCopy DEF State
<1> QED
  BY <1>2, SaveStep

LEMMA StartKeeps ==
  ASSUME IInv, NEW o \in Ops, NEW j \in Jobs, Start(o, j)
  PROVE  IInv' /\ Lifecycle /\ Kept({j}) /\ Started(o, j)
<1>0. /\ TypeOK /\ FreshInv /\ DownInv /\ TaskInv /\ LagInv /\ FilesInv /\ ProcInv
      /\ CatalogConsistent /\ ActiveHasTask /\ CancelledIsKilled /\ SuccessHasOutput
  BY DEF IInv
<1>1. /\ Replaced(j, o, "queued") /\ reg = "open" /\ opjobs[o] = None /\ run[j] = "none"
      /\ opjobs'[o] = j /\ \A p \in Ops \ {o} : opjobs'[p] = opjobs[p]
      /\ \/ run'[j] = "queued" /\ disk'[j] = mem'[j]
         \/ run'[j] = "lost" /\ j \in broken' /\ disk'[j] = disk[j]
      /\ \A i \in Jobs \ {j} : run'[i] = run[i]
      /\ j \in Jobs /\ j # None /\ mem'[j] # None /\ writing = None
      /\ UNCHANGED <<now, reg, pending, proc, os, writing, outputs>>
  <2> DEFINE r == [op |-> o, state |-> "queued", updated |-> now]
  <2>1. r \in Snapshot /\ r.op = o /\ r.state = "queued"
    BY <1>0 DEF Snapshot, TypeOK, Active
  <2>2. Save(j, r) \/ SaveFails(j, r)
    BY DEF Start
  <2>3. Replaced(j, o, "queued")
    BY <1>0, <2>1, <2>2, SaveStep
  <2>4. /\ Save(j, r) => disk'[j] = mem'[j]
        /\ SaveFails(j, r) => j \in broken' /\ disk' = disk
    BY <1>0 DEF Save, SaveFails, TypeOK
  <2> QED
    BY <1>0, <2>3, <2>4, JobAssumption DEF Start, TypeOK, Replaced
<1>2. TypeOK'
  BY <1>0, <1>1, JobAssumption DEF TypeOK, Tasked, Threaded, Replaced, Start
<1>3. FreshInv'
  BY <1>0, <1>1 DEF FreshInv, Replaced
<1>4. DownInv'
  BY <1>0, <1>1 DEF DownInv, Tasked, Threaded, Replaced
<1>5. TaskInv'
  BY <1>0, <1>1, Typed DEF TaskInv, Starting, Tasked, Threaded, Replaced
<1>6. LagInv'
  BY <1>0, <1>1 DEF LagInv, Active, Replaced, FreshInv, Snapshot
<1>7. FilesInv'
  BY <1>0, <1>1, Typed DEF FilesInv, Replaced, FreshInv, CatalogConsistent
<1>8. ProcInv'
  BY <1>0, <1>1, Typed DEF ProcInv, Replaced
<1>9. CatalogConsistent'
  BY <1>0, <1>1, Typed DEF CatalogConsistent, Replaced, FreshInv
<1>10. ActiveHasTask'
  BY <1>0, <1>1 DEF ActiveHasTask, Active, Tasked, Threaded, Replaced
<1>11. CancelledIsKilled'
  BY <1>0, <1>1 DEF CancelledIsKilled, Replaced
<1>12. SuccessHasOutput'
  BY <1>0, <1>1 DEF SuccessHasOutput, Replaced, FreshInv
<1>13. Lifecycle
  BY <1>0, <1>1 DEF Lifecycle, Forward, Replaced, FreshInv
<1>14. Kept({j})
  BY <1>0, <1>1 DEF Kept, Active, Replaced
<1>15. Started(o, j)
  BY <1>0, <1>1 DEF Replaced, Started, FreshInv
<1> QED
  BY <1>2, <1>3, <1>4, <1>5, <1>6, <1>7, <1>8, <1>9, <1>10, <1>11, <1>12, <1>13, <1>14, <1>15 DEF
     IInv

(* cancel and close() fix an active job as cancelled and kill its process  *)
(* if it is registered.                                                    *)
Cancelled(j) ==
    /\ Replaced(j, mem[j].op, "cancelled") /\ mem'[j] # None
    /\ \A i \in Jobs \ {j} : os'[i] = os[i]
    /\ os'[j] = os[j] \/ os'[j] = "killed"
    /\ j \in proc /\ j \notin broken' => os'[j] # "alive"
    /\ os' \in [Jobs -> {"none", "alive", "killed", "exited"}]

LEMMA CancelStep ==
  ASSUME TypeOK, NEW j \in Jobs, mem[j] # None,
         \/ CancelRecord(j)
         \/ SaveFails(j, State(j, "cancelled")) /\ UNCHANGED os
  PROVE  Cancelled(j)
<1>1. Replaced(j, mem[j].op, "cancelled")
  BY StateStep DEF CancelRecord, States, TERMINAL_JOB_STATES
<1>2. mem'[j] # None
  BY <1>1, JobAssumption DEF Replaced
<1>3. CASE CancelRecord(j)
  <2>1. IF j \in proc THEN Kill(j) ELSE UNCHANGED os
    BY <1>3 DEF CancelRecord
  <2> QED
    BY <1>1, <1>2, <2>1 DEF Cancelled, Kill, TypeOK
<1>4. CASE SaveFails(j, State(j, "cancelled")) /\ UNCHANGED os
  BY <1>1, <1>2, <1>4 DEF Cancelled, SaveFails, TypeOK
<1> QED
  BY <1>3, <1>4

LEMMA CancelKeeps ==
  ASSUME IInv, NEW j \in Jobs, Locked, mem[j] # None, mem[j].state \in Active,
         \/ CancelRecord(j)
         \/ SaveFails(j, State(j, "cancelled")) /\ UNCHANGED os,
         reg' \in {reg, "aborted"}, pending' \in SUBSET pending,
         UNCHANGED <<now, opjobs, proc, run, writing, outputs>>
  PROVE  IInv' /\ Lifecycle /\ Kept({})
<1>0. /\ TypeOK /\ FreshInv /\ DownInv /\ TaskInv /\ LagInv /\ FilesInv /\ ProcInv
      /\ CatalogConsistent /\ ActiveHasTask /\ CancelledIsKilled /\ SuccessHasOutput
  BY DEF IInv
<1>1. /\ Cancelled(j) /\ j \in Jobs /\ writing = None /\ reg # "down" /\ reg' # "down"
      /\ UNCHANGED <<now, opjobs, proc, run, writing, outputs>> /\ pending' \subseteq pending
      /\ mem[j] # None /\ mem[j].state \in Active
  BY <1>0, CancelStep DEF Locked
<1>2. TypeOK'
  BY <1>0, <1>1, JobAssumption DEF TypeOK, Tasked, Threaded, Cancelled, Replaced
<1>3. FreshInv'
  BY <1>0, <1>1 DEF FreshInv, Cancelled, Replaced
<1>4. DownInv'
  BY <1>0, <1>1 DEF DownInv, Tasked, Threaded, Cancelled, Replaced
<1>5. TaskInv'
  BY <1>0, <1>1, Typed DEF TaskInv, Starting, Tasked, Threaded, Cancelled, Replaced,
      Active
<1>6. LagInv'
  BY <1>0, <1>1 DEF LagInv, Active, Cancelled, Replaced
<1>7. FilesInv'
  BY <1>0, <1>1, Typed DEF FilesInv, Cancelled, Replaced, CatalogConsistent
<1>8. ProcInv'
  BY <1>0, <1>1, Typed DEF ProcInv, Cancelled, Replaced
<1>9. CatalogConsistent'
  BY <1>0, <1>1, Typed DEF CatalogConsistent, Cancelled, Replaced
<1>10. ActiveHasTask'
  BY <1>0, <1>1 DEF ActiveHasTask, Active, Tasked, Threaded, Cancelled, Replaced
<1>11. CancelledIsKilled'
  BY <1>0, <1>1 DEF CancelledIsKilled, Cancelled, Replaced, ProcInv
<1>12. SuccessHasOutput'
  BY <1>0, <1>1 DEF SuccessHasOutput, Cancelled, Replaced
<1>13. Lifecycle
  BY <1>0, <1>1 DEF Lifecycle, Forward, Cancelled, Replaced, LagInv, Active
<1>14. Kept({})
  BY <1>0, <1>1 DEF Kept, Active, Cancelled, Replaced
<1> QED
  BY <1>2, <1>3, <1>4, <1>5, <1>6, <1>7, <1>8, <1>9, <1>10, <1>11, <1>12, <1>13, <1>14 DEF IInv

LEMMA TaskBeginKeeps ==
  ASSUME IInv, NEW j \in Jobs, TaskBegin(j)
  PROVE  IInv' /\ Lifecycle /\ Kept({})
<1>0. /\ TypeOK /\ FreshInv /\ DownInv /\ TaskInv /\ LagInv /\ FilesInv /\ ProcInv
      /\ CatalogConsistent /\ ActiveHasTask /\ CancelledIsKilled /\ SuccessHasOutput
  BY DEF IInv
<1>1. /\ run[j] = "queued" /\ \A i \in Jobs \ {j} : run'[i] = run[i]
      /\ run'[j] = IF mem[j].state = "cancelled" THEN "done" ELSE "spawning"
      /\ writing = None /\ reg # "down"
      /\ UNCHANGED <<now, reg, pending, mem, opjobs, proc, os, writing, disk, outputs, broken>>
  BY <1>0 DEF TaskBegin, Locked, memory, TypeOK
<1>2. TypeOK'
  BY <1>0, <1>1, JobAssumption DEF TypeOK, Tasked, Threaded, TaskBegin, Locked, memory
<1>3. FreshInv'
  BY <1>0, <1>1 DEF FreshInv
<1>4. DownInv'
  BY <1>0, <1>1 DEF DownInv, Tasked, Threaded
<1>5. TaskInv'
  BY <1>0, <1>1, Typed DEF TaskInv, Starting, Tasked, Threaded
<1>6. LagInv'
  BY <1>0, <1>1 DEF LagInv, Active
<1>7. FilesInv'
  BY <1>0, <1>1, Typed DEF FilesInv
<1>8. ProcInv'
  BY <1>0, <1>1, Typed DEF ProcInv, TaskInv
<1>9. CatalogConsistent'
  BY <1>0, <1>1, Typed DEF CatalogConsistent
<1>10. ActiveHasTask'
  BY <1>0, <1>1 DEF ActiveHasTask, Active, Tasked, Threaded, TaskInv, Starting
<1>11. CancelledIsKilled'
  BY <1>0, <1>1 DEF CancelledIsKilled
<1>12. SuccessHasOutput'
  BY <1>0, <1>1 DEF SuccessHasOutput
<1>13. Lifecycle
  BY <1>0, <1>1 DEF Lifecycle, Forward
<1>14. Kept({})
  BY <1>0, <1>1 DEF Kept, Active
<1> QED
  BY <1>2, <1>3, <1>4, <1>5, <1>6, <1>7, <1>8, <1>9, <1>10, <1>11, <1>12, <1>13, <1>14 DEF IInv

LEMMA SpawnKeeps ==
  ASSUME IInv, NEW j \in Jobs, Spawn(j)
  PROVE  IInv' /\ Lifecycle /\ Kept({})
<1>0. /\ TypeOK /\ FreshInv /\ DownInv /\ TaskInv /\ LagInv /\ FilesInv /\ ProcInv
      /\ CatalogConsistent /\ ActiveHasTask /\ CancelledIsKilled /\ SuccessHasOutput
  BY DEF IInv
<1>1. /\ run[j] = "spawning" /\ run'[j] = "spawned" /\ os'[j] = "alive"
      /\ \A i \in Jobs \ {j} : run'[i] = run[i] /\ os'[i] = os[i]
      /\ UNCHANGED <<now, reg, pending, mem, opjobs, proc, writing, disk, outputs, broken>>
  BY <1>0 DEF Spawn, memory, TypeOK
<1>2. TypeOK'
  BY <1>0, <1>1, JobAssumption DEF TypeOK, Tasked, Threaded, Spawn, memory
<1>3. FreshInv'
  BY <1>0, <1>1 DEF FreshInv
<1>4. DownInv'
  BY <1>0, <1>1 DEF DownInv, Tasked, Threaded
<1>5. TaskInv'
  BY <1>0, <1>1, Typed DEF TaskInv, Starting, Tasked, Threaded
<1>6. LagInv'
  BY <1>0, <1>1 DEF LagInv, Active
<1>7. FilesInv'
  BY <1>0, <1>1, Typed DEF FilesInv
<1>8. ProcInv'
  BY <1>0, <1>1, Typed DEF ProcInv
<1>9. CatalogConsistent'
  BY <1>0, <1>1, Typed DEF CatalogConsistent
<1>10. ActiveHasTask'
  BY <1>0, <1>1 DEF ActiveHasTask, Active, Tasked, Threaded
<1>11. CancelledIsKilled'
  BY <1>0, <1>1 DEF CancelledIsKilled
<1>12. SuccessHasOutput'
  BY <1>0, <1>1 DEF SuccessHasOutput
<1>13. Lifecycle
  BY <1>0, <1>1 DEF Lifecycle, Forward
<1>14. Kept({})
  BY <1>0, <1>1 DEF Kept, Active
<1> QED
  BY <1>2, <1>3, <1>4, <1>5, <1>6, <1>7, <1>8, <1>9, <1>10, <1>11, <1>12, <1>13, <1>14 DEF IInv

LEMMA SpawnEscapesKeeps ==
  ASSUME IInv, NEW j \in Jobs, SpawnEscapes(j)
  PROVE  IInv' /\ Lifecycle /\ Kept({})
<1>0. /\ TypeOK /\ FreshInv /\ DownInv /\ TaskInv /\ LagInv /\ FilesInv /\ ProcInv
      /\ CatalogConsistent /\ ActiveHasTask /\ CancelledIsKilled /\ SuccessHasOutput
  BY DEF IInv
<1>1. /\ run[j] = "spawning" /\ run'[j] = "lost" /\ broken' = broken \cup {j}
      /\ \A i \in Jobs \ {j} : run'[i] = run[i]
      /\ UNCHANGED <<now, reg, pending, mem, opjobs, proc, os, writing, disk, outputs>>
  BY <1>0 DEF SpawnEscapes, memory, TypeOK
<1>2. TypeOK'
  BY <1>0, <1>1, JobAssumption DEF TypeOK, Tasked, Threaded, SpawnEscapes, memory
<1>3. FreshInv'
  BY <1>0, <1>1 DEF FreshInv
<1>4. DownInv'
  BY <1>0, <1>1 DEF DownInv, Tasked, Threaded
<1>5. TaskInv'
  BY <1>0, <1>1, Typed DEF TaskInv, Starting, Tasked, Threaded
<1>6. LagInv'
  BY <1>0, <1>1 DEF LagInv, Active
<1>7. FilesInv'
  BY <1>0, <1>1, Typed DEF FilesInv
<1>8. ProcInv'
  BY <1>0, <1>1, Typed DEF ProcInv
<1>9. CatalogConsistent'
  BY <1>0, <1>1, Typed DEF CatalogConsistent
<1>10. ActiveHasTask'
  BY <1>0, <1>1 DEF ActiveHasTask, Active, Tasked, Threaded
<1>11. CancelledIsKilled'
  BY <1>0, <1>1 DEF CancelledIsKilled
<1>12. SuccessHasOutput'
  BY <1>0, <1>1 DEF SuccessHasOutput
<1>13. Lifecycle
  BY <1>0, <1>1 DEF Lifecycle, Forward
<1>14. Kept({})
  BY <1>0, <1>1 DEF Kept, Active
<1> QED
  BY <1>2, <1>3, <1>4, <1>5, <1>6, <1>7, <1>8, <1>9, <1>10, <1>11, <1>12, <1>13, <1>14 DEF IInv

LEMMA ProcessExitKeeps ==
  ASSUME IInv, NEW j \in Jobs, ProcessExit(j)
  PROVE  IInv' /\ Lifecycle /\ Kept({})
<1>0. /\ TypeOK /\ FreshInv /\ DownInv /\ TaskInv /\ LagInv /\ FilesInv /\ ProcInv
      /\ CatalogConsistent /\ ActiveHasTask /\ CancelledIsKilled /\ SuccessHasOutput
  BY DEF IInv
<1>1. /\ os[j] = "alive" /\ os'[j] = "exited"
      /\ \A i \in Jobs \ {j} : os'[i] = os[i]
      /\ UNCHANGED <<now, reg, pending, mem, opjobs, proc, run, writing, disk, outputs, broken>>
  BY <1>0 DEF ProcessExit, memory, TypeOK
<1>2. TypeOK'
  BY <1>0, <1>1, JobAssumption DEF TypeOK, Tasked, Threaded, ProcessExit, memory
<1>3. FreshInv'
  BY <1>0, <1>1 DEF FreshInv
<1>4. DownInv'
  BY <1>0, <1>1 DEF DownInv, Tasked, Threaded
<1>5. TaskInv'
  BY <1>0, <1>1, Typed DEF TaskInv, Starting, Tasked, Threaded
<1>6. LagInv'
  BY <1>0, <1>1 DEF LagInv, Active
<1>7. FilesInv'
  BY <1>0, <1>1, Typed DEF FilesInv
<1>8. ProcInv'
  BY <1>0, <1>1, Typed DEF ProcInv
<1>9. CatalogConsistent'
  BY <1>0, <1>1, Typed DEF CatalogConsistent
<1>10. ActiveHasTask'
  BY <1>0, <1>1 DEF ActiveHasTask, Active, Tasked, Threaded
<1>11. CancelledIsKilled'
  BY <1>0, <1>1 DEF CancelledIsKilled
<1>12. SuccessHasOutput'
  BY <1>0, <1>1 DEF SuccessHasOutput
<1>13. Lifecycle
  BY <1>0, <1>1 DEF Lifecycle, Forward
<1>14. Kept({})
  BY <1>0, <1>1 DEF Kept, Active
<1> QED
  BY <1>2, <1>3, <1>4, <1>5, <1>6, <1>7, <1>8, <1>9, <1>10, <1>11, <1>12, <1>13, <1>14 DEF IInv

LEMMA SpawnFailsKeeps ==
  ASSUME IInv, NEW j \in Jobs, SpawnFails(j)
  PROVE  IInv' /\ Lifecycle /\ Kept({})
<1>0. /\ TypeOK /\ FreshInv /\ DownInv /\ TaskInv /\ LagInv /\ FilesInv /\ ProcInv
      /\ CatalogConsistent /\ ActiveHasTask /\ CancelledIsKilled /\ SuccessHasOutput
  BY DEF IInv
<1>1. /\ Replaced(j, mem[j].op, "failed") /\ mem[j] # None /\ mem'[j] # None
      /\ writing = None /\ reg # "down" /\ run[j] = "spawning" /\ run'[j] = "done"
      /\ \A i \in Jobs \ {j} : run'[i] = run[i]
      /\ UNCHANGED <<now, reg, pending, opjobs, proc, os, writing, outputs>>
  <2>1. run[j] = "spawning" /\ mem[j] # None
    BY <1>0 DEF SpawnFails, TaskInv, Starting
  <2>2. Replaced(j, mem[j].op, "failed")
    BY <1>0, <2>1, StateStep DEF SpawnFails, States, TERMINAL_JOB_STATES
  <2>3. mem'[j] # None
    BY <2>2, JobAssumption DEF Replaced
  <2> QED
    BY <1>0, <2>1, <2>2, <2>3 DEF SpawnFails, Locked, TypeOK
<1>2. TypeOK'
  BY <1>0, <1>1, JobAssumption DEF TypeOK, Tasked, Threaded, Replaced, SpawnFails
<1>3. FreshInv'
  BY <1>0, <1>1 DEF FreshInv, Replaced
<1>4. DownInv'
  BY <1>0, <1>1 DEF DownInv, Tasked, Threaded, Replaced
<1>5. TaskInv'
  BY <1>0, <1>1, Typed DEF TaskInv, Starting, Tasked, Threaded, Replaced
<1>6. LagInv'
  BY <1>0, <1>1 DEF LagInv, Active, Replaced
<1>7. FilesInv'
  BY <1>0, <1>1, Typed DEF FilesInv, Replaced, CatalogConsistent
<1>8. ProcInv'
  BY <1>0, <1>1, Typed DEF ProcInv, Replaced
<1>9. CatalogConsistent'
  BY <1>0, <1>1, Typed DEF CatalogConsistent, Replaced
<1>10. ActiveHasTask'
  BY <1>0, <1>1 DEF ActiveHasTask, Active, Tasked, Threaded, Replaced
<1>11. CancelledIsKilled'
  BY <1>0, <1>1 DEF CancelledIsKilled, Replaced
<1>12. SuccessHasOutput'
  BY <1>0, <1>1 DEF SuccessHasOutput, Replaced
<1>13. Lifecycle
  BY <1>0, <1>1 DEF Lifecycle, Forward, Replaced, TaskInv, Starting
<1>14. Kept({})
  BY <1>0, <1>1 DEF Kept, Active, Replaced
<1> QED
  BY <1>2, <1>3, <1>4, <1>5, <1>6, <1>7, <1>8, <1>9, <1>10, <1>11, <1>12, <1>13, <1>14 DEF IInv

LEMMA RegisterKeeps ==
  ASSUME IInv, NEW j \in Jobs, Register(j)
  PROVE  IInv' /\ Lifecycle /\ Kept({})
<1>0. /\ TypeOK /\ FreshInv /\ DownInv /\ TaskInv /\ LagInv /\ FilesInv /\ ProcInv
      /\ CatalogConsistent /\ ActiveHasTask /\ CancelledIsKilled /\ SuccessHasOutput
  BY DEF IInv
<1>1. /\ writing = None /\ reg # "down" /\ run[j] = "spawned" /\ proc' = proc \cup {j}
      /\ mem[j] # None
      /\ \A i \in Jobs \ {j} : run'[i] = run[i] /\ os'[i] = os[i]
      /\ \/ /\ mem[j].state = "cancelled" /\ run'[j] = "waiting" /\ os'[j] # "alive"
            /\ UNCHANGED <<mem, disk, broken>>
         \/ /\ mem[j].state # "cancelled" /\ os'[j] = os[j]
            /\ Replaced(j, mem[j].op, "running") /\ mem'[j] # None
            /\ \/ run'[j] = "waiting" /\ disk'[j] = mem'[j]
               \/ run'[j] = "lost" /\ j \in broken' /\ disk'[j] = disk[j]
      /\ UNCHANGED <<now, reg, pending, opjobs, writing, outputs>>
  <2>1. run[j] = "spawned" /\ mem[j] # None
    BY <1>0 DEF Register, TaskInv, Starting
  <2>2. CASE mem[j].state = "cancelled"
    BY <1>0, <2>1, <2>2 DEF Register, Locked, Kill, TypeOK
  <2>3. CASE mem[j].state # "cancelled"
    <3>1. Save(j, State(j, "running")) \/ SaveFails(j, State(j, "running"))
      BY <2>3 DEF Register
    <3>2. Replaced(j, mem[j].op, "running")
      BY <1>0, <2>1, <3>1, StateStep DEF States, Active
    <3>3. mem'[j] # None
      BY <3>2, JobAssumption DEF Replaced
    <3>4. /\ Save(j, State(j, "running")) => disk'[j] = mem'[j]
          /\ SaveFails(j, State(j, "running")) => j \in broken' /\ disk'[j] = disk[j]
      BY <1>0 DEF Save, SaveFails, TypeOK
    <3> QED
      BY <1>0, <2>1, <2>3, <3>2, <3>3, <3>4 DEF Register, Locked, TypeOK
  <2> QED
    BY <2>2, <2>3
<1>2. TypeOK'
  BY <1>0, <1>1, JobAssumption DEF TypeOK, Tasked, Threaded, Replaced, Register, Kill
<1>3. FreshInv'
  BY <1>0, <1>1 DEF FreshInv, Replaced
<1>4. DownInv'
  BY <1>0, <1>1 DEF DownInv, Tasked, Threaded, Replaced
<1>5. TaskInv'
  BY <1>0, <1>1, Typed DEF TaskInv, Starting, Tasked, Threaded, Replaced
<1>6. LagInv'
  BY <1>0, <1>1 DEF LagInv, Active, Replaced, TaskInv, Starting
<1>7. FilesInv'
  BY <1>0, <1>1, Typed DEF FilesInv, Replaced, CatalogConsistent
<1>8. ProcInv'
  BY <1>0, <1>1, Typed DEF ProcInv, Replaced
<1>9. CatalogConsistent'
  BY <1>0, <1>1, Typed DEF CatalogConsistent, Replaced
<1>10. ActiveHasTask'
  BY <1>0, <1>1 DEF ActiveHasTask, Active, Tasked, Threaded, Replaced
<1>11. CancelledIsKilled'
  BY <1>0, <1>1 DEF CancelledIsKilled, Replaced
<1>12. SuccessHasOutput'
  BY <1>0, <1>1 DEF SuccessHasOutput, Replaced
<1>13. Lifecycle
  BY <1>0, <1>1 DEF Lifecycle, Forward, Replaced, TaskInv, LagInv, Starting, Active
<1>14. Kept({})
  BY <1>0, <1>1 DEF Kept, Active, Replaced, TaskInv, Starting
<1> QED
  BY <1>2, <1>3, <1>4, <1>5, <1>6, <1>7, <1>8, <1>9, <1>10, <1>11, <1>12, <1>13, <1>14 DEF IInv

LEMMA WriteOutputKeeps ==
  ASSUME IInv, NEW j \in Jobs, WriteOutput(j)
  PROVE  IInv' /\ Lifecycle /\ Kept({})
<1>0. /\ TypeOK /\ FreshInv /\ DownInv /\ TaskInv /\ LagInv /\ FilesInv /\ ProcInv
      /\ CatalogConsistent /\ ActiveHasTask /\ CancelledIsKilled /\ SuccessHasOutput
  BY DEF IInv
<1>1. /\ writing = None /\ reg # "down" /\ run[j] = "waiting" /\ os[j] \in {"killed", "exited"}
      /\ \A i \in Jobs \ {j} : run'[i] = run[i]
      /\ \/ writing' = j /\ outputs' = outputs \cup {j} /\ UNCHANGED <<run, broken>>
         \/ run'[j] = "lost" /\ broken' = broken \cup {j} /\ UNCHANGED <<writing, outputs>>
      /\ UNCHANGED <<now, reg, pending, mem, opjobs, proc, os, disk>>
  BY <1>0 DEF WriteOutput, Locked, memory, TypeOK
<1>2. TypeOK'
  BY <1>0, <1>1, JobAssumption DEF TypeOK, Tasked, Threaded, WriteOutput, Locked, memory
<1>3. FreshInv'
  BY <1>0, <1>1 DEF FreshInv
<1>4. DownInv'
  BY <1>0, <1>1 DEF DownInv, Tasked, Threaded
<1>5. TaskInv'
  BY <1>0, <1>1, Typed DEF TaskInv, Starting, Tasked, Threaded
<1>6. LagInv'
  BY <1>0, <1>1 DEF LagInv, Active
<1>7. FilesInv'
  BY <1>0, <1>1, Typed DEF FilesInv
<1>8. ProcInv'
  BY <1>0, <1>1, Typed DEF ProcInv
<1>9. CatalogConsistent'
  BY <1>0, <1>1, Typed DEF CatalogConsistent
<1>10. ActiveHasTask'
  BY <1>0, <1>1 DEF ActiveHasTask, Active, Tasked, Threaded
<1>11. CancelledIsKilled'
  BY <1>0, <1>1 DEF CancelledIsKilled
<1>12. SuccessHasOutput'
  BY <1>0, <1>1 DEF SuccessHasOutput
<1>13. Lifecycle
  BY <1>0, <1>1 DEF Lifecycle, Forward
<1>14. Kept({})
  BY <1>0, <1>1 DEF Kept, Active
<1> QED
  BY <1>2, <1>3, <1>4, <1>5, <1>6, <1>7, <1>8, <1>9, <1>10, <1>11, <1>12, <1>13, <1>14 DEF IInv

LEMMA CompleteKeeps ==
  ASSUME IInv, NEW j \in Jobs, Complete(j)
  PROVE  IInv' /\ Lifecycle /\ Kept({})
<1>0. /\ TypeOK /\ FreshInv /\ DownInv /\ TaskInv /\ LagInv /\ FilesInv /\ ProcInv
      /\ CatalogConsistent /\ ActiveHasTask /\ CancelledIsKilled /\ SuccessHasOutput
  BY DEF IInv
<1>1. /\ writing = j /\ run[j] = "waiting" /\ writing' = None /\ run'[j] = "done"
      /\ mem[j] # None /\ mem'[j] # None
      /\ \A i \in Jobs \ {j} : run'[i] = run[i] /\ (i \in proc' <=> i \in proc)
      /\ proc' \subseteq proc /\ reg # "down" /\ os[j] # "alive" /\ j \in outputs
      /\ \E s \in TERMINAL_JOB_STATES :
           /\ Replaced(j, mem[j].op, s)
           /\ s # "interrupted" /\ (mem[j].state = "cancelled" => s = "cancelled")
      /\ UNCHANGED <<now, reg, pending, opjobs, os, outputs>>
  <2>1. /\ writing = j /\ run[j] = "waiting" /\ os[j] # "alive" /\ j \in outputs
        /\ mem[j] # None
    BY <1>0, Typed DEF Complete, ProcInv, TaskInv
  <2>2. PICK s \in TERMINAL_JOB_STATES \ {"interrupted"} :
          /\ mem[j].state = "cancelled" => s = "cancelled"
          /\ \/ Save(j, State(j, s)) /\ proc' = proc \ {j}
             \/ SaveFails(j, State(j, s)) /\ UNCHANGED proc
    BY DEF Complete, TERMINAL_JOB_STATES
  <2>3. Replaced(j, mem[j].op, s)
    BY <1>0, <2>1, <2>2, StateStep DEF States
  <2>4. mem'[j] # None
    BY <2>3, JobAssumption DEF Replaced
  <2>5. reg # "down"
    BY <1>0, <2>1, Typed DEF DownInv
  <2> QED
    BY <1>0, <2>1, <2>2, <2>3, <2>4, <2>5, Typed DEF Complete, TypeOK
<1>2. TypeOK'
  BY <1>0, <1>1, JobAssumption DEF TypeOK, Tasked, Threaded, Replaced,
      TERMINAL_JOB_STATES, Complete
<1>3. FreshInv'
  BY <1>0, <1>1 DEF FreshInv, Replaced, TERMINAL_JOB_STATES
<1>4. DownInv'
  BY <1>0, <1>1 DEF DownInv, Tasked, Threaded, Replaced, TERMINAL_JOB_STATES
<1>5. TaskInv'
  BY <1>0, <1>1, Typed DEF TaskInv, Starting, Tasked, Threaded, Replaced,
      TERMINAL_JOB_STATES
<1>6. LagInv'
  BY <1>0, <1>1 DEF LagInv, Active, Replaced, TERMINAL_JOB_STATES
<1>7. FilesInv'
  BY <1>0, <1>1, Typed DEF FilesInv, Replaced, TERMINAL_JOB_STATES, CatalogConsistent
<1>8. ProcInv'
  BY <1>0, <1>1, Typed DEF ProcInv, Replaced, TERMINAL_JOB_STATES
<1>9. CatalogConsistent'
  BY <1>0, <1>1, Typed DEF CatalogConsistent, Replaced, TERMINAL_JOB_STATES
<1>10. ActiveHasTask'
  BY <1>0, <1>1 DEF ActiveHasTask, Active, Tasked, Threaded, Replaced, TERMINAL_JOB_STATES
<1>11. CancelledIsKilled'
  BY <1>0, <1>1 DEF CancelledIsKilled, Replaced, TERMINAL_JOB_STATES
<1>12. SuccessHasOutput'
  BY <1>0, <1>1 DEF SuccessHasOutput, Replaced, TERMINAL_JOB_STATES
<1>13. Lifecycle
  BY <1>0, <1>1 DEF Lifecycle, Forward, Replaced, TERMINAL_JOB_STATES, TaskInv
<1>14. Kept({})
  BY <1>0, <1>1 DEF Kept, Active, Replaced, TERMINAL_JOB_STATES
<1> QED
  BY <1>2, <1>3, <1>4, <1>5, <1>6, <1>7, <1>8, <1>9, <1>10, <1>11, <1>12, <1>13, <1>14 DEF IInv

LEMMA CloseKeeps ==
  ASSUME IInv, Close
  PROVE  IInv' /\ Lifecycle /\ Kept({})
<1>0. /\ TypeOK /\ FreshInv /\ DownInv /\ TaskInv /\ LagInv /\ FilesInv /\ ProcInv
      /\ CatalogConsistent /\ ActiveHasTask /\ CancelledIsKilled /\ SuccessHasOutput
  BY DEF IInv
<1>1. /\ reg = "open" /\ reg' = "closing" /\ writing = None
      /\ pending' = {j \in Jobs : mem[j] # None /\ mem[j].state \in Active}
      /\ UNCHANGED <<now, mem, opjobs, proc, run, os, writing, disk, outputs, broken>>
  BY <1>0 DEF Close, TypeOK
<1>2. TypeOK'
  BY <1>0, <1>1, JobAssumption DEF TypeOK, Tasked, Threaded, Close
<1>3. FreshInv'
  BY <1>0, <1>1 DEF FreshInv
<1>4. DownInv'
  BY <1>0, <1>1 DEF DownInv, Tasked, Threaded
<1>5. TaskInv'
  BY <1>0, <1>1, Typed DEF TaskInv, Starting, Tasked, Threaded
<1>6. LagInv'
  BY <1>0, <1>1 DEF LagInv, Active
<1>7. FilesInv'
  BY <1>0, <1>1, Typed DEF FilesInv
<1>8. ProcInv'
  BY <1>0, <1>1, Typed DEF ProcInv
<1>9. CatalogConsistent'
  BY <1>0, <1>1, Typed DEF CatalogConsistent
<1>10. ActiveHasTask'
  BY <1>0, <1>1 DEF ActiveHasTask, Active, Tasked, Threaded
<1>11. CancelledIsKilled'
  BY <1>0, <1>1 DEF CancelledIsKilled
<1>12. SuccessHasOutput'
  BY <1>0, <1>1 DEF SuccessHasOutput
<1>13. Lifecycle
  BY <1>0, <1>1 DEF Lifecycle, Forward
<1>14. Kept({})
  BY <1>0, <1>1 DEF Kept, Active
<1> QED
  BY <1>2, <1>3, <1>4, <1>5, <1>6, <1>7, <1>8, <1>9, <1>10, <1>11, <1>12, <1>13, <1>14 DEF IInv

(* Steps that move the state of close() or the clock and nothing else.     *)
LEMMA QuietKeeps ==
  ASSUME IInv, NEW r \in {"shutdown", "closed"}, NEW t \in 0..MaxTime,
         \/ reg # "down" /\ reg' = r /\ now' = now
         \/ reg' = reg /\ now' = t,
         UNCHANGED <<pending, mem, opjobs, proc, run, os, writing, disk, outputs, broken>>
  PROVE  IInv' /\ Lifecycle /\ Kept({})
<1>0. /\ TypeOK /\ FreshInv /\ DownInv /\ TaskInv /\ LagInv /\ FilesInv /\ ProcInv
      /\ CatalogConsistent /\ ActiveHasTask /\ CancelledIsKilled /\ SuccessHasOutput
  BY DEF IInv
<1>1. /\ (reg = "down" <=> reg' = "down") /\ now' \in 0..MaxTime
      /\ UNCHANGED <<pending, mem, opjobs, proc, run, os, writing, disk, outputs, broken>>
  BY <1>0 DEF TypeOK, TypeOK
<1>2. TypeOK'
  BY <1>0, <1>1, JobAssumption DEF TypeOK, Tasked, Threaded
<1>3. FreshInv'
  BY <1>0, <1>1 DEF FreshInv
<1>4. DownInv'
  BY <1>0, <1>1 DEF DownInv, Tasked, Threaded
<1>5. TaskInv'
  BY <1>0, <1>1, Typed DEF TaskInv, Starting, Tasked, Threaded
<1>6. LagInv'
  BY <1>0, <1>1 DEF LagInv, Active
<1>7. FilesInv'
  BY <1>0, <1>1, Typed DEF FilesInv
<1>8. ProcInv'
  BY <1>0, <1>1, Typed DEF ProcInv
<1>9. CatalogConsistent'
  BY <1>0, <1>1, Typed DEF CatalogConsistent
<1>10. ActiveHasTask'
  BY <1>0, <1>1 DEF ActiveHasTask, Active, Tasked, Threaded
<1>11. CancelledIsKilled'
  BY <1>0, <1>1 DEF CancelledIsKilled
<1>12. SuccessHasOutput'
  BY <1>0, <1>1 DEF SuccessHasOutput
<1>13. Lifecycle
  BY <1>0, <1>1 DEF Lifecycle, Forward
<1>14. Kept({})
  BY <1>0, <1>1 DEF Kept, Active
<1> QED
  BY <1>2, <1>3, <1>4, <1>5, <1>6, <1>7, <1>8, <1>9, <1>10, <1>11, <1>12, <1>13, <1>14 DEF IInv

LEMMA CrashKeeps ==
  ASSUME IInv, Crash
  PROVE  IInv' /\ Lifecycle /\ Kept({})
<1>0. /\ TypeOK /\ FreshInv /\ DownInv /\ TaskInv /\ LagInv /\ FilesInv /\ ProcInv
      /\ CatalogConsistent /\ ActiveHasTask /\ CancelledIsKilled /\ SuccessHasOutput
  BY DEF IInv
<1>1. /\ reg' = "down" /\ pending' = {} /\ proc' = {} /\ writing' = None
      /\ \A j \in Jobs : mem'[j] = None
      /\ \A o \in Ops : opjobs'[o] = None
      /\ \A j \in Jobs : run'[j] = IF run[j] \in Tasked THEN "lost" ELSE run[j]
      /\ \A j \in Jobs : os'[j] = IF os[j] = "alive" THEN "killed" ELSE os[j]
      /\ UNCHANGED <<now, disk, outputs, broken>>
  BY <1>0 DEF Crash, TypeOK
<1>2. TypeOK'
  BY <1>0, <1>1, JobAssumption DEF TypeOK, Tasked, Threaded, Crash
<1>3. FreshInv'
  BY <1>0, <1>1 DEF FreshInv, Tasked, Threaded
<1>4. DownInv'
  BY <1>0, <1>1 DEF DownInv, Tasked, Threaded
<1>5. TaskInv'
  BY <1>0, <1>1, Typed DEF TaskInv, Starting, Tasked, Threaded
<1>6. LagInv'
  BY <1>0, <1>1 DEF LagInv, Active
<1>7. FilesInv'
  BY <1>0, <1>1, Typed DEF FilesInv
<1>8. ProcInv'
  BY <1>0, <1>1, Typed DEF ProcInv
<1>9. CatalogConsistent'
  BY <1>0, <1>1, Typed DEF CatalogConsistent
<1>10. ActiveHasTask'
  BY <1>0, <1>1 DEF ActiveHasTask, Active, Tasked, Threaded
<1>11. CancelledIsKilled'
  BY <1>0, <1>1 DEF CancelledIsKilled
<1>12. SuccessHasOutput'
  BY <1>0, <1>1 DEF SuccessHasOutput
<1>13. Lifecycle
  BY <1>0, <1>1 DEF Lifecycle, Forward
<1>14. Kept({})
  BY <1>0, <1>1 DEF Kept, Active, Tasked, Threaded
<1> QED
  BY <1>2, <1>3, <1>4, <1>5, <1>6, <1>7, <1>8, <1>9, <1>10, <1>11, <1>12, <1>13, <1>14 DEF IInv

(* _interrupt_stale_snapshot keeps the operation of the job.               *)
LEMMA InterruptStep ==
  ASSUME TypeOK, NEW j \in Jobs, disk[j] # None
  PROVE  /\ Interrupt(j) \in Snapshot /\ Interrupt(j) # None
         /\ Interrupt(j).op = disk[j].op /\ Interrupt(j).state = "interrupted"
<1>1. disk[j] \in Snapshot /\ now \in 0..MaxTime
  BY DEF TypeOK
<1>2. /\ Interrupt(j) \in Snapshot /\ Interrupt(j).op = disk[j].op
      /\ Interrupt(j).state = "interrupted"
  <2>1. "interrupted" \in States
    BY DEF States, TERMINAL_JOB_STATES
  <2> QED
    BY <1>1, <2>1, SnapshotCopy DEF Interrupt
<1> QED
  BY <1>2, JobAssumption

(* What recovery, whole or cut short by another crash, does to the files.  *)
Recovered(gone, kept, fixed) ==
    /\ disk' \in [Jobs -> Snapshot \cup {None}]
    /\ gone \subseteq Expired /\ fixed \subseteq Stale
    /\ outputs' = outputs \ kept /\ kept \subseteq gone
    /\ \A j \in Jobs : disk'[j] = IF j \in gone THEN None
                                  ELSE IF j \in fixed THEN Interrupt(j) ELSE disk[j]

LEMMA RecoverKeeps ==
  ASSUME IInv, Recover
  PROVE  IInv' /\ Lifecycle /\ Rebuilt
<1>0. /\ TypeOK /\ FreshInv /\ DownInv /\ TaskInv /\ LagInv /\ FilesInv /\ ProcInv
      /\ CatalogConsistent /\ ActiveHasTask /\ CancelledIsKilled /\ SuccessHasOutput
  BY DEF IInv
<1>1. /\ Recovered(Expired, Expired, Stale)
      /\ reg = "down" /\ reg' = "open" /\ mem' = disk'
      /\ \A o \in Ops : opjobs'[o] = IF \E j \in Jobs : disk'[j] # None /\ disk'[j].op = o
                                     THEN CHOOSE j \in Jobs : disk'[j] # None /\ disk'[j].op = o
                                     ELSE None
      /\ UNCHANGED <<now, pending, proc, run, os, writing, broken>>
      /\ \A j \in Jobs : disk'[j] # None =>
           /\ disk[j] # None /\ disk'[j].op = disk[j].op
           /\ disk'[j].state \notin Active
           /\ disk'[j] = disk[j] \/ (disk'[j].state = "interrupted" /\ disk[j].state \in Active)
  <2>1. \A j \in Stale : /\ Interrupt(j) \in Snapshot /\ Interrupt(j) # None
                         /\ Interrupt(j).op = disk[j].op
                         /\ Interrupt(j).state = "interrupted"
    BY <1>0, InterruptStep DEF Stale
  <2>2. Recovered(Expired, Expired, Stale)
    BY <1>0, <2>1 DEF Recover, Recovered, TypeOK, Stale
  <2>3. \A j \in Jobs : disk'[j] # None =>
           /\ disk[j] # None /\ disk'[j].op = disk[j].op
           /\ disk'[j].state \notin Active
           /\ disk'[j] = disk[j] \/ (disk'[j].state = "interrupted" /\ disk[j].state \in Active)
    BY <2>1, <2>2 DEF Recovered, Stale, Active
  <2> QED
    BY <2>2, <2>3 DEF Recover
<1>2. TypeOK'
  BY <1>0, <1>1, JobAssumption DEF TypeOK, Tasked, Threaded, Recovered, Recover
<1>3. FreshInv'
  BY <1>0, <1>1 DEF FreshInv, Recovered
<1>4. DownInv'
  BY <1>0, <1>1 DEF DownInv, Tasked, Threaded, Recovered
<1>5. TaskInv'
  BY <1>0, <1>1, Typed DEF TaskInv, Starting, Tasked, Threaded, Recovered, DownInv
<1>6. LagInv'
  BY <1>0, <1>1 DEF LagInv, Active, Recovered
<1>7. FilesInv'
  BY <1>0, <1>1, Typed DEF FilesInv, Recovered
<1>8. ProcInv'
  BY <1>0, <1>1, Typed DEF ProcInv, Recovered, DownInv
<1>9. CatalogConsistent'
  BY <1>0, <1>1, Typed DEF CatalogConsistent, Recovered, FilesInv
<1>10. ActiveHasTask'
  BY <1>0, <1>1 DEF ActiveHasTask, Active, Tasked, Threaded, Recovered
<1>11. CancelledIsKilled'
  BY <1>0, <1>1 DEF CancelledIsKilled, Recovered, DownInv
<1>12. SuccessHasOutput'
  BY <1>0, <1>1 DEF SuccessHasOutput, Recovered, Expired
<1>13. Lifecycle
  BY <1>0, <1>1 DEF Lifecycle, Forward, Recovered, Active
<1>14. Rebuilt
  BY <1>0, <1>1 DEF Recovered, Rebuilt
<1> QED
  BY <1>2, <1>3, <1>4, <1>5, <1>6, <1>7, <1>8, <1>9, <1>10, <1>11, <1>12, <1>13, <1>14 DEF IInv

LEMMA RecoverPartlyKeeps ==
  ASSUME IInv, NEW gone \in SUBSET Expired, NEW rest \in SUBSET gone, NEW fixed \in SUBSET Stale,
         RecoverPartly(gone, rest, fixed)
  PROVE  IInv' /\ Lifecycle
<1>0. /\ TypeOK /\ FreshInv /\ DownInv /\ TaskInv /\ LagInv /\ FilesInv /\ ProcInv
      /\ CatalogConsistent /\ ActiveHasTask /\ CancelledIsKilled /\ SuccessHasOutput
  BY DEF IInv
<1>1. /\ Recovered(gone, gone \ rest, fixed) /\ reg = "down"
      /\ UNCHANGED <<now, reg, pending, mem, opjobs, proc, run, os, writing, broken>>
      /\ \A j \in Jobs : disk'[j] # None =>
           /\ disk[j] # None /\ disk'[j].op = disk[j].op
           /\ disk'[j] = disk[j] \/ (disk'[j].state = "interrupted" /\ disk[j].state \in Active)
  <2>1. \A j \in Stale : /\ Interrupt(j) \in Snapshot /\ Interrupt(j) # None
                         /\ Interrupt(j).op = disk[j].op
                         /\ Interrupt(j).state = "interrupted"
    BY <1>0, InterruptStep DEF Stale
  <2>2. Recovered(gone, gone \ rest, fixed)
    BY <1>0, <2>1 DEF RecoverPartly, Recovered, TypeOK, Stale
  <2>3. \A j \in Jobs : disk'[j] # None =>
           /\ disk[j] # None /\ disk'[j].op = disk[j].op
           /\ disk'[j] = disk[j] \/ (disk'[j].state = "interrupted" /\ disk[j].state \in Active)
    BY <2>1, <2>2 DEF Recovered, Stale
  <2> QED
    BY <2>2, <2>3 DEF RecoverPartly, memory
<1>2. TypeOK'
  BY <1>0, <1>1, JobAssumption DEF TypeOK, Tasked, Threaded, Recovered, RecoverPartly,
      memory
<1>3. FreshInv'
  BY <1>0, <1>1 DEF FreshInv, Recovered
<1>4. DownInv'
  BY <1>0, <1>1 DEF DownInv, Tasked, Threaded, Recovered
<1>5. TaskInv'
  BY <1>0, <1>1, Typed DEF TaskInv, Starting, Tasked, Threaded, Recovered, DownInv
<1>6. LagInv'
  BY <1>0, <1>1 DEF LagInv, Active, Recovered, DownInv
<1>7. FilesInv'
  BY <1>0, <1>1, Typed DEF FilesInv, Recovered
<1>8. ProcInv'
  BY <1>0, <1>1, Typed DEF ProcInv, Recovered, DownInv
<1>9. CatalogConsistent'
  BY <1>0, <1>1, Typed DEF CatalogConsistent, Recovered
<1>10. ActiveHasTask'
  BY <1>0, <1>1 DEF ActiveHasTask, Active, Tasked, Threaded, Recovered
<1>11. CancelledIsKilled'
  BY <1>0, <1>1 DEF CancelledIsKilled, Recovered, DownInv
<1>12. SuccessHasOutput'
  BY <1>0, <1>1 DEF SuccessHasOutput, Recovered
<1>13. Lifecycle
  BY <1>0, <1>1 DEF Lifecycle, Forward, Recovered, Active
<1> QED
  BY <1>2, <1>3, <1>4, <1>5, <1>6, <1>7, <1>8, <1>9, <1>10, <1>11, <1>12, <1>13 DEF IInv

(* cancel, and its use by close(): a job that ended meanwhile is left.     *)
LEMMA CancelCall ==
  ASSUME IInv, NEW j \in Jobs, Cancel(j)
  PROVE  IInv' /\ Lifecycle /\ Kept({})
  BY CancelKeeps DEF Cancel

LEMMA CloseCancelKeeps ==
  ASSUME IInv, NEW j \in Jobs, CloseCancel(j)
  PROVE  IInv' /\ Lifecycle /\ Kept({})
<1>1. mem[j] # None /\ Locked /\ reg = "closing"
  BY DEF CloseCancel, IInv, ProcInv, Locked
<1>2. CASE mem[j].state \in Active
  BY <1>1, <1>2, CancelKeeps DEF CloseCancel, Active, TERMINAL_JOB_STATES
<1>3. CASE mem[j].state \notin Active
  <2>1. pending' \subseteq pending /\ UNCHANGED <<now, reg, mem, opjobs, proc, run, os, writing, disk,
                                                 outputs, broken>>
    BY <1>3 DEF CloseCancel, vars
  <2> QED
    BY <2>1 DEF IInv, TypeOK, FreshInv, DownInv, TaskInv, LagInv, FilesInv, ProcInv,
       CatalogConsistent, ActiveHasTask, CancelledIsKilled, SuccessHasOutput, Lifecycle, Kept
<1> QED
  BY <1>2, <1>3

LEMMA TaskKeeps ==
  ASSUME IInv, NEW j \in Jobs, TaskStep(j) \/ ProcessExit(j)
  PROVE  IInv' /\ Lifecycle /\ Kept({})
  BY TaskBeginKeeps, SpawnKeeps, SpawnFailsKeeps, SpawnEscapesKeeps, RegisterKeeps,
     WriteOutputKeeps, CompleteKeeps, ProcessExitKeeps DEF TaskStep

LEMMA CloseCalls ==
  ASSUME IInv, Close \/ Shutdown \/ ShutdownDone
  PROVE  IInv' /\ Lifecycle /\ Kept({})
<1>1. now \in 0..MaxTime
  BY DEF IInv, TypeOK
<1>2. CASE Close
  BY <1>2, CloseKeeps
<1>3. CASE Shutdown
  BY <1>1, <1>3, QuietKeeps DEF Shutdown, memory
<1>4. CASE ShutdownDone
  BY <1>1, <1>4, QuietKeeps DEF ShutdownDone, memory
<1> QED
  BY <1>2, <1>3, <1>4

LEMMA NextIInv == IInv /\ [Next]_vars => IInv' /\ Lifecycle
<1> SUFFICES ASSUME IInv, [Next]_vars PROVE IInv' /\ Lifecycle
  OBVIOUS
<1>1. ASSUME NEW j \in Jobs, NEW o \in Ops, Start(o, j) PROVE IInv' /\ Lifecycle
  BY <1>1, StartKeeps
<1>2. ASSUME NEW j \in Jobs, Cancel(j) PROVE IInv' /\ Lifecycle
  BY <1>2, CancelCall
<1>3. ASSUME NEW j \in Jobs, CloseCancel(j) PROVE IInv' /\ Lifecycle
  BY <1>3, CloseCancelKeeps
<1>4. ASSUME NEW j \in Jobs, TaskStep(j) \/ ProcessExit(j) PROVE IInv' /\ Lifecycle
  BY <1>4, TaskKeeps
<1>5. CASE Close \/ Shutdown \/ ShutdownDone
  BY <1>5, CloseCalls
<1>6. CASE Crash
  BY <1>6, CrashKeeps
<1>7. CASE Recover
  BY <1>7, RecoverKeeps
<1>8. ASSUME NEW gone \in SUBSET Expired, NEW rest \in SUBSET gone, NEW fixed \in SUBSET Stale,
             RecoverPartly(gone, rest, fixed)
      PROVE  IInv' /\ Lifecycle
  BY <1>8, RecoverPartlyKeeps
<1>9. CASE Tick
  <2>1. now + 1 \in 0..MaxTime
    BY <1>9, JobAssumption DEF Tick, IInv, TypeOK
  <2> QED
    BY <1>9, <2>1, QuietKeeps DEF Tick, memory
<1>10. CASE UNCHANGED vars
  <2>1. now \in 0..MaxTime
    BY DEF IInv, TypeOK
  <2> QED
    BY <1>10, <2>1, QuietKeeps DEF vars
<1> QED
  BY <1>1, <1>2, <1>3, <1>4, <1>5, <1>6, <1>7, <1>8, <1>9, <1>10 DEF Next, TaskStep

(* The registry accounts for every job (JobRegistry, recover_store).       *)
THEOREM JobsAreAccounted == Spec => []JobsAccounted
<1>1. IInv => JobsAccounted
  BY DEF IInv, JobsAccounted
<1> QED
  BY <1>1, InitIInv, NextIInv, PTL DEF Spec

(* The state in a job's file only moves forward.                           *)
THEOREM FilesMoveForward == Spec => DurableLifecycle
<1>1. IInv /\ [Next]_vars => [Lifecycle]_vars
  BY NextIInv
<1> QED
  BY <1>1, InitIInv, NextIInv, PTL DEF Spec, DurableLifecycle, Lifecycle

(* The state of the registry has its type.                                 *)
THEOREM JobTypes == Spec => []TypeOK
<1>1. IInv => TypeOK
  BY DEF IInv
<1> QED
  BY <1>1, InitIInv, NextIInv, PTL DEF Spec

-----------------------------------------------------------------------------
(* A start that has written its record has no job yet.                     *)
RecordedInv == \A j \in Jobs : call[j] = "recorded" => j \in recs /\ run[j] = "none"

(* The record of a Codex job outlives a crash as long as its file.         *)
FileHasRecord ==
    \A j \in Jobs \ broken : disk[j] # None /\ disk[j].op \in CodexOps => j \in recs

CodexInv ==
    /\ IInv /\ CodexTypeOK
    /\ RecordedInv /\ FileHasRecord /\ JobHasRecord /\ ActiveIsWatched

LEMMA InitCodexInv == CodexInit => CodexInv
<1> SUFFICES ASSUME CodexInit PROVE CodexInv
  OBVIOUS
<1>1. IInv
  BY InitIInv DEF CodexInit
<1>2. CodexTypeOK
  BY <1>1 DEF CodexInit, CodexTypeOK, IInv
<1>3. RecordedInv /\ FileHasRecord /\ JobHasRecord /\ ActiveIsWatched
  BY DEF CodexInit, Init, RecordedInv, FileHasRecord, JobHasRecord, ActiveIsWatched, IsCodex
<1> QED
  BY <1>1, <1>2, <1>3 DEF CodexInv

(* A step of the registry under a step of the adapter that adds to the     *)
(* records and to the tracked jobs at most.                                *)
LEMMA RegistryStep ==
  ASSUME CodexInv, IInv', Kept({}), UNCHANGED <<recs, tracked>>,
         NEW j \in Jobs, \A i \in Jobs \ {j} : call'[i] = call[i] /\ deadline'[i] = deadline[i],
         call'[j] = "recorded" => call[j] = "recorded",
         \/ call'[j] = call[j] /\ deadline'[j] = deadline[j]
         \/ deadline'[j] \in {"armed", "due"}
         \/ mem'[j] # None => mem'[j].state \notin Active
  PROVE  RecordedInv' /\ FileHasRecord' /\ JobHasRecord' /\ ActiveIsWatched'
<1>0. RecordedInv /\ FileHasRecord /\ JobHasRecord /\ ActiveIsWatched
  BY DEF CodexInv
<1>1. RecordedInv'
  BY <1>0 DEF RecordedInv, Kept
<1>2. FileHasRecord'
  BY <1>0 DEF FileHasRecord, JobHasRecord, IsCodex, Kept
<1>3. JobHasRecord'
  BY <1>0 DEF JobHasRecord, IsCodex, Kept
<1>4. ActiveIsWatched'
  BY <1>0 DEF ActiveIsWatched, IsCodex, IsActive, Kept
<1> QED
  BY <1>1, <1>2, <1>3, <1>4

(* Nothing of the registry moves.                                          *)
LEMMA RegistryRests ==
  ASSUME IInv, UNCHANGED vars
  PROVE  IInv' /\ Kept({})
<1>1. now \in 0..MaxTime
  BY DEF IInv, TypeOK
<1> QED
  BY <1>1, QuietKeeps DEF vars

(* A cancel by the adapter, of a job that may have ended.                  *)
LEMMA AdapterCancel ==
  ASSUME IInv, NEW j \in Jobs,
         Cancel(j) \/ (Locked /\ mem[j].state \in TERMINAL_JOB_STATES /\ UNCHANGED vars)
  PROVE  IInv' /\ Kept({}) /\ (mem'[j] # None => mem'[j].state \notin Active)
<1>1. CASE Cancel(j)
  <2>1. IInv' /\ Kept({})
    BY <1>1, CancelCall
  <2>2. Cancelled(j)
    BY <1>1, CancelStep DEF Cancel, IInv
  <2> QED
    BY <2>1, <2>2 DEF Cancelled, Replaced, Active
<1>2. CASE Locked /\ mem[j].state \in TERMINAL_JOB_STATES /\ UNCHANGED vars
  BY <1>2, RegistryRests DEF vars, Active, TERMINAL_JOB_STATES
<1> QED
  BY <1>1, <1>2

LEMMA NextCodexInv == CodexInv /\ [CodexNext]_allVars => CodexInv'
<1> SUFFICES ASSUME CodexInv, [CodexNext]_allVars PROVE CodexInv'
  OBVIOUS
<1>0. IInv /\ CodexTypeOK /\ RecordedInv /\ FileHasRecord /\ JobHasRecord /\ ActiveIsWatched
  BY DEF CodexInv
<1>a. ASSUME IInv', recs' \subseteq Jobs, tracked' \subseteq Jobs,
             call' \in [Jobs -> {"idle", "recorded", "submitted", "done"}],
             deadline' \in [Jobs -> {"none", "armed", "due", "ended"}]
      PROVE  CodexTypeOK'
  BY <1>a DEF CodexTypeOK, IInv
<1>1. ASSUME NEW j \in Jobs, Record(j) PROVE CodexInv'
  <2>1. IInv' /\ Kept({}) /\ run'[j] = "none" /\ UNCHANGED <<mem, disk, run, broken>>
    BY <1>0, <1>1, RegistryRests DEF Record, vars
  <2>2. CodexTypeOK'
    BY <1>0, <1>1, <1>a, <2>1 DEF Record, Written, Goto, CodexTypeOK
  <2>3. RecordedInv'
    BY <1>0, <1>1, <2>1 DEF Record, Written, Goto, RecordedInv, CodexTypeOK
  <2>4. FileHasRecord' /\ JobHasRecord'
    BY <1>0, <1>1, <2>1 DEF Record, Written, FileHasRecord, JobHasRecord, IsCodex
  <2>5. ActiveIsWatched'
    BY <1>0, <1>1, <2>1 DEF Record, Goto, ActiveIsWatched, IsCodex, IsActive, CodexTypeOK
  <2> QED
    BY <2>1, <2>2, <2>3, <2>4, <2>5 DEF CodexInv
<1>2. ASSUME NEW j \in Jobs, call[j] = "recorded", recs' = recs \ {j}, Goto(j, "done"),
             tracked \subseteq tracked', tracked' \subseteq Jobs, UNCHANGED <<vars, deadline>>
      PROVE  CodexInv'
  <2>1. IInv' /\ UNCHANGED <<mem, disk, run, broken>>
    BY <1>0, <1>2, RegistryRests DEF vars
  <2>2. mem[j] = None /\ disk[j] = None
    BY <1>0, <1>2 DEF RecordedInv, IInv, FreshInv
  <2>3. CodexTypeOK'
    BY <1>0, <1>2, <1>a, <2>1 DEF Goto, CodexTypeOK
  <2>4. RecordedInv'
    BY <1>0, <1>2, <2>1 DEF Goto, RecordedInv, CodexTypeOK
  <2>5. FileHasRecord' /\ JobHasRecord'
    BY <1>0, <1>2, <2>1, <2>2 DEF FileHasRecord, JobHasRecord, IsCodex
  <2>6. ActiveIsWatched'
    BY <1>0, <1>2, <2>1 DEF Goto, ActiveIsWatched, IsCodex, IsActive, CodexTypeOK
  <2> QED
    BY <2>1, <2>3, <2>4, <2>5, <2>6 DEF CodexInv
<1>3. ASSUME NEW j \in Jobs, NEW o \in CodexOps, Replay(j, o) PROVE CodexInv'
  <2>1. tracked \subseteq tracked' /\ tracked' \subseteq Jobs
    BY <1>0, <1>3 DEF Replay, CodexTypeOK
  <2> QED
    BY <1>2, <1>3, <2>1 DEF Replay, Deleted
<1>4. ASSUME NEW j \in Jobs, Refused(j) PROVE CodexInv'
  <2>1. tracked \subseteq tracked' /\ tracked' \subseteq Jobs
    BY <1>0, <1>4 DEF Refused, CodexTypeOK
  <2> QED
    BY <1>2, <1>4, <2>1 DEF Refused, Deleted
<1>5. ASSUME NEW j \in Jobs, NEW o \in CodexOps, Submit(j, o) PROVE CodexInv'
  <2>1. IInv' /\ Kept({j}) /\ Started(o, j)
    BY <1>0, <1>5, StartKeeps, CodexAssumption DEF Submit
  <2>2. /\ call[j] = "recorded" /\ j \in recs /\ deadline' = deadline
        /\ \/ tracked' = tracked \cup {j} /\ call' = [call EXCEPT ![j] = "submitted"] /\ recs' = recs
           \/ /\ tracked' = tracked /\ call' = [call EXCEPT ![j] = "done"] /\ recs' = recs \ {j}
              /\ j \in broken'
    BY <1>0, <1>5, <2>1 DEF Submit, Goto, Deleted, RecordedInv, Started
  <2>3. CodexTypeOK'
    BY <1>0, <1>a, <2>1, <2>2 DEF CodexTypeOK
  <2>4. RecordedInv'
    BY <1>0, <2>1, <2>2 DEF RecordedInv, CodexTypeOK, Kept
  <2>5. FileHasRecord' /\ JobHasRecord'
    BY <1>0, <2>1, <2>2 DEF FileHasRecord, JobHasRecord, IsCodex, Kept
  <2>6. ActiveIsWatched'
    BY <1>0, <2>1, <2>2 DEF ActiveIsWatched, IsCodex, IsActive, CodexTypeOK, Kept
  <2> QED
    BY <2>1, <2>3, <2>4, <2>5, <2>6 DEF CodexInv
<1>6. ASSUME NEW j \in Jobs, Arm(j) PROVE CodexInv'
  <2>1. /\ IInv' /\ Kept({}) /\ UNCHANGED <<recs, tracked>> /\ call' = [call EXCEPT ![j] = "done"]
        /\ \/ deadline' = [deadline EXCEPT ![j] = "armed"]
           \/ deadline' = deadline /\ (mem'[j] # None => mem'[j].state \notin Active)
    BY <1>0, <1>6, AdapterCancel, RegistryRests DEF Arm, Goto
  <2>2. CodexTypeOK'
    BY <1>0, <1>a, <2>1 DEF CodexTypeOK
  <2>3. /\ call'[j] = "done"
        /\ \A i \in Jobs \ {j} : call'[i] = call[i] /\ deadline'[i] = deadline[i]
        /\ deadline'[j] = "armed" \/ (mem'[j] # None => mem'[j].state \notin Active)
    BY <1>0, <2>1 DEF CodexTypeOK
  <2> QED
    BY <2>1, <2>2, <2>3, RegistryStep DEF CodexInv
<1>7. ASSUME NEW j \in Jobs, WatchRead(j) PROVE CodexInv'
  <2>1. /\ IInv' /\ Kept({}) /\ UNCHANGED <<recs, tracked, call, mem>>
        /\ deadline' = [deadline EXCEPT ![j] =
             IF mem[j].state \in TERMINAL_JOB_STATES THEN "ended" ELSE "due"]
    BY <1>0, <1>7, RegistryRests DEF WatchRead, vars
  <2>2. CodexTypeOK'
    BY <1>0, <1>a, <2>1 DEF CodexTypeOK
  <2>3. /\ \A i \in Jobs \ {j} : call'[i] = call[i] /\ deadline'[i] = deadline[i]
        /\ call'[j] = call[j]
        /\ deadline'[j] = "due" \/ (mem'[j] # None => mem'[j].state \notin Active)
    BY <1>0, <2>1 DEF CodexTypeOK, Active, TERMINAL_JOB_STATES
  <2> QED
    BY <2>1, <2>2, <2>3, RegistryStep DEF CodexInv
<1>8. ASSUME NEW j \in Jobs, WatchCancel(j) PROVE CodexInv'
  <2>1. /\ IInv' /\ Kept({}) /\ UNCHANGED <<recs, tracked, call>>
        /\ deadline' = [deadline EXCEPT ![j] = "ended"]
        /\ mem'[j] # None => mem'[j].state \notin Active
    BY <1>0, <1>8, AdapterCancel DEF WatchCancel
  <2>2. CodexTypeOK'
    BY <1>0, <1>a, <2>1 DEF CodexTypeOK
  <2>3. \A i \in Jobs \ {j} : call'[i] = call[i] /\ deadline'[i] = deadline[i]
    BY <1>0, <2>1 DEF CodexTypeOK
  <2> QED
    BY <2>1, <2>2, <2>3, RegistryStep DEF CodexInv
<1>9. CASE CodexCrash
  <2>1. IInv' /\ Kept({})
    BY <1>0, <1>9, CrashKeeps DEF CodexCrash
  <2>2. \A j \in Jobs : mem'[j] = None /\ call'[j] \in {"idle", "done"}
    BY <1>9 DEF CodexCrash, Crash
  <2>3. CodexTypeOK'
    BY <1>0, <1>9, <1>a, <2>1 DEF CodexCrash, CodexTypeOK
  <2>4. RecordedInv' /\ JobHasRecord' /\ ActiveIsWatched'
    BY <2>2 DEF RecordedInv, JobHasRecord, ActiveIsWatched, IsCodex
  <2>5. FileHasRecord'
    BY <1>0, <1>9 DEF CodexCrash, Crash, FileHasRecord
  <2> QED
    BY <2>1, <2>3, <2>4, <2>5 DEF CodexInv
<1>10. CASE CodexRecover
  <2>1. IInv' /\ Rebuilt /\ tracked' = recs /\ UNCHANGED <<recs, call, deadline>>
    BY <1>0, <1>10, RecoverKeeps DEF CodexRecover, Loaded
  <2>2. CodexTypeOK'
    BY <1>0, <1>a, <2>1 DEF CodexTypeOK
  <2>3. RecordedInv'
    BY <1>0, <2>1 DEF RecordedInv, Rebuilt
  <2>4. FileHasRecord' /\ JobHasRecord'
    BY <1>0, <2>1 DEF FileHasRecord, JobHasRecord, IsCodex, Rebuilt
  <2>5. ActiveIsWatched'
    BY <2>1 DEF ActiveIsWatched, IsActive, Rebuilt
  <2> QED
    BY <2>1, <2>2, <2>3, <2>4, <2>5 DEF CodexInv
<1>11. ASSUME NEW j \in Jobs, NEW o \in Ops \ CodexOps, PlainStart(j, o), UNCHANGED codexVars
       PROVE  CodexInv'
  <2>1. IInv' /\ Kept({j}) /\ Started(o, j) /\ call[j] = "idle"
    BY <1>0, <1>11, StartKeeps DEF PlainStart
  <2>2. CodexTypeOK'
    BY <1>0, <1>a, <1>11, <2>1 DEF CodexTypeOK, codexVars
  <2>3. RecordedInv'
    BY <1>0, <1>11, <2>1 DEF RecordedInv, Kept, codexVars
  <2>4. FileHasRecord' /\ JobHasRecord'
    BY <1>0, <1>11, <2>1 DEF FileHasRecord, JobHasRecord, IsCodex, Kept, Started, codexVars
  <2>5. ActiveIsWatched'
    BY <1>0, <1>11, <2>1 DEF ActiveIsWatched, IsCodex, IsActive, Kept, Started, codexVars
  <2> QED
    BY <2>1, <2>2, <2>3, <2>4, <2>5 DEF CodexInv
<1>12. ASSUME NEW j \in Jobs,
              \/ Cancel(j) \/ CloseCancel(j) \/ TaskStep(j) \/ ProcessExit(j)
              \/ Close \/ Shutdown \/ ShutdownDone \/ UNCHANGED vars,
              UNCHANGED codexVars
       PROVE  CodexInv'
  <2>1. IInv' /\ Kept({})
    BY <1>0, <1>12, CancelCall, CloseCancelKeeps, TaskKeeps, CloseCalls, RegistryRests
  <2>2. UNCHANGED <<recs, tracked, call, deadline>>
    BY <1>12 DEF codexVars
  <2>3. CodexTypeOK'
    BY <1>0, <1>a, <2>1, <2>2 DEF CodexTypeOK
  <2> QED
    BY <2>1, <2>2, <2>3, RegistryStep DEF CodexInv
<1>13. CASE Jobs = {}
  <2>1. IInv'
    <3>1. [Next]_vars
      BY <1>13 DEF CodexNext, JobStep, CodexCrash, CodexRecover, Next, allVars
    <3> QED
      BY <1>0, <3>1, NextIInv
  <2>2. CodexTypeOK'
    BY <1>0, <1>13, <1>a, <2>1 DEF CodexTypeOK, CodexNext, CodexCrash, CodexRecover, Loaded,
       codexVars, allVars
  <2> QED
    BY <1>13, <2>1, <2>2 DEF CodexInv, RecordedInv, FileHasRecord, JobHasRecord, ActiveIsWatched
<1>14. CASE Jobs # {}
  BY <1>1, <1>3, <1>4, <1>5, <1>6, <1>7, <1>8, <1>9, <1>10, <1>11, <1>12, <1>14
  DEF CodexNext, JobStep, allVars
<1> QED
  BY <1>13, <1>14

(* The Codex adapter and the registry agree about every Codex job          *)
(* (CodexAdapter.start, arm, __init__).                                    *)
THEOREM AdapterAndRegistryAgree == CodexSpec => []AdapterKnowsJobs
<1>1. CodexInv => AdapterKnowsJobs
  BY DEF CodexInv, AdapterKnowsJobs
<1> QED
  BY <1>1, InitCodexInv, NextCodexInv, PTL DEF CodexSpec

(* Whatever the adapter does to the registry is one of its operations.     *)
LEMMA CodexSteps == [CodexNext]_allVars => [Next]_vars
<1> SUFFICES ASSUME [CodexNext]_allVars PROVE [Next]_vars
  OBVIOUS
<1>1. ASSUME NEW j \in Jobs,
             Record(j) \/ Refused(j) \/ Arm(j) \/ WatchRead(j) \/ WatchCancel(j)
      PROVE  [Next]_vars
  BY <1>1 DEF Record, Refused, Arm, WatchRead, WatchCancel, Next
<1>2. ASSUME NEW j \in Jobs, NEW o \in CodexOps, Replay(j, o) \/ Submit(j, o)
      PROVE  [Next]_vars
  BY <1>2, CodexAssumption DEF Replay, Submit, Next
<1>3. CASE CodexCrash \/ CodexRecover
  BY <1>3 DEF CodexCrash, CodexRecover, Next
<1>4. CASE JobStep
  BY <1>4 DEF JobStep, PlainStart, TaskStep, Next
<1>5. CASE UNCHANGED allVars
  BY <1>5 DEF allVars
<1> QED
  BY <1>1, <1>2, <1>3, <1>4, <1>5 DEF CodexNext

(* The Codex adapter over the registry implements the registry: no order   *)
(* of starts, deadlines and crashes makes it do what its own operations    *)
(* could not (CodexAdapter.start, arm, _watch, __init__).                  *)
THEOREM RegistryImplemented == CodexSpec => Spec
<1>1. CodexInit => Init
  BY DEF CodexInit
<1> QED
  BY <1>1, CodexSteps, PTL DEF CodexSpec, Spec

(* The registry keeps its own promises under the adapter: every job and    *)
(* process is accounted for and no file moves back (JobRegistry, driven by *)
(* CodexAdapter).                                                          *)
THEOREM CodexJobsAccounted == CodexSpec => []JobsAccounted /\ DurableLifecycle
  BY RegistryImplemented, JobsAreAccounted, FilesMoveForward, PTL

(* Records, tracked jobs and deadline threads have their types across      *)
(* crashes and failing writes (CodexAdapter, JobRegistry).                 *)
THEOREM CodexTypes == CodexSpec => []CodexTypeOK
<1>1. CodexInv => CodexTypeOK
  BY DEF CodexInv
<1> QED
  BY <1>1, InitCodexInv, NextCodexInv, PTL DEF CodexSpec
=============================================================================
