---------------------------- MODULE CodexSession ---------------------------
(***************************************************************************)
(* Codex runs: CodexAdapter over the durable JobRegistry.  A start draws a *)
(* job id, stores the Git preflight under it (CodexRecordStore), submits   *)
(* the job and arms a deadline thread (ThreadDeadlineScheduler).  A start  *)
(* is named after the job id it draws; the adapter's lock is held from the *)
(* record to the entry in _tracked, but a crash can fall anywhere.         *)
(*                                                                         *)
(* The clock stands still here: retention is JobRegistry's own subject.    *)
(* postflight only reads.                                                  *)
(***************************************************************************)
EXTENDS JobRegistry

CONSTANT CodexOps   \* operation ids of codex_run; the others are job_start's

ASSUME CodexAssumption == CodexOps \subseteq Ops

VARIABLES
    recs,       \* preflight record files
    tracked,    \* CodexAdapter._tracked
    call,       \* [Jobs -> progress of the start that drew this job id]
    deadline    \* [Jobs -> the deadline thread of the job]

codexVars == <<recs, tracked, call, deadline>>
allVars == <<vars, codexVars>>

CodexTypeOK ==
    /\ TypeOK
    /\ recs \subseteq Jobs
    /\ tracked \subseteq Jobs
    /\ call \in [Jobs -> {"idle", "recorded", "submitted", "done"}]
    /\ deadline \in [Jobs -> {"none", "armed", "due", "ended"}]

CodexInit ==
    /\ Init
    /\ recs = {}
    /\ tracked = {}
    /\ call = [j \in Jobs |-> "idle"]
    /\ deadline = [j \in Jobs |-> "none"]

Goto(j, s) == call' = [call EXCEPT ![j] = s]
-----------------------------------------------------------------------------
(* status: the CLI can be called if its version, its help and the help of  *)
(* exec can be read (and the help lists exec).                             *)
Callable(probe) == \A p \in {"version", "help", "exec_help"} : p \in probe

(* capture_git_snapshot: no repository, its state, or a failed probe.      *)
GitSnapshots == {"no_repository", "clean", "dirty", "probe_failed"}

(* start, before anything is written: a dirty work tree needs the policy.  *)
Startable(probe, tree, policy) ==
    /\ Callable(probe)
    /\ tree # "probe_failed"
    /\ tree = "dirty" => policy = "preserve"

(* CodexRecordStore.write, delete and load.                                *)
Written(j) == recs \cup {j}
Deleted(j) == recs \ {j}
Loaded == recs

(* The preflight record is written under the adapter's lock.               *)
Record(j) ==
    /\ \E probe \in SUBSET {"version", "help", "exec_help"}, tree \in GitSnapshots,
          policy \in {"preserve", None} : Startable(probe, tree, policy)
    /\ reg # "down"
    /\ call[j] = "idle"
    /\ run[j] = "none"
    /\ \A i \in Jobs : call[i] # "recorded"
    /\ recs' = Written(j)
    /\ Goto(j, "recorded")
    /\ UNCHANGED <<vars, tracked, deadline>>

(* Mutant: a replay drops the record of the job it found.                  *)
ReplayDrops(j, o) ==
    /\ call[j] = "recorded"
    /\ reg = "open" /\ Locked
    /\ opjobs[o] # None
    /\ recs' = recs \ {opjobs[o]}
    /\ Goto(j, "done")
    /\ UNCHANGED <<vars, tracked, deadline>>

(* registry.start finds the job of the operation: the record just written  *)
(* goes, and the job's own record is read, or is missing and the call      *)
(* raises.                                                                 *)
Replay(j, o) ==
    /\ call[j] = "recorded"
    /\ reg = "open" /\ Locked
    /\ opjobs[o] # None
    /\ recs' = Deleted(j)
    /\ tracked' = tracked \cup ({opjobs[o]} \cap recs)
    /\ Goto(j, "done")
    /\ UNCHANGED <<vars, deadline>>

(* registry.start raises: closed, or another request under the same id.    *)
Refused(j) ==
    /\ call[j] = "recorded"
    /\ Locked
    /\ reg # "open" \/ \E o \in CodexOps : opjobs[o] # None
    /\ recs' = Deleted(j)
    /\ Goto(j, "done")
    /\ UNCHANGED <<vars, tracked, deadline>>

(* registry.start takes the job.  If its snapshot cannot be written it has *)
(* the job in memory and raises, and the record is deleted.                *)
Submit(j, o) ==
    /\ call[j] = "recorded"
    /\ Start(o, j)
    /\ \/ /\ run'[j] = "queued"
          /\ tracked' = tracked \cup {j}
          /\ Goto(j, "submitted")
          /\ UNCHANGED recs
       \/ /\ run'[j] = "lost"
          /\ recs' = Deleted(j)
          /\ Goto(j, "done")
          /\ UNCHANGED tracked
    /\ UNCHANGED deadline

(* Mutant: no thread is no error.                                          *)
ArmQuietly(j) ==
    /\ call[j] = "submitted"
    /\ \E s \in {"armed", "ended"} : deadline' = [deadline EXCEPT ![j] = s]
    /\ Goto(j, "done")
    /\ UNCHANGED <<vars, recs, tracked>>

(* arm, outside the lock: the thread starts, or no thread can be started   *)
(* and the job is cancelled (nothing happens to one that has ended).       *)
Arm(j) ==
    /\ call[j] = "submitted"
    /\ \/ /\ deadline' = [deadline EXCEPT ![j] = "armed"]
          /\ UNCHANGED vars
       \/ /\ Cancel(j) \/ (Locked /\ mem[j].state \in TERMINAL_JOB_STATES /\ UNCHANGED vars)
          /\ UNCHANGED deadline
    /\ Goto(j, "done")
    /\ UNCHANGED <<recs, tracked>>
-----------------------------------------------------------------------------

(* _watch: the state is read; a finished job ends the thread, an expired   *)
(* deadline is acted on in a second step, and otherwise the thread waits.  *)
WatchRead(j) ==
    /\ deadline[j] = "armed"
    /\ Locked
    /\ deadline' = [deadline EXCEPT ![j] =
                      IF mem[j].state \in TERMINAL_JOB_STATES THEN "ended" ELSE "due"]
    /\ UNCHANGED <<vars, recs, tracked, call>>

WatchCancel(j) ==
    /\ deadline[j] = "due"
    /\ deadline' = [deadline EXCEPT ![j] = "ended"]
    /\ Cancel(j) \/ (Locked /\ mem[j].state \in TERMINAL_JOB_STATES /\ UNCHANGED vars)
    /\ UNCHANGED <<recs, tracked, call>>

(* The Worker dies, with the adapter and its threads.                      *)
CodexCrash ==
    /\ Crash
    /\ tracked' = {}
    /\ call' = [j \in Jobs |-> IF call[j] = "idle" THEN "idle" ELSE "done"]
    /\ deadline' = [j \in Jobs |-> "none"]
    /\ UNCHANGED recs

(* __init__: after the registry has recovered, every record is loaded.     *)
CodexRecover ==
    /\ Recover
    /\ tracked' = Loaded
    /\ UNCHANGED <<recs, call, deadline>>

PlainStart(j, o) == call[j] = "idle" /\ Start(o, j)

JobStep ==
    \/ \E j \in Jobs, o \in Ops \ CodexOps : PlainStart(j, o)
    \/ \E j \in Jobs : Cancel(j) \/ CloseCancel(j) \/ TaskStep(j) \/ ProcessExit(j)
    \/ Close \/ Shutdown \/ ShutdownDone

CodexNext ==
    \/ \E j \in Jobs : Record(j) \/ Refused(j) \/ Arm(j) \/ WatchRead(j) \/ WatchCancel(j)
    \/ \E j \in Jobs, o \in CodexOps : Replay(j, o) \/ Submit(j, o)
    \/ CodexCrash
    \/ CodexRecover
    \/ JobStep /\ UNCHANGED codexVars

(* As in JobRegistry; the thread of a start runs on to its end, and the    *)
(* deadline thread polls (its waits are bounded by the time that is left). *)
CodexSpec ==
    /\ CodexInit /\ [][CodexNext]_allVars
    /\ WF_allVars(CloseStep /\ UNCHANGED codexVars)
    /\ \A j \in Jobs :
         /\ WF_allVars(TaskStep(j) /\ UNCHANGED codexVars)
         /\ WF_allVars(Arm(j))
         /\ WF_allVars(WatchRead(j))
         /\ WF_allVars(WatchCancel(j))
-----------------------------------------------------------------------------
IsCodex(j) == mem[j] # None /\ mem[j].op \in CodexOps
IsActive(j) == mem[j] # None /\ mem[j].state \in Active

(* A Codex job the registry knows has its preflight record, and the        *)
(* adapter knows it: wherever a crash falls, a repeated start and          *)
(* postflight find what they read.  (A start whose snapshot could not be   *)
(* written is exempt: it leaves a job without a record.)                   *)
JobHasRecord ==
    \A j \in Jobs \ broken : IsCodex(j) => j \in recs /\ j \in tracked

(* A Codex job ends although its program may run for ever, be it by its    *)
(* deadline, by the failure to arm one, or with the Worker.  (Exempt: jobs *)
(* one of whose steps was cut short by an exception nobody handles.)       *)
CodexJobEnds ==
    \A j \in Jobs :
        IsCodex(j) /\ IsActive(j) ~> ~IsActive(j) \/ j \in broken

(* The deadline is not taken from a job by a crash: an active job has its  *)
(* thread, or its start has yet to arm it, or the cancel has been tried.   *)
ActiveIsWatched ==
    \A j \in Jobs : IsCodex(j) /\ IsActive(j) =>
        \/ call[j] = "submitted"
        \/ deadline[j] \in {"armed", "due"}
        \/ j \in broken

(* The adapter and the registry agree about every Codex job, although they *)
(* keep it in three places that a crash can fall between: its record can   *)
(* be found, and its deadline is watched (CodexAdapter.start, arm).        *)
AdapterKnowsJobs == JobHasRecord /\ ActiveIsWatched
=============================================================================
