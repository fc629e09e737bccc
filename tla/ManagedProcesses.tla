-------------------------- MODULE ManagedProcesses --------------------------
(***************************************************************************)
(* The processes a Worker starts: ProcessManager, whose threads are the    *)
(* operations of old and new sessions (an operation may outlive its        *)
(* session) and the thread that closes the adapters, and ShellWorker.run   *)
(* with its two drain threads.  A process tree is its root and one         *)
(* descendant, which stands for all of them.                               *)
(***************************************************************************)
EXTENDS Naturals, FiniteSets

CONSTANTS
    Starts,     \* calls of ProcessManager.start
    MaxOutput,  \* max_output_bytes
    MaxChunks   \* bound: chunks the command writes to either stream

ASSUME ProcessAssumption == MaxOutput \in Nat /\ MaxChunks \in Nat

VARIABLES
    at,         \* where each start() is
    managed,    \* lifecycle_managed of its specification
    root,       \* the process it created
    desc,       \* what that process started, and whether the job has it
    job,        \* its WindowsJob
    procHandle, \* its process handle
    owned,      \* _owned
    terminated, \* _OwnedProcess.terminated
    manager,    \* _closed, and where close() is
    toClose     \* what the loop of close() has not come to

managerVars == <<at, managed, root, desc, job, procHandle, owned, terminated,
                 manager, toClose>>

VARIABLES
    shell,      \* where ShellWorker.run is
    shellRoot,  \* the shell
    shellDesc,  \* its descendants
    shellJob,   \* what _assign_job returned
    timedOut,
    drain,      \* per stream: where its thread is
    unread,     \* per stream: bytes in the pipe, not read yet
    chunks,     \* per stream: chunks written so far
    total,      \* per stream: total_bytes
    taking,     \* per stream: the chunk between total_bytes and take()
    kept,       \* per stream: bytes in _chunks
    remaining,  \* the shared _OutputBudget
    text,       \* per stream: UTF-8 bytes in the result
    lost,       \* something that was read is not in the result
    joined,     \* both drain threads had ended when the result was made
    utf8Left,   \* the second _OutputBudget, for the text
    truncated

treeVars == <<shellRoot, shellDesc, shellJob, timedOut>>
drainVars == <<drain, unread, chunks, total, taking, kept, remaining>>
resultVars == <<text, lost, joined, utf8Left, truncated>>
shellVars == <<shell, treeVars, drainVars, resultVars>>

processVars == <<managerVars, shellVars>>

Streams == {"stdout", "stderr"}
Life == {"none", "suspended", "running", "dead"}

ProcessTypeOK ==
    /\ at \in [Starts -> {"idle", "checked", "created", "assigned", "resumed",
                          "owned", "failed"}]
    /\ managed \in [Starts -> BOOLEAN]
    /\ root \in [Starts -> Life]
    /\ desc \in [Starts -> {"none", "in_job", "outside", "dead"}]
    /\ job \in [Starts -> {"none", "open", "cancelled", "closed"}]
    /\ procHandle \in [Starts -> {"none", "open", "closed"}]
    /\ owned \subseteq Starts /\ terminated \subseteq Starts
    /\ toClose \subseteq Starts
    /\ manager \in {"open", "closing", "closed", "broken", "collected"}
    /\ shell \in {"idle", "launched", "waiting", "killing", "closing", "joining",
                  "stdout", "stderr", "done", "failed"}
    /\ shellRoot \in Life
    /\ shellDesc \in {"none", "in_job", "outside", "dead"}
    /\ shellJob \in {"none", "open", "unavailable", "closed"}
    /\ timedOut \in BOOLEAN /\ truncated \in BOOLEAN /\ lost \in BOOLEAN
    /\ joined \in BOOLEAN /\ utf8Left \in 0..MaxOutput
    /\ drain \in [Streams -> {"idle", "reading", "ended"}]
    /\ unread \in [Streams -> Nat] /\ chunks \in [Streams -> 0..MaxChunks]
    /\ total \in [Streams -> Nat] /\ taking \in [Streams -> Nat]
    /\ kept \in [Streams -> Nat] /\ text \in [Streams -> Nat]
    /\ remaining \in 0..MaxOutput

ManagerInit ==
    /\ at = [r \in Starts |-> "idle"]
    /\ managed \in [Starts -> BOOLEAN]
    /\ root = [r \in Starts |-> "none"] /\ desc = [r \in Starts |-> "none"]
    /\ job = [r \in Starts |-> "none"] /\ procHandle = [r \in Starts |-> "none"]
    /\ owned = {} /\ terminated = {} /\ manager = "open" /\ toClose = {}

ShellInit ==
    /\ shell = "idle" /\ shellRoot = "none" /\ shellDesc = "none"
    /\ shellJob = "none" /\ timedOut = FALSE
    /\ drain = [s \in Streams |-> "idle"]
    /\ unread = [s \in Streams |-> 0] /\ chunks = [s \in Streams |-> 0]
    /\ total = [s \in Streams |-> 0] /\ taking = [s \in Streams |-> 0]
    /\ kept = [s \in Streams |-> 0] /\ remaining = MaxOutput
    /\ text = [s \in Streams |-> 0] /\ lost = FALSE /\ joined = FALSE
    /\ utf8Left = MaxOutput /\ truncated = FALSE

ProcessInit == ManagerInit /\ ShellInit
-----------------------------------------------------------------------------
(* start(): a closed manager refuses, and so does an executable that       *)
(* which() does not find.                                                  *)
CheckStart(r) ==
    /\ at[r] = "idle"
    /\ \/ /\ manager \in {"open", "closing", "broken"}
          /\ at' = [at EXCEPT ![r] = "checked"]
       \/ at' = [at EXCEPT ![r] = "failed"]
    /\ UNCHANGED <<managed, root, desc, job, procHandle, owned, terminated, manager,
                   toClose, shellVars>>

(* Mutant: the process is created running.                                 *)
CreateRunning(r) ==
    /\ at[r] = "checked"
    /\ at' = [at EXCEPT ![r] = "created"]
    /\ root' = [root EXCEPT ![r] = "running"]
    /\ procHandle' = [procHandle EXCEPT ![r] = "open"]
    /\ UNCHANGED <<managed, desc, job, owned, terminated, manager, toClose,
                   shellVars>>

(* CreateProcess with CREATE_SUSPENDED.                                    *)
Create(r) ==
    /\ at[r] = "checked"
    /\ at' = [at EXCEPT ![r] = "created"]
    /\ root' = [root EXCEPT ![r] = "suspended"]
    /\ procHandle' = [procHandle EXCEPT ![r] = "open"]
    /\ UNCHANGED <<managed, desc, job, owned, terminated, manager, toClose,
                   shellVars>>

Assign(r) ==
    /\ at[r] = "created"
    /\ at' = [at EXCEPT ![r] = "assigned"]
    /\ job' = [job EXCEPT ![r] = IF managed[r] THEN "open" ELSE "none"]
    /\ UNCHANGED <<managed, root, desc, procHandle, owned, terminated, manager,
                   toClose, shellVars>>

Resume(r) ==
    /\ at[r] = "assigned"
    /\ at' = [at EXCEPT ![r] = "resumed"]
    /\ root' = [root EXCEPT ![r] = IF @ = "suspended" THEN "running" ELSE @]
    /\ UNCHANGED <<managed, desc, job, procHandle, owned, terminated, manager,
                   toClose, shellVars>>

(* Job, assignment or resumption fails: terminate, wait, close everything. *)
StartFails(r) ==
    /\ at[r] \in {"created", "assigned"}
    /\ at' = [at EXCEPT ![r] = "failed"]
    /\ root' = [root EXCEPT ![r] = "dead"]
    /\ job' = [job EXCEPT ![r] = IF @ = "open" THEN "closed" ELSE @]
    /\ procHandle' = [procHandle EXCEPT ![r] = "closed"]
    /\ UNCHANGED <<managed, desc, owned, terminated, manager, toClose, shellVars>>

RegisterProcess(r) ==
    /\ at[r] = "resumed"
    /\ at' = [at EXCEPT ![r] = "owned"]
    /\ owned' = owned \cup {r}
    /\ UNCHANGED <<managed, root, desc, job, procHandle, terminated, manager,
                   toClose, shellVars>>

(* The program itself: a child of a process in a job is in the job.        *)
Spawn(r) ==
    /\ root[r] = "running" /\ desc[r] = "none"
    /\ desc' = [desc EXCEPT ![r] = IF job[r] = "open" THEN "in_job" ELSE "outside"]
    /\ UNCHANGED <<at, managed, root, job, procHandle, owned, terminated, manager,
                   toClose, shellVars>>

RootExits(r) ==
    /\ root[r] = "running"
    /\ root' = [root EXCEPT ![r] = "dead"]
    /\ UNCHANGED <<at, managed, desc, job, procHandle, owned, terminated, manager,
                   toClose, shellVars>>

(* TerminateJobObject, TerminateProcess, or the last handle of the job.    *)
JobDies(r) ==
    /\ root' = [root EXCEPT ![r] = IF @ = "none" THEN @ ELSE "dead"]
    /\ desc' = [desc EXCEPT ![r] = IF @ = "in_job" THEN "dead" ELSE @]

RootDies(r) ==
    /\ root' = [root EXCEPT ![r] = "dead"]
    /\ UNCHANGED desc

(* terminate(): if the root has exited by itself its job is left alone.    *)
Terminate(r) ==
    /\ r \in owned /\ procHandle[r] = "open"
    /\ terminated' = terminated \cup {r}
    /\ \/ /\ r \in terminated \/ root[r] = "dead"
          /\ UNCHANGED <<root, desc, job>>
       \/ /\ r \notin terminated /\ root[r] # "dead"
          /\ \/ /\ job[r] = "open"
                /\ JobDies(r)
                /\ job' = [job EXCEPT ![r] = "cancelled"]
             \/ /\ job[r] # "open"
                /\ RootDies(r)
                /\ UNCHANGED job
    /\ UNCHANGED <<at, managed, procHandle, owned, manager, toClose, shellVars>>

(* close(): iterates over _owned ...                                       *)
CloseBegin ==
    /\ manager = "open"
    /\ manager' = "closing"
    /\ toClose' = owned
    /\ UNCHANGED <<at, managed, root, desc, job, procHandle, owned, terminated,
                   shellVars>>

(* ... kills what is not known to be dead, and closes job and handle.      *)
CloseOne(r) ==
    /\ manager = "closing" /\ r \in toClose
    /\ toClose' = toClose \ {r}
    /\ IF job[r] # "none" THEN JobDies(r)
       ELSE IF r \notin terminated /\ root[r] # "dead" THEN RootDies(r)
       ELSE UNCHANGED <<root, desc>>
    /\ job' = [job EXCEPT ![r] = IF @ = "none" THEN @ ELSE "closed"]
    /\ procHandle' = [procHandle EXCEPT ![r] = "closed"]
    /\ UNCHANGED <<at, managed, owned, terminated, manager, shellVars>>

(* A wait fails, or a start() of an old session has added to the           *)
(* dictionary: the exception leaves the rest as it is.                     *)
CloseBreaks ==
    /\ manager = "closing"
    /\ manager' = "broken"
    /\ UNCHANGED <<at, managed, root, desc, job, procHandle, owned, terminated,
                   toClose, shellVars>>

CloseEnd ==
    /\ manager = "closing" /\ toClose = {}
    /\ manager' = "closed"
    /\ UNCHANGED <<at, managed, root, desc, job, procHandle, owned, terminated,
                   toClose, shellVars>>

(* The runtime is dropped, or the Worker ends: the last references go, and *)
(* with them the handles of what was registered after, or not reached by,  *)
(* close(); a thread still in start() keeps the manager alive.             *)
Collect ==
    /\ manager \in {"closed", "broken"}
    /\ \A r \in Starts : at[r] \in {"idle", "owned", "failed"}
    /\ manager' = "collected"
    /\ LET open == {r \in Starts : job[r] \in {"open", "cancelled"}}
       IN  /\ root' = [r \in Starts |-> IF r \in open THEN "dead" ELSE root[r]]
           /\ desc' = [r \in Starts |-> IF r \in open /\ desc[r] = "in_job"
                                        THEN "dead" ELSE desc[r]]
           /\ job' = [r \in Starts |-> IF r \in open THEN "closed" ELSE job[r]]
    /\ procHandle' = [r \in Starts |-> IF procHandle[r] = "open" THEN "closed" ELSE procHandle[r]]
    /\ UNCHANGED <<at, managed, owned, terminated, toClose, shellVars>>

ManagerNext ==
    \/ \E r \in Starts :
         \/ CheckStart(r) \/ Create(r) \/ Assign(r) \/ Resume(r)
         \/ StartFails(r) \/ RegisterProcess(r) \/ Spawn(r) \/ RootExits(r)
         \/ Terminate(r) \/ CloseOne(r)
    \/ CloseBegin \/ CloseBreaks \/ CloseEnd \/ Collect
-----------------------------------------------------------------------------
(* ShellWorker.run: over the time limit, or a launcher that is not there.  *)
RefuseShell ==
    /\ shell = "idle"
    /\ shell' = "failed"
    /\ UNCHANGED <<managerVars, treeVars, drainVars, resultVars>>

(* Popen: the shell runs at once.                                          *)
LaunchShell ==
    /\ shell = "idle"
    /\ shell' = "launched"
    /\ shellRoot' = "running"
    /\ UNCHANGED <<managerVars, shellDesc, shellJob, timedOut, drainVars, resultVars>>

(* The command.  What it starts before the job has it is not in the job.   *)
ShellSpawn ==
    /\ shellRoot = "running" /\ shellDesc = "none"
    /\ shellDesc' = IF shellJob = "open" THEN "in_job" ELSE "outside"
    /\ UNCHANGED <<managerVars, shell, shellRoot, shellJob, timedOut, drainVars,
                   resultVars>>

ShellExits ==
    /\ shellRoot = "running"
    /\ shellRoot' = "dead"
    /\ UNCHANGED <<managerVars, shell, shellDesc, shellJob, timedOut, drainVars,
                   resultVars>>

Writer == shellRoot = "running" \/ shellDesc \in {"in_job", "outside"}

WriteChunk(s) ==
    /\ Writer /\ chunks[s] < MaxChunks
    /\ chunks' = [chunks EXCEPT ![s] = @ + 1]
    /\ \E n \in 1..2 : unread' = [unread EXCEPT ![s] = @ + n]
    /\ UNCHANGED <<managerVars, shell, treeVars, drain, total, taking, kept,
                   remaining, resultVars>>

(* _assign_job, which may fail, and _start_drain twice.                    *)
AssignShellJob ==
    /\ shell = "launched"
    /\ shell' = "waiting"
    /\ shellJob' \in {"open", "unavailable"}
    /\ drain' = [s \in Streams |-> "reading"]
    /\ UNCHANGED <<managerVars, shellRoot, shellDesc, timedOut, unread, chunks,
                   total, taking, kept, remaining, resultVars>>

(* _PipeCapture.drain: count a chunk, ...                                  *)
ReadChunk(s) ==
    /\ drain[s] = "reading" /\ taking[s] = 0 /\ unread[s] > 0
    /\ unread' = [unread EXCEPT ![s] = 0]
    /\ total' = [total EXCEPT ![s] = @ + unread[s]]
    /\ taking' = [taking EXCEPT ![s] = unread[s]]
    /\ UNCHANGED <<managerVars, shell, treeVars, drain, chunks, kept, remaining,
                   resultVars>>

Least(a, b) == IF a < b THEN a ELSE b

(* ... and keep what the budget of both streams has left.                  *)
TakeChunk(s) ==
    /\ taking[s] > 0
    /\ LET k == Least(taking[s], remaining)
       IN  /\ kept' = [kept EXCEPT ![s] = @ + k]
           /\ remaining' = remaining - k
           /\ lost' = (lost \/ k < taking[s])
    /\ taking' = [taking EXCEPT ![s] = 0]
    /\ UNCHANGED <<managerVars, shell, treeVars, drain, unread, chunks, total,
                   text, joined, utf8Left, truncated>>

DrainEnds(s) ==
    /\ drain[s] = "reading" /\ taking[s] = 0 /\ unread[s] = 0
    /\ ~Writer
    /\ drain' = [drain EXCEPT ![s] = "ended"]
    /\ UNCHANGED <<managerVars, shell, treeVars, unread, chunks, total, taking,
                   kept, remaining, resultVars>>

WaitReturns ==
    /\ shell = "waiting" /\ shellRoot = "dead"
    /\ shell' = "closing"
    /\ UNCHANGED <<managerVars, treeVars, drainVars, resultVars>>

ShellTimeout ==
    /\ shell = "waiting"
    /\ timedOut' = TRUE
    /\ shell' = "killing"
    /\ UNCHANGED <<managerVars, shellRoot, shellDesc, shellJob, drainVars,
                   resultVars>>

(* _terminate_tree: the job, or without one the descendants that psutil    *)
(* found and could kill; then a wait of 5 s.                               *)
KillTree ==
    /\ shell = "killing"
    /\ shell' = "closing"
    /\ shellRoot' = "dead"
    /\ shellDesc' \in IF shellDesc = "in_job" THEN {"dead"}
                      ELSE IF shellJob = "unavailable" /\ shellDesc = "outside"
                      THEN {"dead", "outside"}
                      ELSE {shellDesc}
    /\ UNCHANGED <<managerVars, shellJob, timedOut, drainVars, resultVars>>

(* The finally: a job that closes takes its processes with it; after a     *)
(* time-out the wait of 5 s may have raised.                               *)
CloseShellJob ==
    /\ shell = "closing"
    /\ shellJob' = IF shellJob = "open" THEN "closed" ELSE shellJob
    /\ shellDesc' = IF shellDesc = "in_job" THEN "dead" ELSE shellDesc
    /\ \/ shell' = "joining"
       \/ timedOut /\ shell' = "failed"
    /\ UNCHANGED <<managerVars, shellRoot, timedOut, drainVars, resultVars>>

(* join(5), twice: a writer outside the job keeps a drain from ending.     *)
JoinDrains ==
    /\ shell = "joining"
    /\ joined' = (\A s \in Streams : drain[s] = "ended")
    /\ joined' \/ Writer
    /\ shell' = "stdout"
    /\ UNCHANGED <<managerVars, treeVars, drainVars, text, lost, utf8Left, truncated>>

(* The UTF-8 length of k bytes of output: UTF-16 text may get longer.      *)
Encoded(k) == 0..((3 * k) \div 2)

(* Mutant: no second budget, so that the text may outgrow the first.       *)
RenderUnbounded(s) ==
    /\ shell = s
    /\ text' \in {[text EXCEPT ![s] = n] : n \in Encoded(kept[s])}
    /\ shell' = IF s = "stdout" THEN "stderr" ELSE "done"
    /\ truncated' = (total["stdout"] + total["stderr"] > MaxOutput)
    /\ UNCHANGED <<managerVars, treeVars, drainVars, lost, joined, utf8Left>>

(* _PipeCapture.text: decode, encode, take from the second budget; a       *)
(* character that is cut is dropped.  The result follows the second call.  *)
Render(s) ==
    /\ shell = s
    /\ \E n \in Encoded(kept[s]) :
         LET k == Least(n, utf8Left)
         IN  /\ utf8Left' = utf8Left - k
             /\ lost' = (lost \/ k < n)
             /\ \E cut \in {0, 1} :
                  /\ cut > 0 => k < n /\ k > 0
                  /\ text' = [text EXCEPT ![s] = k - cut]
             /\ truncated' = (\/ truncated \/ k < n
                              \/ /\ s = "stderr"
                                 /\ total["stdout"] + total["stderr"] > MaxOutput)
    /\ shell' = IF s = "stdout" THEN "stderr" ELSE "done"
    /\ UNCHANGED <<managerVars, treeVars, drainVars, joined>>

ShellNext ==
    \/ RefuseShell \/ LaunchShell \/ AssignShellJob
    \/ ShellSpawn \/ ShellExits
    \/ \E s \in Streams :
         WriteChunk(s) \/ ReadChunk(s) \/ TakeChunk(s) \/ DrainEnds(s) \/ Render(s)
    \/ WaitReturns \/ ShellTimeout \/ KillTree \/ CloseShellJob \/ JoinDrains
-----------------------------------------------------------------------------
(* Nothing of a managed tree outlives its handle or its manager, whenever  *)
(* the root exits, close() breaks off, or a start() overlaps close()       *)
(* (CREATE_SUSPENDED until the job has it; kill on close).                 *)
ManagedTreesDie ==
    \A r \in Starts :
        managed[r] /\ (procHandle[r] = "closed" \/ manager = "collected") =>
            root[r] \in {"none", "dead"} /\ desc[r] \in {"none", "dead"}

(* When a shell command has been answered its shell is gone, and with it   *)
(* all that was started after the job had it, also without a time-out      *)
(* (run's finally).                                                        *)
ShellLeavesNoTree ==
    shell = "done" => shellRoot = "dead" /\ shellDesc # "in_job"

(* The text of a result never exceeds the limit, and if the drains ended   *)
(* truncated says exactly whether anything that was read is missing        *)
(* (_OutputBudget, _PipeCapture, run).                                     *)
ShellOutputHonest ==
    shell = "done" =>
        /\ text["stdout"] + text["stderr"] <= MaxOutput
        /\ joined => (truncated <=> lost)
=============================================================================
