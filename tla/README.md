# Hermes Windows Bridge: TLA+ models

Hermes Windows Bridge lets an MCP client work on a Windows machine. A **Gateway**
(LocalService) serves MCP tools; a **Worker** in the session of the user executes
them; a **privileged helper** (LocalSystem) reboots and shuts down. They talk over
named pipes; a .NET host runs Gateway and helper as services, a watchdog keeps the
Worker alive. This directory models the parts of that system whose correctness
depends on the order of events, checks them with TLC and proves the main
properties with TLAPS.

`PROJECT.json` lists every component with its sources and status, the hazards with
the line where each bites, the runs, the mutants, and for every definition the lines
it models. Paths below are relative to `src/src/hermes_windows_bridge/`.

## Inventory

| Component | State | Operations | Why it is hard | Module |
|---|---|---|---|---|
| Dispatcher, idempotency store (`gateway/dispatcher.py`, `idempotency.py`) | one coroutine and one thread per call, cache and its lock | `dispatch`, `_send`, `execute` | timeouts and cancels race a thread that cannot be stopped; ids are reused by retries | `GatewayDispatch` |
| Gateway end of the pipe (`gateway/worker_runtime.py`, `worker/ipc_client.py`) | active id, response slot, registry, handles | exchange, cancel, deliver, close, watcher loop | late frames; close, disconnect and errors at any step | `GatewayDispatch`, `WorkerWatcher`, `PipeClient` |
| Worker end (`worker/pipe_server.py`, `operations.py`) | active request, handler table, cancellation marks | `_start_request`, `_exchange`, `cancel` | threads outlive their session; cancel races registration | `WorkerService` |
| Transport (`ipc/*.py`) | bytes in flight | framed reads and writes with time-outs | partial frames, several writers, a handle closed under a reader | `PipeFraming`, `MessageChannel`, `ExchangeChannel` |
| Durable jobs (`gateway/jobs.py`, `job_store.py`, `job_recovery.py`, `worker/job_process.py`) | catalogue, index, files, tasks, processes | `start`, `cancel`, `close`, `_run`, recovery | crash between two files, cancel during process creation, failing writes | `JobRegistry` |
| Codex sessions (`worker/codex*.py`) | records, deadline threads, jobs | start, replay, deadline | three places a crash can fall between; deadline racing completion | `CodexSession` |
| Approvals (`gateway/policy.py`, `approval_*.py`, `tools/system.py`) | records | `request`, `decide`, `consume` | the clock moves between decision and use; clients may name any approval | `ApprovalGate` |
| Helper (`gateway/helper_runtime.py`, `privileged/*`) | registry, session | exchange, reboot, shutdown | an action whose answer is lost, restarts, late requests | `HelperExchange`, `PowerControl` |
| Local approval (`worker/local_approval*.py`) | dialog, pending requests | resolve, cancel, close | click, cancel and expiry at the same moment | `LocalApproval` |
| Emergency stop (`worker/desktop_lock.py`, `emergency_hotkey.py`, `runtime_lifecycle.py`) | gate, hot key thread, marker file | activate, mutate, start, close | stop racing an input in progress; failing writes; threads that outlive a join | `EmergencyStop` |
| Service host (`service-host/`, `service_child.py`) | SCM state, child, three pipes | start, READY, STOP, drain | stop before READY, a child that hangs, a full stderr pipe | `ServiceHost` |
| Worker launch (`worker/main.py`, `runtime.py`, `runtime_binding.py`) | binding, settings, adapters per generation | verify, build, run, close, back off | files read twice; failures in the middle of building | `WorkerLaunch` |
| Processes and shell (`worker/processes.py`, `shell.py`) | process table, Job Objects, output budgets | start, kill, close, run | close overlapping start, descendants, drains that do not end | `ManagedProcesses` |
| Files (`worker/filesystem.py`, `path_safety.py`) | the file system | read, write, copy, move, delete | another program changes it between check and use; the Worker dies | `FileAccess` |
| Desktop input (`worker/desktop_input.py`, `win32_input.py`, `windows_mcp.py`) | pointer, buttons, last view | one mutation with its repairs | input taken in part, a user who interferes | `DesktopInput` |
| UI automation (`worker/uia.py`, `uia_backend.py`) | queue of the search | find, action | bounded search, controls rebuilt meanwhile | `UiaActions` |
| Browser (`worker/browser.py`, `browser_safety.py`) | tasks, context, profile guard | open, use, read, cancel, close | cancelled tasks that still unwind, secrets | `BrowserSession` |
| Audit (`gateway/audit.py`) | append-only file | record | skipped or failing after the effect | `PowerControl` (which calls leave an event) |
| Installer, service switch, MCP front end, session lock | | | | not modelled, see below |

## The worker exchange

`WorkerExchange` = `GatewayDispatch` + `WorkerService` over `ExchangeChannel`.

* `ExchangeChannel` is the pipe: per instance two queues of frames, lost when the
  reading end closes. Frames carry two fields that are not on the wire (`call`,
  `by`), so that a property can say *which* execution a result comes from.
* `GatewayDispatch` has the coroutine of a call (`Dispatch`, `Timeout`,
  `Present`), its exchange thread (`Lookup`, `Claim`, `Write`, `Take`,
  `EndpointTimeout`, `WaitClosed`, `Store`: one action per section between two
  points where another thread can run), the thread that writes the
  `CancelRequest` (`CancelCheck`, `CancelWrite`) and the watcher (`Deliver`,
  `ReadFail`). A timeout is enabled whenever it is armed.
* `WorkerService` has the session loop and the request threads (`ExecReject` ...
  `ExecRelease`). A thread survives its session, as the join is bounded by 1 s.

Errors are kept as far as they change control: an `OSError` on a write closes the
connection and a pywin32 error escapes; a handler may fail, be cancelled, return,
or raise something that is not caught and leave no response.

## Power control and the helper

`PowerControl` composes `ApprovalGate` (an instance), `GatewayDispatch` and
`HelperExchange`: a call asks the user (or names an approval itself), is authorized,
routed and exchanged with a helper session that reads, executes and answers one
message after the other. The helper's queue, session and registration take the place
of the Worker's; a cancel closes the connection. Windows may accept an action whose
answer is then lost (`HelperExecute`).

`ConsentedPower` is the abstract specification: consents are given, and each is
performed at most once. `PowerControl` refines it (`ConsentedPowerSpec`) with
`Consents` as the consents of the user that were consumed and not acted upon. So
neither retries with a reused id, nor abandoned calls whose request is still in the
pipe, nor broken sessions perform an action nobody agreed to, or twice.
`AuditedPower`: the two kinds of exception that skip `_present`, and with it the audit
event, never concern a call whose action was performed.

## Jobs and Codex

Each `with self._lock` section of `JobRegistry` is an action, except the last one
of `_run`, which writes files: `WriteOutput` and `Complete` let a crash fall
between them (`writing` then holds the lock). `disk` and `outputs` survive
`Crash`; `Recover` is `JobRegistry.__init__`, and `RecoverPartly` an `__init__`
that dies after some deletions or some interruptions. With `DiskFaults`, any file
write may raise; `broken` collects the jobs whose step was cut short by an
exception that nobody handles, and properties that exempt them say so. A process
stands for the whole tree in its Job Object.

`CodexSession` extends it: a start draws a job id, stores the preflight record,
submits the job, enters it in `_tracked` and arms a deadline thread; a crash falls
between any two of these. Jobs that are not Codex jobs run beside it.

## Emergency stop

A request thread goes through `DesktopMutationGate.run`: `TryEnter` is one round of
the wait loop, then `Validate`, `Recheck`, and for desktop input a `BoundaryCheck`
before every `SendInput`. The hot key thread is `LocalEmergencyHotkey._run`, with the
marker, `notify_all` and the audit as separate steps, each of the two writes able to
fail, and the `except` clause that activates the stop again. The watchdog thread
starts a runtime, serves, closes it and builds the next one, which has a new gate
and a new hot key thread over the same marker file. Joins are bounded, so `Joined` may
leave a thread behind that still owns the key; Windows registers the key for one
thread only (the one fact taken from the operating system). `late` is the only
variable that is not in the code: it counts input since the marker appeared.

"Immediately" means after the chunk whose check had passed; and a stop whose marker
could not be written ends the serving runtime, but the watchdog's next one accepts
input again.

## The platform layer

Six components below the operations share no variable. `PlatformLayer` puts them in one
module: `part`, chosen in `Init`, says which one a behaviour is about, and the others
rest in one initial state. The state space is the sum of the components'; nothing is
lost, since no step of one can depend on another.

* `PipeFraming`: length prefix and payload as cells, written and read piece by
  piece by writers under `_write_lock` and by the session loop; time-outs inside a
  frame, a closer, a status probe. It refines `MessageChannel`: whole messages, in
  order, until the channel fails, which is what `ExchangeChannel` assumes. Only
  messages still written after `close()` began are promised less: they come after
  all others, at most once, and may be lost. `WholeWrites` says that a `WriteFile`
  that succeeds took the whole buffer, as a byte pipe in blocking mode does.
* `WorkerWatcher`: connect, hello, registration with generations, heartbeat expiry,
  ownership of the pipe, `close()`/`disconnect()` from other threads.
* `PipeClient`: a handle per exchange that the exchange or a cancel closes.
* `ServiceHost`: SCM and .NET host on one side, the Python child with its runtime
  thread on the other; READY, STOP, end-of-file, grace period, Job Object, and a
  stderr pipe of finite size.
* `WorkerLaunch`: binding and settings files that others may change while the ACL
  lets them, adapters opened one by one, failures at each step, generations.
* `ManagedProcesses`: `ProcessManager` with overlapping `start`/`close`, and a shell
  with descendants and two drain threads on a shared budget.

## The worker adapters

`WorkerAdapters` does the same for the adapters, against an environment that
interferes: `FileAccess` (another program edits files and swaps the directory for a
junction unless a handle locks it), `LocalApproval` (user, clock, cancel, close),
`DesktopInput` (both backends, partial `SendInput`, user, lock screen, stop),
`UiaActions` (breadth-first search with the code's limits, rebuilt controls) and
`BrowserSession` (calls, their tasks on the loop, Chromium and its profile guard, a
page whose secrets may change). Windows, Chromium and the user are external.

Redaction (`Redact`) gives a result as the places on the page its letters come from,
with a mark for each secret that was replaced: longer secrets first, among equally
long ones in any order, as the set that the code sorts has none. A letter stands for
a byte and a mark is one letter, so that the cut (`Bound`) can fall anywhere.
`SecretsStay` is about secrets that the session still has when it is asked, and about
pages where two secrets overlap only if one is part of the other: of two that merely
share letters the code replaces the longer and leaves the rest of the shorter.

## Runs

| Run | Instance | Shows |
|---|---|---|
| `worker_exchange` | 2 calls, 2 ids, 2 payloads, 2 connections | `ResultCorrelates`, `OneAtATime`, `NoStaleCancellation`, `RunningCancellable` |
| `worker_liveness` | 2 calls, 1 id, 1 connection, fair | `ThreadsTerminate`, `SessionFreed` |
| `job_registry` | 2 jobs, 2 operations, 1 executor thread, clock 0..2, retention 1, failing writes | `JobsAccounted`, `DurableLifecycle` |
| `codex_session` | a Codex operation and a plain one, 2 jobs, fair | `AdapterKnowsJobs`, `CodexJobEnds`, `CancelledDies`, `CloseEnds` |
| `power_control` | 2 calls, 2 ids, 2 payloads, 2 helper sessions, clock 0..1, window 1, TTL 1 | `OneShot`, `ConsentIsOwn`, `OkMeansPerformed`, `AuditedPower`, refinement of `ConsentedPower` |
| `emergency_stop` | 2 requests, 2 runtimes, 1 press, 1 reset | `OneLateInput`, `QueuedCancelled`, `ServedWithKey` |
| `emergency_liveness` | 2 requests, 1 runtime, 2 presses, 1 reset, fair | `PressHeeded`, `WaitBounded` |
| `platform_layer` | see below | refinement of `MessageChannel`, `HandlesAccounted`, `WatcherStops`, `ServiceStatus`, `StopReported`, `RunsBoundSettings`, `OneGeneration`, `NoTreeLeft`, `ShellOutputHonest` |
| `worker_adapters` | see below | `InsideRoots`, `NothingLost`, `ApprovalIsCurrent`, `InputReported`, `UndisturbedSucceeds`, `UniqueTarget`, `BrowserTurns`, `GuardedBrowser`, `SecretsStay` |
| `late_response`, `terminal_is_final`, `stderr_log` | violations | the findings below |

**Bounds.** Two calls are enough for the races between a call and its successor on the
one lock, the one slot and the one session; two ids give wrong correlation a chance,
two payloads wrong replays, two connections old threads. The clock stands still in
`worker_exchange`; cache entries expire in `power_control`, where the two calls may
also reach the cache in another order than their times. One executor thread for two
jobs makes a task wait; retention 1 with three clock values expires jobs and keeps
others. Two requests at the gate are a holder and a waiter, two runtimes a thread left
behind and its successor. In `platform_layer` four writers are an exchange, a cancel,
another call and an oversized message, with a prefix of two bytes and a limit of
three, so that every read and write can be cut in every place and a part of a frame
can swallow a whole one; three pipes let the watcher reconnect twice; the stderr limit
is two lines over a pipe of one; two attempts of the Worker with one defect each; two
overlapping starts. In `worker_adapters` two file operations overlap and two entries
with threshold three reach the bulk limit exactly; trees have up to four controls with
limits of three and two, so that the search is cut; a desktop of three pixels has
inexact absolute coordinates; three browser calls are one struck, its successor and a
close, on pages where one secret is part of another and the cut falls into a secret.
The proofs below do without these bounds.

**Fairness.** Weak fairness of each exchange thread (its wait has a deadline) and of
each request thread (handlers return or raise); of executor threads, of `close()` and
of deadline threads, but not of the programs that jobs run; of the hot key thread and
of waiters at the gate, but not of the holder; of the watcher, of a thread in
`disconnect()` and of `ServiceMain`, all of whose waits are bounded, but not of the
Worker or the child at the other end. Clients, users and peers may stop for ever.

**Deadlock** is not checked where a finite set of calls, requests or attempts comes to
an end. `job_registry` and `codex_session` check it.

**Types.** Each composition has a `TypeOK`. It is proved for the exchange, for power
control, for jobs and Codex and for the emergency stop (`TypeCorrect`,
`PowerTypesCorrect`, `JobTypes`, `CodexTypes`, `StopTypes`). In the platform layer and
the adapters the parts that a proof needs are in its inductive invariant; the whole
documents the state and can be added to a configuration as an `INVARIANT` (it holds on
every instance).

## Proofs

Eight modules prove, for every value of the constants that the `ASSUME`s of the models
allow, every invariant, action property and refinement of the passing runs. Each proof
has the same shape: an inductive invariant made of named parts, one step per action,
and the property as a consequence. The assumptions say that bounds are natural numbers
and that special values are not members of the sets they are added to. Three say more:
the entries of a directory are finitely many (`FileAssumption`; a delete counts them),
the desktop has between 2 and 65536 pixels per axis (`DesktopAssumption`, the range of
absolute coordinates), and the controls of a window are finitely many and form a tree
below its root (`UiaAssumption`, UI Automation's control view).

**The exchange** (`WorkerExchangeProofs`, with `GatewayDispatchProofs` for what holds
of the dispatcher over any peer and is used for the helper as well):

* `TypeCorrect`: `TypeOK`, with `DispatchStruct` and `ExecStruct` (which record
  fields are set in which phase) as the strengthening;
* `NeverTwoAtOnce`: a thread inside the exchange holds the lock (`ExclInv`), and a
  busy request thread's id is the session's active id (`SessionInv`);
* `MarksHaveHandlers`: inductive as it stands;
* `HandlersAreFound`: an idle execution has no connection and a running one has its
  id in the table, unless a thread of the same id in another session removed it;
* `ResultsCorrelate`: every frame, execution and response slot names a call that
  was dispatched with its id (`FrameInv`), the slot of a waiting thread holds
  responses to its own id only (`SlotInv`, which needs exclusion), and this is
  carried through the taken response, the cache and the returned result to the
  answer (`CorrInv`). That calls never change (`CallsStable`) makes the facts
  about frames in flight stable.

**Approvals and power** (`ApprovalGateProofs`, `PowerControlProofs`). `GateInv`: between
two steps no record is approved, because decision and use happen without an await
between them. Every step of gate, dispatcher and helper is a step of the gate or
leaves its variables alone, so the composition implements the gate
(`GateImplemented`) and inherits `PowerOneShot` and `PowerIsOwn`. `PowerInv` adds that
the request of a call is in one place: in the pipe of its connection, in the hands of
that session, or performed (`QueueInv`, `BusyInv`); that a call whose request went out
cannot end in one of the two exceptions that skip the audit (`Clean`); and that every
response in flight, in a slot, in the cache or returned reports a performed action
(`HeldIn(Reports)`). From it follow `OkIsPerformed`, `PowerAudited` and
`ConsentImplemented`, the refinement of `ConsentedPower`: a step of the helper that
performs an action is the abstract `Perform` of a consent that is still open
(`ConsentsOpen`), an authorization is `Consent`, all else stutters.

**Jobs and Codex** (`JobRegistryProofs`). `IInv` ties each phase of a task to the
snapshot of its job and to its file, which a failed write leaves behind the snapshot
(`TaskInv`, `LagInv`); the files of a living registry are in its catalogue (`FilesInv`),
a live process is registered or about to be (`ProcInv`), a crash leaves files only
(`DownInv`). It gives `JobsAreAccounted`, and `FilesMoveForward` as an action property:
`LagInv` is what keeps a write from moving a file backwards. `CodexInv` adds the
records, which outlive a crash as long as the files do (`AdapterAndRegistryAgree`).
Every step of the Codex composition is a step of the registry or leaves it alone
(`CodexSteps`), so the composition implements the registry (`RegistryImplemented`) and
inherits both of its properties (`CodexJobsAccounted`).

**Emergency stop** (`EmergencyStopProofs`): `StopIsImmediate`, `StopCancelsQueue` and
`NoDeafWorker` from one `IInv`. A gate has one holder (`GateInv`), so at most one check
can have passed when the marker appears, and late input uses it up (`LateInv`); one
thread owns the key and is the only writer of the marker, so a parked request next
to the marker means that its `notify_all` is still to come or that its runtime is
over (`KeyInv`); until the watchdog closes the key no quit message is in its queue,
so the thread can only end through the failure flag (`MainInv`).

**The adapters** (`WorkerAdaptersProofs`; a step of one leaves the others alone,
`AdapterSteps`):

* `StaysInside`, `NoDataLost`: whoever works in the directory has its handles open, and
  then nobody can swap it (`GuardInv`); a temporary file that replaces another is
  whole (`TempInv`); where the content of a move is at each step (`MoveInv`); what a
  delete has taken and may still take is below the threshold (`CountInv`);
* `ApprovalsAreCurrent`: `DialogInv`, what each state of the dialog says of the clock;
* `InputIsReported`, `UndisturbedMutations`: `HeldInv`, nothing is down without a
  warning but a button about to be released; `SoundInv`, what a mutation that nobody
  disturbs finds at each point, and the arithmetic lemma `LandsThere`: the coordinate
  rounded up lands on the pixel it came from;
* `CallsTakeTurns`, `BrowserIsGuarded`: a task that is not cancelled has the lock
  (`LockInv`), so that one which opens or closes has the context for itself (`FieldInv`);
* `SecretsAreKept`, for any page, secrets and limit: a place where a secret stands and
  is not replaced has lost letters to a replaced one at least as long, which covers it
  if secrets overlap only when nested (`RedactionHides`); cutting a redacted text only
  drops letters (`ResultHides`). A result made earlier stays safe, as the page does not
  change and secrets that were replaced do not come back (`NextText`);
* `ElevatedLeftAlone`: an action past its guard has one target, which stays (`TargetInv`);
* `SingleTarget`: in a tree that fits and is left alone, the visited and the queued
  controls are different ones, hold all children of the visited, and the matches are
  the visited controls that match (`Search`). So the capacity never cuts a child off
  (`Room`, by counting), and a search that ends has seen the whole tree or two matches.

**The platform layer** (`PlatformLayerProofs`, `PlatformSteps`):

* `HandlesAreAccounted`: `WatcherInv` says where a connection is while the watcher
  sets it up, serves and drops it (`CurrentInv`), and that the registry names neither
  one not registered yet nor one just dropped (`RegistryInv`); `ClientInv`, who holds
  the handle of an exchange by where exchange and cancel are;
* `StatusIsTrue`: READY is written once (`ReadyInv`), what the host knows of the child
  (`HostInv`) and what the child's own end says of its runtime (`ChildInv`);
* `SettingsAreBound`: a protected file whose hash matched stays as it is, so both are
  pinned when they are read again (`BindingInv`, `LoadedInv`); `GenerationsTakeTurns`:
  an adapter is held by the generation that is being built, run or closed;
* `TreesAreEnded`: nothing runs before the job has the root, then everything is in the
  job while its handle is open (`TreeInv`);
* `OutputIsHonest`: what was read is kept, in a drain's hand, or lost, and nothing is
  lost before the budget is spent (`BudgetInv`); joined drains add nothing
  (`JoinedInv`), so that total and flags agree when the result is made;
* `BytesMakeMessages`, the refinement of `MessageChannel`, for `WholeWrites`. `StreamInv`
  says that each byte in the pipe was written once and that the rest of its frame
  follows if that was written (`CellsInv`), that the frames sent before the close follow
  each other (`LinkInv`), that what was received is out of the pipe (`ReceivedInv`), and
  that the reader stands in the frame it is to deliver next, or at the end of an
  empty pipe if no part of a frame was left (`OrderInv`). A part can only be left by
  a write that fails, and its thread closes the connection before the lock is free
  again. Without `WholeWrites` the statement is false: a read may time out between
  the two halves of a frame.

**Model-checked only.** Liveness, as the prover has no support for fairness:
`ThreadsTerminate`, `SessionFreed`, `CodexJobEnds`, `CancelledDies`, `CloseEnds`,
`PressHeeded`, `WaitBounded`, `WatcherStops` and `StopReported`.

## Findings

1. `worker/ipc_client.py`: a late response is refused for the abandoned call but
   accepted, and cached, for a retry with its id (`late_response`).
2. `gateway/jobs.py:196`: a failed process creation overwrites a cancellation
   (`terminal_is_final`). `DurableLifecycle` admits this step and no other step out
   of a terminal state.
3. `service-host/.../ChildProcess.cs:340`: the host stops draining the child's stderr
   after 16 KiB; a Gateway that goes on logging blocks when the pipe is full, while
   the service counts as running (`stderr_log`).

Observations, where properties carry an exemption or the code simply does so:

* a transient `busy` answer of a Worker session is cached like any other response
  (`gateway/idempotency.py`);
* a pywin32 error at process creation leaves a job queued for ever
  (`gateway/jobs.py:193`), and a failed snapshot write in `cancel` leaves its process
  running (`broken`);
* a `CancelRequest` is written after the check of the active id and can meet a retry
  of the same id (`gateway/worker_runtime.py:127`);
* a writer that waits for `_write_lock` while another thread closes the connection
  still writes until the handle is closed (`gateway/worker_runtime.py:178`); behind
  a write that was aborted, the session loop may take its frame for the rest of
  the broken one and drop it at its next time-out (`worker/pipe_server.py:133`), and
  still deliver a later one;
* what a shell starts before it is put into its job survives it (`worker/shell.py:167`);
* adapters stay open when a Worker fails between dispatcher and runtime
  (`worker/runtime.py:302`);
* a launch of Chromium that is cancelled, and a `_close` that is struck, can leave a
  browser behind (`worker/browser.py`); text read before a secret was replaced is
  redacted with the new one, and of two secrets that overlap on a page the shorter is
  removed in part;
* a move that overlaps another program's write to the source loses that write, and
  entries that appear after `_count_items` are deleted with the rest;
* a search cut at `MAX_TREE_CONTROLS` does not see a second match beyond;
* the event of an audited call is appended in memory before the file: if that append
  raises, the caller gets an exception after the action was performed
  (`gateway/audit.py:251`);
* `updated_at` may precede `created_at` after the clock stepped back, and the snapshot
  is then refused at the next start (`gateway/job_models.py:141`).

## Not modelled

* `scripts/*.ps1` (installer, service switch and its recovery): sequential scripts run
  by an administrator over the registry, the SCM and scheduled tasks.
* MCP front end, authentication, host and origin checks, configuration models, tool
  schemas, status: stateless filtering and formatting.
* `gateway/job_dispatch.py` and `cleanup_retention`: not reached from
  `gateway/main.py` or the Worker. The pywin32 services (`windows_service.py`), which
  the .NET host replaces. `worker/session_power.py`: one Win32 call after a check.
* `fs_mkdir` and listings; screen capture; redaction of audit payloads; ACL contents.
* Real time: a time-out may fire whenever it is armed.

## Mutants

Operators marked "Mutant" are never used by a specification. Each is a plausible
mistake in the definition that follows it, with which TLC finds the property named
in `PROJECT.json` violated.
