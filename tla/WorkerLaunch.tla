---------------------------- MODULE WorkerLaunch ----------------------------
(***************************************************************************)
(* The Worker process from its command line to its end: worker/main.py,    *)
(* the runtime binding it verifies before every generation, and the        *)
(* adapters that build_worker_runtime opens and the watchdog closes.       *)
(***************************************************************************)
EXTENDS Naturals, Sequences, FiniteSets

CONSTANTS
    MaxAttempts,  \* bound: generations the watchdog tries
    MaxDefects    \* bound: bound files that were not installed as they should

ASSUME LaunchAssumption == MaxAttempts \in Nat /\ MaxDefects \in Nat

VARIABLES
    bound,     \* started with --runtime-binding
    files,     \* the binding and the two files it names, as they are on disk
    session,   \* the WTS session the process lives in
    snapshot,  \* what current_worker_session read in this attempt
    step,      \* where main, and then the watchdog, is
    file,      \* the file load_runtime_binding is at
    loaded,    \* contents the settings were parsed from
    attempt,   \* generation
    held,      \* adapters that are open: <<generation, adapter>>
    forsaken,  \* generations whose construction failed after their dispatcher
    ending     \* an exception the watchdog does not handle is on its way

launchVars == <<bound, files, session, snapshot, step, file, loaded, attempt,
                held, forsaken, ending>>

Files == {"binding", "config", "policy"}
Contents == {"installed", "edited", "malformed"}
Condition == [shape : {"regular", "reparse", "linked"},
              owner : {"trusted", "other"},
              writable : BOOLEAN,       \* an ACE lets another account write
              content : Contents]

(* What build_worker_dispatcher enters into its ExitStack, in this order.  *)
Adapters == <<"processes", "jobs", "browser", "windows_mcp">>

AsInstalled == [shape |-> "regular", owner |-> "trusted", writable |-> FALSE,
                content |-> "installed"]

WorkerLaunchTypeOK ==
    /\ bound \in BOOLEAN /\ ending \in BOOLEAN
    /\ files \in [Files -> Condition]
    /\ session \in {"active", "inactive", "foreign"}
    /\ snapshot \in {"none", "active", "inactive", "foreign"}
    /\ step \in {"main", "acl", "read", "loop", "session", "identity",
                 "settings", "building", "built", "running", "closing",
                 "waiting", "ended"}
    /\ file \in Files
    /\ loaded \in [{"config", "policy"} -> Contents \cup {"none"}]
    /\ attempt \in 0..MaxAttempts
    /\ held \subseteq (1..MaxAttempts) \X {Adapters[i] : i \in 1..Len(Adapters)}
    /\ forsaken \subseteq 1..MaxAttempts

WorkerLaunchInit ==
    /\ bound \in BOOLEAN
    /\ files \in [Files -> Condition]
    /\ Cardinality({f \in Files : files[f] # AsInstalled}) <= MaxDefects
    /\ session \in {"active", "inactive", "foreign"}
    /\ snapshot = "none" /\ step = "main" /\ file = "binding"
    /\ loaded = [f \in {"config", "policy"} |-> "none"]
    /\ attempt = 0 /\ held = {} /\ forsaken = {} /\ ending = FALSE

(* The process is gone, and with it every handle and Job Object.           *)
Ended ==
    /\ step' = "ended"
    /\ held' = {} /\ forsaken' = {}
-----------------------------------------------------------------------------
(* The machine.  A bound file is changed by whoever its owner and ACL let; *)
(* the installer writes a new nonce directory and leaves this one alone.   *)
Tamper(f) ==
    /\ files[f].owner = "other" \/ files[f].writable
    /\ \E c \in Contents \ {files[f].content} :
         files' = [files EXCEPT ![f].content = c]
    /\ UNCHANGED <<bound, session, snapshot, step, file, loaded, attempt, held,
                   forsaken, ending>>

(* An administrator repairs owner and ACL, not the content.                *)
Repair(f) ==
    /\ files[f].owner = "other" \/ files[f].writable
    /\ files' = [files EXCEPT ![f].owner = "trusted", ![f].writable = FALSE]
    /\ UNCHANGED <<bound, session, snapshot, step, file, loaded, attempt, held,
                   forsaken, ending>>

SessionChange ==
    /\ session # "foreign"
    /\ session' = IF session = "active" THEN "inactive" ELSE "active"
    /\ UNCHANGED <<bound, files, snapshot, step, file, loaded, attempt, held,
                   forsaken, ending>>
-----------------------------------------------------------------------------
(* main: no arguments, or the exact pair; anything else is exit code 2.    *)
Main ==
    /\ step = "main"
    /\ \/ /\ step' = IF bound THEN "acl" ELSE "loop"
          /\ UNCHANGED <<held, forsaken>>
       \/ Ended
    /\ UNCHANGED <<bound, files, session, snapshot, file, loaded, attempt, ending>>

(* _require_safe_file: neither reparse point nor second link, ...          *)
SafeFile(f) == files[f].shape = "regular"

(* ... and _require_protected_acl on it and its parents: a trusted owner   *)
(* and no ACE that lets another account change it.                         *)
ProtectedAcl(f) == files[f].owner = "trusted" /\ ~files[f].writable

(* load_runtime_binding is called by main and in every attempt; what it    *)
(* rejects ends the process, because only OSError is retried.              *)
Verified ==
    /\ step' = IF attempt = 0 THEN "loop" ELSE "identity"
    /\ file' = "binding"

(* Mutant: the hash is taken to be enough.                                 *)
CheckAclLater ==
    /\ step = "acl"
    /\ \/ /\ SafeFile(file)
          /\ step' = "read"
          /\ UNCHANGED <<held, forsaken>>
       \/ /\ ~SafeFile(file)
          /\ Ended
    /\ UNCHANGED <<bound, files, session, snapshot, file, loaded, attempt, ending>>

(* _read_protected_bytes: the checks, ...                                  *)
CheckAcl ==
    /\ step = "acl"
    /\ \/ /\ SafeFile(file) /\ ProtectedAcl(file)
          /\ step' = "read"
          /\ UNCHANGED <<held, forsaken>>
       \/ /\ ~(SafeFile(file) /\ ProtectedAcl(file))
          /\ Ended
    /\ UNCHANGED <<bound, files, session, snapshot, file, loaded, attempt, ending>>

(* _load_exact_json and _parse_binding.                                    *)
Parses(c) == c # "malformed"

(* The SHA-256 of the command line, or of the binding.                     *)
HashMatches(c) == c = "installed"

(* ... and then the bytes, or an error of open() or read().                *)
ReadProtected ==
    /\ step = "read"
    /\ LET c == files[file].content
       IN  \/ /\ file = "binding" => Parses(c)
              /\ HashMatches(c)
              /\ \/ /\ file = "binding" /\ file' = "config" /\ step' = "acl"
                 \/ /\ file = "config" /\ file' = "policy" /\ step' = "acl"
                 \/ /\ file = "policy" /\ Verified
              /\ UNCHANGED <<held, forsaken>>
           \/ Ended /\ UNCHANGED file
    /\ UNCHANGED <<bound, files, session, snapshot, loaded, attempt, ending>>
-----------------------------------------------------------------------------
(* WorkerWatchdog.run: one attempt begins; the factory reads the session.  *)
Attempt ==
    /\ step = "loop"
    /\ attempt < MaxAttempts
    /\ attempt' = attempt + 1
    /\ snapshot' = session
    /\ loaded' = [f \in {"config", "policy"} |-> "none"]
    /\ step' = IF bound THEN "acl" ELSE "identity"
    /\ UNCHANGED <<bound, files, session, file, held, forsaken, ending>>

(* An OSError, which InvalidWorkerSessionError is one of, before there is  *)
(* a runtime: wait and try again.                                          *)
RetryLater == step' = "waiting" /\ UNCHANGED <<held, forsaken>>

(* The SID of the binding; without a binding any user will do.             *)
CheckIdentity ==
    /\ step = "identity"
    /\ \/ /\ bound => snapshot # "foreign"
          /\ step' = "settings"
          /\ UNCHANGED <<held, forsaken>>
       \/ /\ bound /\ snapshot = "foreign"
          /\ RetryLater
    /\ UNCHANGED <<bound, files, session, snapshot, file, loaded, attempt, ending>>

(* load_bridge_settings and then load_policy_settings read the files once  *)
(* more: a ConfigurationFileError is not retried, another OSError is.      *)
LoadSettings ==
    /\ step = "settings"
    /\ LET f == IF loaded["config"] = "none" THEN "config" ELSE "policy"
       IN  \/ /\ files[f].content # "malformed"
              /\ loaded' = [loaded EXCEPT ![f] = files[f].content]
              /\ step' = IF f = "policy" THEN "building" ELSE "settings"
              /\ UNCHANGED <<held, forsaken>>
           \/ /\ Ended \/ RetryLater
              /\ UNCHANGED loaded
    /\ UNCHANGED <<bound, files, session, snapshot, file, attempt, ending>>

Opened == {a \in {Adapters[i] : i \in 1..Len(Adapters)} : <<attempt, a>> \in held}

(* validate_worker_session, a constructor or an import fails: the          *)
(* ExitStack closes what is open.                                          *)
BuildFails ==
    /\ step = "building"
    /\ \/ Ended
       \/ /\ step' = "waiting"
          /\ held' = {h \in held : h[1] # attempt}
          /\ UNCHANGED forsaken
    /\ UNCHANGED <<bound, files, session, snapshot, file, loaded, attempt, ending>>

(* The adapters are entered one by one; windows_mcp only if installed.     *)
OpenAdapter ==
    /\ step = "building"
    /\ snapshot # "inactive"
    /\ Cardinality(Opened) < Len(Adapters)
    /\ held' = held \cup {<<attempt, Adapters[Cardinality(Opened) + 1]>>}
    /\ UNCHANGED <<bound, files, session, snapshot, step, file, loaded, attempt,
                   forsaken, ending>>

(* stack.pop_all(): the dispatcher owns them.                              *)
Dispatcher ==
    /\ step = "building"
    /\ {"processes", "jobs", "browser"} \subseteq Opened
    /\ step' = "built"
    /\ UNCHANGED <<bound, files, session, snapshot, file, loaded, attempt, held,
                   forsaken, ending>>

(* The rest of build_worker_runtime: the audit directory cannot be made    *)
(* (an OSError: the watchdog goes on, and nobody closes the dispatcher),   *)
(* or the hotkey is not one of the two (a ValueError).                     *)
TailFails ==
    /\ step = "built"
    /\ \/ Ended
       \/ /\ step' = "waiting"
          /\ forsaken' = forsaken \cup {attempt}
          /\ UNCHANGED held
    /\ UNCHANGED <<bound, files, session, snapshot, file, loaded, attempt, ending>>

RunRuntime ==
    /\ step = "built"
    /\ step' = "running"
    /\ UNCHANGED <<bound, files, session, snapshot, file, loaded, attempt, held,
                   forsaken, ending>>

(* Mutant: close() only when run() returned without an exception.          *)
RunEndsUnclosed ==
    /\ step = "running"
    /\ \/ step' = "closing" /\ UNCHANGED <<held, forsaken, ending>>
       \/ RetryLater /\ UNCHANGED ending
    /\ UNCHANGED <<bound, files, session, snapshot, file, loaded, attempt>>

(* run() returns, raises what is retried, or raises something else (a      *)
(* KeyboardInterrupt too): in each case the finally closes the runtime.    *)
RunEnds ==
    /\ step = "running"
    /\ step' = "closing"
    /\ ending' \in BOOLEAN
    /\ UNCHANGED <<bound, files, session, snapshot, file, loaded, attempt, held,
                   forsaken>>

(* WorkerOperationDispatcher.close: the ExitStack closes the adapters in   *)
(* reverse; an error of one is raised after the others have been closed.   *)
CloseAdapter ==
    /\ step = "closing"
    /\ Opened # {}
    /\ held' = held \ {<<attempt, Adapters[Cardinality(Opened)]>>}
    /\ ending' \in {ending, TRUE}
    /\ UNCHANGED <<bound, files, session, snapshot, step, file, loaded, attempt,
                   forsaken>>

AllClosed ==
    /\ step = "closing"
    /\ Opened = {}
    /\ \/ ending /\ Ended
       \/ ~ending /\ RetryLater
    /\ UNCHANGED <<bound, files, session, snapshot, file, loaded, attempt, ending>>

(* stop.wait(backoff): nobody sets this event before the loop has ended,   *)
(* so only an interrupt ends the wait early.                               *)
Backoff ==
    /\ step = "waiting"
    /\ \/ step' = "loop" /\ UNCHANGED <<held, forsaken>>
       \/ Ended
    /\ UNCHANGED <<bound, files, session, snapshot, file, loaded, attempt, ending>>

WorkerLaunchNext ==
    \/ \E f \in Files : Tamper(f) \/ Repair(f)
    \/ SessionChange
    \/ Main \/ CheckAcl \/ ReadProtected
    \/ Attempt \/ CheckIdentity \/ LoadSettings
    \/ OpenAdapter \/ BuildFails \/ Dispatcher \/ TailFails
    \/ RunRuntime \/ RunEnds \/ CloseAdapter \/ AllClosed \/ Backoff
-----------------------------------------------------------------------------
(* A bound Worker runs with the very settings its binding was made for,    *)
(* although the files are read again after their hashes were compared:     *)
(* the ACL was checked before the content, so nobody can change it any     *)
(* more (load_runtime_binding, InstalledWorkerRuntimeFactory).             *)
RunsBoundSettings ==
    bound /\ step \in {"building", "built", "running"} =>
        loaded = [f \in {"config", "policy"} |-> "installed"]

(* Two generations never have their adapters open at the same time: what a *)
(* generation opened is closed before the next one begins, on every path   *)
(* but the one that fails between dispatcher and runtime (WorkerWatchdog,  *)
(* build_worker_dispatcher).                                               *)
OneGeneration ==
    \A h \in held :
        \/ h[1] = attempt /\ step \in {"building", "built", "running", "closing"}
        \/ h[1] \in forsaken
=============================================================================
