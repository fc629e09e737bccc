---------------------------- MODULE EmergencyStop --------------------------
(***************************************************************************)
(* The local emergency stop of the Worker: RemoteInputState (a marker file *)
(* that disables remote input), DesktopMutationGate.run in the request     *)
(* threads, LocalEmergencyHotkey in its message-loop thread, and the       *)
(* watchdog thread that starts, closes and replaces WorkerRuntime.         *)
(*                                                                         *)
(* Every runtime of a process has a gate and a hot key thread of its own,  *)
(* and all share the marker file.  Request threads and hot key threads may *)
(* outlive their runtime, because the joins are bounded.                   *)
(***************************************************************************)
EXTENDS Naturals, Sequences

CONSTANTS
    Threads,      \* request threads that enter the gate
    MaxRuntimes,  \* bound: runtimes built by the watchdog, over all processes
    MaxPresses,   \* bound: key presses that reach a message queue
    MaxResets     \* bound: local resets (enable-remote-input.ps1)

ASSUME StopAssumption ==
    MaxRuntimes \in Nat /\ MaxPresses \in Nat /\ MaxResets \in Nat

Runtimes == 1..MaxRuntimes

VARIABLES
    marker,    \* the file remote-input.disabled exists
    phase,     \* where the watchdog thread is
    cur,       \* the runtime it built last
    closes,    \* calls of LocalEmergencyHotkey.close it has yet to return from
    stop,      \* the outer stop event
    hk,        \* [Runtimes -> progress of the hot key thread]
    queue,     \* [Runtimes -> message queue of that thread]
    failed,    \* [Runtimes -> LocalEmergencyHotkey._failed]
    occupied,  \* [Runtimes -> DesktopMutationGate._occupied]
    pc,        \* [Threads -> progress of the request thread]
    rt,        \* [Threads -> runtime whose gate the thread uses]
    presses, resets,  \* counters for the bounds
    late       \* [Runtimes -> input sent through the gate since the stop]

main  == <<phase, cur, closes, stop>>
keys  == <<hk, queue, failed>>
gates == <<occupied, pc, rt>>
vars  == <<marker, main, keys, gates, presses, resets, late>>

Outside == {"none", "done"}
Waiting == {"arriving", "parked", "woken", "timedout"}
Inside  == {"held", "validated", "boundary", "armed", "leaving"}
KeyHeld == {"loop", "activating", "notifying", "auditing", "failing",
            "failNotify", "dying"}

TypeOK ==
    /\ marker \in BOOLEAN
    /\ phase \in {"idle", "starting", "serving", "closing", "joining", "closed"}
    /\ cur \in 0..MaxRuntimes
    /\ closes \in 0..2
    /\ stop \in BOOLEAN
    /\ hk \in [Runtimes -> KeyHeld \cup {"off", "booting", "registering", "ended"}]
    /\ queue \in [Runtimes -> Seq({"hotkey", "quit"})]
    /\ failed \in [Runtimes -> BOOLEAN]
    /\ occupied \in [Runtimes -> BOOLEAN]
    /\ pc \in [Threads -> Outside \cup Waiting \cup Inside]
    /\ rt \in [Threads -> Runtimes \cup {0}]
    /\ presses \in 0..MaxPresses
    /\ resets \in 0..MaxResets
    /\ late \in [Runtimes -> Nat]

Init ==
    /\ marker \in BOOLEAN
    /\ phase = "idle" /\ cur = 0 /\ closes = 0 /\ stop = FALSE
    /\ hk = [g \in Runtimes |-> "off"]
    /\ queue = [g \in Runtimes |-> <<>>]
    /\ failed = [g \in Runtimes |-> FALSE]
    /\ occupied = [g \in Runtimes |-> FALSE]
    /\ pc = [t \in Threads |-> "none"]
    /\ rt = [t \in Threads |-> 0]
    /\ presses = 0 /\ resets = 0
    /\ late = [g \in Runtimes |-> 0]
-----------------------------------------------------------------------------
(* The gate.  Each step below that reads _occupied runs under the          *)
(* condition's lock; the marker is read and written without it.            *)

(* notify_all of the gate of runtime g.                                    *)
Notified(g, f) ==
    [t \in Threads |-> IF rt[t] = g /\ f[t] = "parked" THEN "woken" ELSE f[t]]

Goto(t, s) == pc' = [pc EXCEPT ![t] = s]

(* A request of the served runtime starts a thread that will call run; the *)
(* thread may be scheduled only after the server returned.                 *)
Arrive(t) ==
    /\ pc[t] = "none"
    /\ phase = "serving"
    /\ Goto(t, "arriving")
    /\ rt' = [rt EXCEPT ![t] = cur]
    /\ UNCHANGED <<marker, main, keys, occupied, presses, resets, late>>

(* Mutant: every wait gets the full time-out.                              *)
TryEnterAfresh(t) ==
    LET g == rt[t] IN
    /\ pc[t] \in {"arriving", "woken", "timedout"}
    /\ \/ marker /\ Goto(t, "done") /\ UNCHANGED occupied
       \/ ~marker /\ occupied[g] /\ Goto(t, "parked") /\ UNCHANGED occupied
       \/ /\ ~marker /\ ~occupied[g]
          /\ occupied' = [occupied EXCEPT ![g] = TRUE]
          /\ Goto(t, "held")
    /\ UNCHANGED <<marker, main, keys, rt, presses, resets, late>>

(* One round of the wait loop, and what follows it under the same lock.    *)
TryEnter(t) ==
    LET g == rt[t] IN
    /\ pc[t] \in {"arriving", "woken", "timedout"}
    /\ \/ marker /\ Goto(t, "done") /\ UNCHANGED occupied
       \/ /\ ~marker /\ occupied[g]
          /\ Goto(t, "done") \/ (pc[t] # "timedout" /\ Goto(t, "parked"))
          /\ UNCHANGED occupied
       \/ /\ ~marker /\ ~occupied[g]
          /\ occupied' = [occupied EXCEPT ![g] = TRUE]
          /\ Goto(t, "held")
    /\ UNCHANGED <<marker, main, keys, rt, presses, resets, late>>

(* Condition.wait returns because the remaining time is over.              *)
WaitTimeout(t) ==
    /\ pc[t] = "parked"
    /\ Goto(t, "timedout")
    /\ UNCHANGED <<marker, main, keys, occupied, rt, presses, resets, late>>

(* validate() returns or raises.                                           *)
Validate(t) ==
    /\ pc[t] = "held"
    /\ Goto(t, "validated") \/ Goto(t, "leaving")
    /\ UNCHANGED <<marker, main, keys, occupied, rt, presses, resets, late>>

(* The marker is read again before mutate(): a UI automation action is     *)
(* applied at once, desktop input goes through its boundary checks first.  *)
Recheck(t) ==
    /\ pc[t] = "validated"
    /\ IF marker THEN Goto(t, "leaving") ELSE Goto(t, "armed") \/ Goto(t, "boundary")
    /\ UNCHANGED <<marker, main, keys, occupied, rt, presses, resets, late>>

(* Mutant: the marker is read once per mutation only.                      *)
BoundaryCheckUnguarded(t) ==
    /\ pc[t] = "boundary"
    /\ Goto(t, "leaving") \/ Goto(t, "armed")
    /\ UNCHANGED <<marker, main, keys, occupied, rt, presses, resets, late>>

(* boundary_check before the next chunk of input, its validate() included; *)
(* or there is no more input.                                              *)
BoundaryCheck(t) ==
    /\ pc[t] = "boundary"
    /\ Goto(t, "leaving") \/ (~marker /\ Goto(t, "armed"))
    /\ UNCHANGED <<marker, main, keys, occupied, rt, presses, resets, late>>

(* A chunk of input, or the UI automation action, reaches the desktop.     *)
SendInput(t) ==
    /\ pc[t] = "armed"
    /\ Goto(t, "boundary")
    /\ late' = IF marker THEN [late EXCEPT ![rt[t]] = @ + 1] ELSE late
    /\ UNCHANGED <<marker, main, keys, occupied, rt, presses, resets>>

(* The finally block of run.                                               *)
Leave(t) ==
    /\ pc[t] = "leaving"
    /\ occupied' = [occupied EXCEPT ![rt[t]] = FALSE]
    /\ pc' = Notified(rt[t], [pc EXCEPT ![t] = "done"])
    /\ UNCHANGED <<marker, main, keys, rt, presses, resets, late>>

Request(t) ==
    \/ Arrive(t) \/ TryEnter(t) \/ WaitTimeout(t) \/ Validate(t)
    \/ Recheck(t) \/ BoundaryCheck(t) \/ SendInput(t) \/ Leave(t)
-----------------------------------------------------------------------------
(* The hot key thread: LocalEmergencyHotkey._run.                          *)

(* RemoteInputState.disable: the marker is replaced atomically.  late      *)
(* counts from the moment the marker appears.                              *)
Disable ==
    /\ marker' = TRUE
    /\ late' = IF marker THEN late ELSE [g \in Runtimes |-> 0]

KeyGoto(g, s) == hk' = [hk EXCEPT ![g] = s]

(* The backend exists and its thread has a message queue.                  *)
KeyBoot(g) ==
    /\ hk[g] = "booting"
    /\ KeyGoto(g, "registering")
    /\ UNCHANGED <<marker, main, queue, failed, gates, presses, resets, late>>

(* register: Windows grants the key to one thread of the desktop.          *)
KeyRegister(g) ==
    /\ hk[g] = "registering"
    /\ \/ /\ \A h \in Runtimes : hk[h] \notin KeyHeld
          /\ KeyGoto(g, "loop")
          /\ UNCHANGED <<queue, failed>>
       \/ /\ KeyGoto(g, "ended")
          /\ queue' = [queue EXCEPT ![g] = <<>>]
          /\ failed' = [failed EXCEPT ![g] = TRUE]
    /\ UNCHANGED <<marker, main, gates, presses, resets, late>>

(* next_message returns the oldest message, or fails.                      *)
KeyMessage(g) ==
    /\ hk[g] = "loop"
    /\ \/ /\ queue[g] # <<>>
          /\ KeyGoto(g, IF Head(queue[g]) = "quit" THEN "dying" ELSE "activating")
          /\ queue' = [queue EXCEPT ![g] = Tail(@)]
       \/ KeyGoto(g, "failing") /\ UNCHANGED queue
    /\ UNCHANGED <<marker, main, failed, gates, presses, resets, late>>

(* Mutant: an error of disable is ignored.                                 *)
KeyDisableIgnoring(g) ==
    /\ hk[g] = "activating"
    /\ \/ Disable /\ KeyGoto(g, "notifying")
       \/ KeyGoto(g, "loop") /\ UNCHANGED <<marker, late>>
    /\ UNCHANGED <<main, queue, failed, gates, presses, resets>>

(* activate_local_emergency_stop: the marker, the waiters, the audit.      *)
KeyDisable(g) ==
    /\ hk[g] = "activating"
    /\ \/ Disable /\ KeyGoto(g, "notifying")
       \/ KeyGoto(g, "failing") /\ UNCHANGED <<marker, late>>
    /\ UNCHANGED <<main, queue, failed, gates, presses, resets>>

(* Mutant: nobody is woken.                                                *)
KeyNotifySilent(g) ==
    /\ hk[g] = "notifying"
    /\ KeyGoto(g, "auditing")
    /\ UNCHANGED <<marker, main, queue, failed, gates, presses, resets, late>>

(* notify_all of activate_emergency_stop.                                  *)
KeyNotify(g) ==
    /\ hk[g] = "notifying"
    /\ pc' = Notified(g, pc)
    /\ KeyGoto(g, "auditing")
    /\ UNCHANGED <<marker, main, queue, failed, occupied, rt, presses, resets, late>>

(* record_activation.                                                      *)
KeyAudit(g) ==
    /\ hk[g] = "auditing"
    /\ KeyGoto(g, "loop") \/ KeyGoto(g, "failing")
    /\ UNCHANGED <<marker, main, queue, failed, gates, presses, resets, late>>

(* Mutant: _failed is set only when the second activation works.           *)
KeyFailUnflagged(g) ==
    /\ hk[g] = "failing"
    /\ \/ Disable /\ KeyGoto(g, "failNotify")
       \/ KeyGoto(g, "dying") /\ UNCHANGED <<marker, late>>
    /\ UNCHANGED <<main, queue, failed, gates, presses, resets>>

(* The except clause: the stop is activated once more, and _failed is set  *)
(* whether or not that works.                                              *)
KeyFail(g) ==
    /\ hk[g] = "failing"
    /\ \/ /\ Disable
          /\ KeyGoto(g, "failNotify")
          /\ UNCHANGED failed
       \/ /\ KeyGoto(g, "dying")
          /\ failed' = [failed EXCEPT ![g] = TRUE]
          /\ UNCHANGED <<marker, late>>
    /\ UNCHANGED <<main, queue, gates, presses, resets>>

KeyFailNotify(g) ==
    /\ hk[g] = "failNotify"
    /\ pc' = Notified(g, pc)
    /\ KeyGoto(g, "dying")
    /\ failed' = [failed EXCEPT ![g] = TRUE]
    /\ UNCHANGED <<marker, main, queue, occupied, rt, presses, resets, late>>

(* The finally clause: unregister, and the thread ends.                    *)
KeyUnregister(g) ==
    /\ hk[g] = "dying"
    /\ KeyGoto(g, "ended")
    /\ queue' = [queue EXCEPT ![g] = <<>>]
    /\ UNCHANGED <<marker, main, failed, gates, presses, resets, late>>

HotkeyThread(g) ==
    \/ KeyBoot(g) \/ KeyRegister(g) \/ KeyMessage(g) \/ KeyDisable(g)
    \/ KeyNotify(g) \/ KeyAudit(g) \/ KeyFail(g) \/ KeyFailNotify(g)
    \/ KeyUnregister(g)
-----------------------------------------------------------------------------
(* The watchdog thread: WorkerWatchdog.run and WorkerRuntime.run.          *)

(* runtime_factory, and start() up to its wait for _ready.                 *)
NextRuntime ==
    /\ phase = "idle" /\ ~stop /\ cur < MaxRuntimes
    /\ cur' = cur + 1
    /\ phase' = "starting"
    /\ hk' = [hk EXCEPT ![cur'] = "booting"]
    /\ UNCHANGED <<marker, closes, stop, queue, failed, gates, presses, resets, late>>

Ready(g) == hk[g] \notin {"booting", "registering"}
Error(g) == failed[g] \/ hk[g] \in {"failing", "failNotify"}

(* start() returns, and the pipe server starts.                            *)
StartReady ==
    /\ phase = "starting" /\ Ready(cur) /\ ~Error(cur)
    /\ phase' = "serving"
    /\ UNCHANGED <<marker, cur, closes, stop, keys, gates, presses, resets, late>>

(* start() times out or finds an error: close() is called by start and,    *)
(* for the error start raises, by WorkerRuntime.run.                       *)
StartFails ==
    /\ phase = "starting" /\ (Ready(cur) => Error(cur))
    /\ phase' = "closing" /\ closes' = 2
    /\ UNCHANGED <<marker, cur, stop, keys, gates, presses, resets, late>>

(* The server returns when _WorkerStopSignal is set; run closes the key.   *)
ServerReturns ==
    /\ phase = "serving" /\ (stop \/ failed[cur])
    /\ phase' = "closing" /\ closes' = 1
    /\ UNCHANGED <<marker, cur, stop, keys, gates, presses, resets, late>>

(* close(): WM_QUIT, if there is a thread with a queue to post it to.      *)
CloseKey ==
    /\ phase = "closing"
    /\ phase' = "joining"
    /\ queue' = IF hk[cur] \in KeyHeld \cup {"registering"}
                THEN [queue EXCEPT ![cur] = Append(@, "quit")] ELSE queue
    /\ UNCHANGED <<marker, cur, closes, stop, hk, failed, gates, presses, resets, late>>

(* join returns because the thread ended, or after a second.               *)
Joined ==
    /\ phase = "joining"
    /\ closes' = closes - 1
    /\ phase' = IF closes = 1 THEN "closed" ELSE "closing"
    /\ UNCHANGED <<marker, cur, stop, keys, gates, presses, resets, late>>

(* runtime.close: the dispatcher refuses requests from here on.            *)
CloseRuntime ==
    /\ phase = "closed"
    /\ phase' = "idle"
    /\ UNCHANGED <<marker, cur, closes, stop, keys, gates, presses, resets, late>>

Watchdog ==
    NextRuntime \/ StartReady \/ StartFails \/ ServerReturns \/ CloseKey
    \/ Joined \/ CloseRuntime
-----------------------------------------------------------------------------
(* The environment.                                                        *)

(* The user presses the key; the thread that registered it is told.        *)
Press(g) ==
    /\ hk[g] \in KeyHeld /\ presses < MaxPresses
    /\ presses' = presses + 1
    /\ queue' = [queue EXCEPT ![g] = Append(@, "hotkey")]
    /\ UNCHANGED <<marker, main, hk, failed, gates, resets, late>>

(* A local administrator removes the marker.                               *)
LocalReset ==
    /\ marker /\ resets < MaxResets
    /\ marker' = FALSE
    /\ resets' = resets + 1
    /\ UNCHANGED <<main, keys, gates, presses, late>>

(* The outer stop event is set.                                            *)
StopWorker ==
    /\ ~stop /\ phase # "idle"
    /\ stop' = TRUE
    /\ UNCHANGED <<marker, phase, cur, closes, keys, gates, presses, resets, late>>

(* The process ends, with all its threads, by a crash at any point or when *)
(* the watchdog has returned; the scheduled task may start it again.       *)
ProcessEnds ==
    /\ phase # "idle" \/ stop
    /\ phase' = "idle" /\ closes' = 0 /\ stop' = FALSE
    /\ hk' = [g \in Runtimes |-> "off"]
    /\ queue' = [g \in Runtimes |-> <<>>]
    /\ pc' = [t \in Threads |-> IF pc[t] = "none" THEN "none" ELSE "done"]
    /\ occupied' = [g \in Runtimes |-> FALSE]
    /\ failed' = [g \in Runtimes |-> FALSE]
    /\ UNCHANGED <<marker, cur, rt, presses, resets, late>>

Environment == (\E g \in Runtimes : Press(g)) \/ LocalReset \/ StopWorker \/ ProcessEnds

Next ==
    \/ \E t \in Threads : Request(t)
    \/ \E g \in Runtimes : HotkeyThread(g)
    \/ Watchdog
    \/ Environment

Spec == Init /\ [][Next]_vars

(* The hot key thread takes its steps, a wait times out and a thread that  *)
(* was woken gets the lock; nothing is assumed of validate and of the      *)
(* desktop, which may hang while the gate is held, nor of the watchdog.    *)
Fairness ==
    /\ \A g \in Runtimes : WF_vars(HotkeyThread(g))
    /\ \A t \in Threads : WF_vars(TryEnter(t)) /\ WF_vars(WaitTimeout(t))

FairSpec == Spec /\ Fairness
-----------------------------------------------------------------------------
(* At most one chunk of input passes a gate once the marker exists: the    *)
(* one whose check had passed when it appeared.  (README: while the marker *)
(* is active click/type/UIA mutations are not executed.)                   *)
OneLateInput == marker => \A g \in Runtimes : late[g] <= 1

(* When a hot key thread has finished activating the stop, no request is   *)
(* left parked at its gate until its time is over.  (README: queued input  *)
(* is cancelled.)                                                          *)
QueuedCancelled ==
    \A t \in Threads :
        marker /\ pc[t] = "parked" /\ rt[t] \in Runtimes
            => hk[rt[t]] \notin {"auditing", "loop", "dying"}

(* The pipe is served only while the key is listened to, or else _failed   *)
(* is set, which ends the server.                                          *)
ServedWithKey ==
    phase = "serving" => hk[cur] \in KeyHeld \/ failed[cur]

(* The inductive invariant that implies the three above.                   *)
Unstarted == {"off", "booting", "registering"}

(* A thread in or before a gate belongs to a runtime whose key was         *)
(* registered, and a gate has one holder.                                  *)
Placed == \A t \in Threads : pc[t] \in Waiting \cup Inside =>
              rt[t] \in Runtimes /\ hk[rt[t]] \notin Unstarted
Held == \A t \in Threads : pc[t] \in Inside => occupied[rt[t]]
OneHolder == \A t, u \in Threads :
              pc[t] \in Inside /\ pc[u] \in Inside /\ rt[t] = rt[u] => t = u

GateInv == Placed /\ Held /\ OneHolder

(* Input after the stop used up the one check that had passed.             *)
LateInv ==
    marker => \A g \in Runtimes :
        \/ late[g] = 0
        \/ late[g] = 1 /\ \A t \in Threads : rt[t] = g => pc[t] # "armed"

(* Windows gives the key to one thread, whose notify_all is the only step  *)
(* between the marker and the waiters.                                     *)
OneOwner == \A g, h \in Runtimes : hk[g] \in KeyHeld /\ hk[h] \in KeyHeld => g = h
Woken == \A t \in Threads : marker /\ pc[t] = "parked" =>
              hk[rt[t]] \in {"notifying", "failNotify", "ended"}

KeyInv == OneOwner /\ Woken

(* What the watchdog knows of the runtime it built last: until it closes   *)
(* the key nobody has asked the thread to quit, so the thread ends only    *)
(* after it set _failed.                                                   *)
Future == \A g \in Runtimes : g > cur => hk[g] = "off" /\ queue[g] = <<>>
Built ==
    /\ phase # "idle" => cur \in Runtimes /\ hk[cur] # "off"
    /\ phase = "serving" => hk[cur] \notin Unstarted
    /\ phase \in {"closing", "joining"} => closes \in 1..2
NoQuit == phase \in {"starting", "serving"} => queue[cur] \in Seq({"hotkey"})
EndFlagged ==
    phase \in {"starting", "serving"} /\ hk[cur] \in {"dying", "ended"} => failed[cur]

MainInv == Future /\ Built /\ NoQuit /\ EndFlagged

IInv == TypeOK /\ GateInv /\ LateInv /\ KeyInv /\ MainInv

(* A key press that is next in the queue leads to the marker, or to the    *)
(* failure flag that ends the server, unless the process itself ends.      *)
PressHeeded ==
    \A g \in Runtimes :
        hk[g] \in KeyHeld \ {"dying"} /\ queue[g] # <<>> /\ Head(queue[g]) = "hotkey"
            ~> marker \/ failed[g] \/ hk[g] = "off"

(* run does not wait for ever, even if the holder of the gate hangs.       *)
WaitBounded ==
    \A t \in Threads : pc[t] \in Waiting ~> pc[t] \notin Waiting
=============================================================================
