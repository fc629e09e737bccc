---------------------------- MODULE LocalApproval ---------------------------
(***************************************************************************)
(* The approval dialog on the Worker's desktop.  A request comes over the  *)
(* pipe to LocalApprovalHandler, which shows one dialog at a time, or from *)
(* a coroutine in LocalApprovalSurface.resolve, which abandons the thread  *)
(* of its dialog when the time is up.  The user, the clock, cancel() and   *)
(* close() act at any point.                                               *)
(***************************************************************************)
EXTENDS Naturals, FiniteSets

CONSTANTS
    Asks,       \* requests for an approval
    AskTimeout, \* timeout_ms of the IpcRequest
    AskExpiry,  \* expires_at
    LastTime    \* bound: last clock value

ASSUME LocalApprovalAssumption == {AskTimeout, AskExpiry, LastTime} \subseteq Nat

VARIABLES
    clock,
    route,      \* "handler" or "surface"
    ask,        \* where the request is
    limit,      \* expiry of its dialog
    dialog,     \* the window, or the button that closed it
    inTime,     \* the dialog returned before its limit
    dialogs,    \* _active
    signalled,  \* requests whose cancellation event is set
    cancelled,  \* undecided requests a cancel() reported as cancelled
    shut,       \* _closed
    closing,    \* events close() has still to set
    verdict

approvalVars == <<clock, route, ask, limit, dialog, inTime, dialogs, signalled,
                  cancelled, shut, closing, verdict>>

Undecided == "undecided"

LocalApprovalTypeOK ==
    /\ clock \in 0..LastTime
    /\ route \in [Asks -> {"handler", "surface"}]
    /\ ask \in [Asks -> {"new", "entered", "waiting", "returned", "done"}]
    /\ limit \in [Asks -> 0..LastTime + AskTimeout + AskExpiry]
    /\ dialog \in [Asks -> {"none", "starting", "open", "approve", "deny", "close"}]
    /\ inTime \subseteq Asks /\ dialogs \subseteq Asks
    /\ signalled \subseteq Asks /\ cancelled \subseteq Asks
    /\ shut \in BOOLEAN /\ closing \subseteq Asks
    /\ verdict \in [Asks -> {Undecided, "approved", "denied", "refused"}]

LocalApprovalInit ==
    /\ clock = 0
    /\ route \in [Asks -> {"handler", "surface"}]
    /\ ask = [r \in Asks |-> "new"]
    /\ limit = [r \in Asks |-> 0]
    /\ dialog = [r \in Asks |-> "none"]
    /\ inTime = {} /\ dialogs = {} /\ signalled = {} /\ cancelled = {}
    /\ shut = FALSE /\ closing = {}
    /\ verdict = [r \in Asks |-> Undecided]
-----------------------------------------------------------------------------
(* The answer is fixed; resolve sets the event in its finally.             *)
Decide(r, v) ==
    /\ ask' = [ask EXCEPT ![r] = "done"]
    /\ verdict' = [verdict EXCEPT ![r] = v]
    /\ signalled' = IF route[r] = "surface" THEN signalled \cup {r} ELSE signalled

(* parse_local_approval_wire_request, and the comparison of the two ids: a *)
(* request whose expiry has no time zone, whose tool is not the tool of    *)
(* its action, or that came in a frame of another id is refused.           *)
Malformed(r) ==
    /\ ask[r] = "new" /\ route[r] = "handler"
    /\ Decide(r, "refused")
    /\ UNCHANGED <<clock, route, limit, dialog, inTime, dialogs, cancelled, shut, closing>>

(* __call__: one dialog at a time, and none once the handler is closed.    *)
Enter(r) ==
    /\ ask[r] = "new" /\ route[r] = "handler"
    /\ \/ /\ ~shut /\ dialogs = {}
          /\ ask' = [ask EXCEPT ![r] = "entered"]
          /\ dialogs' = dialogs \cup {r}
          /\ UNCHANGED <<signalled, verdict>>
       \/ /\ shut \/ dialogs # {}
          /\ Decide(r, "refused")
          /\ UNCHANGED dialogs
    /\ UNCHANGED <<clock, route, limit, dialog, inTime, cancelled, shut, closing>>

(* The dialog of a request from the pipe ends with the earlier of the      *)
(* approval's expiry and the request's time-out.                           *)
DialogLimit(r) ==
    IF route[r] = "surface" \/ AskExpiry < clock + AskTimeout
    THEN AskExpiry ELSE clock + AskTimeout

(* _resolve, resolve: with a free desktop and time left, the dialog.       *)
ShowDialog(r) ==
    /\ ask[r] = IF route[r] = "surface" THEN "new" ELSE "entered"
    /\ limit' = [limit EXCEPT ![r] = DialogLimit(r)]
    /\ \/ /\ clock < DialogLimit(r)
          /\ ask' = [ask EXCEPT ![r] = "waiting"]
          /\ dialog' = [dialog EXCEPT ![r] = "starting"]
          /\ UNCHANGED <<signalled, verdict>>
       \/ /\ Decide(r, "denied")
          /\ UNCHANGED dialog
    /\ UNCHANGED <<clock, route, inTime, dialogs, cancelled, shut, closing>>
-----------------------------------------------------------------------------
ShouldClose(r) == r \in signalled \/ clock >= limit[r]

(* present, and TaskDialogIndirect, which may fail.                        *)
Present(r) ==
    /\ dialog[r] = "starting"
    /\ dialog' = [dialog EXCEPT ![r] = IF ShouldClose(r) THEN "close" ELSE "open"]
    /\ UNCHANGED <<clock, route, ask, limit, inTime, dialogs, signalled, cancelled,
                   shut, closing, verdict>>

(* The user's button; or the timer's WM_CLOSE, or a failure of the dialog. *)
Press(r, button) ==
    /\ dialog[r] = "open"
    /\ dialog' = [dialog EXCEPT ![r] = button]
    /\ UNCHANGED <<clock, route, ask, limit, inTime, dialogs, signalled, cancelled,
                   shut, closing, verdict>>

TimerCloses(r) == ShouldClose(r) /\ Press(r, "close")

(* The dialog's thread gives its answer, unless nobody waits for it.       *)
PresentReturns(r) ==
    /\ dialog[r] \in {"approve", "deny", "close"} /\ ask[r] = "waiting"
    /\ ask' = [ask EXCEPT ![r] = "returned"]
    /\ inTime' = IF ShouldClose(r) THEN inTime ELSE inTime \cup {r}
    /\ UNCHANGED <<clock, route, limit, dialog, dialogs, signalled, cancelled,
                   shut, closing, verdict>>

(* fail_after: the coroutine leaves the dialog to its thread.              *)
Abandon(r) ==
    /\ ask[r] = "waiting" /\ route[r] = "surface"
    /\ Decide(r, "denied")
    /\ UNCHANGED <<clock, route, limit, dialog, inTime, dialogs, cancelled, shut, closing>>

Chosen(r) == dialog[r] = "approve" /\ r \in inTime

(* Mutant: what the dialog returned is the answer.                         *)
AcceptedAsIs(r) == Chosen(r)

(* The checks after the dialog.                                            *)
Accepted(r) ==
    /\ Chosen(r)
    /\ clock < limit[r]
    /\ route[r] = "handler" => r \notin signalled

Conclude(r) ==
    /\ ask[r] = "returned"
    /\ Decide(r, IF Accepted(r) THEN "approved" ELSE "denied")
    /\ UNCHANGED <<clock, route, limit, dialog, inTime, dialogs, cancelled, shut, closing>>

(* The finally of __call__: _active.pop.                                   *)
LeaveHandler(r) ==
    /\ ask[r] = "done" /\ r \in dialogs
    /\ dialogs' = dialogs \ {r}
    /\ UNCHANGED <<clock, route, ask, limit, dialog, inTime, signalled, cancelled,
                   shut, closing, verdict>>
-----------------------------------------------------------------------------
(* cancel of a dialog under way.                                           *)
Cancel(r) ==
    /\ r \in dialogs
    /\ signalled' = signalled \cup {r}
    /\ cancelled' = IF verdict[r] = Undecided THEN cancelled \cup {r} ELSE cancelled
    /\ UNCHANGED <<clock, route, ask, limit, dialog, inTime, dialogs, shut, closing, verdict>>

(* close: no new dialog, ...                                               *)
CloseHandler ==
    /\ ~shut
    /\ shut' = TRUE
    /\ closing' = dialogs
    /\ UNCHANGED <<clock, route, ask, limit, dialog, inTime, dialogs, signalled,
                   cancelled, verdict>>

(* ... and a signal to each one there is.                                  *)
SignalOne(r) ==
    /\ r \in closing
    /\ closing' = closing \ {r}
    /\ signalled' = signalled \cup {r}
    /\ cancelled' = IF verdict[r] = Undecided THEN cancelled \cup {r} ELSE cancelled
    /\ UNCHANGED <<clock, route, ask, limit, dialog, inTime, dialogs, shut, verdict>>

TickClock ==
    /\ clock < LastTime
    /\ clock' = clock + 1
    /\ UNCHANGED <<route, ask, limit, dialog, inTime, dialogs, signalled, cancelled,
                   shut, closing, verdict>>

LocalApprovalNext ==
    \/ \E r \in Asks :
         \/ Malformed(r) \/ Enter(r) \/ ShowDialog(r) \/ Present(r) \/ TimerCloses(r)
         \/ \E button \in {"approve", "deny", "close"} : Press(r, button)
         \/ PresentReturns(r) \/ Abandon(r) \/ Conclude(r) \/ LeaveHandler(r)
         \/ Cancel(r) \/ SignalOne(r)
    \/ CloseHandler \/ TickClock
-----------------------------------------------------------------------------
(* An approval was chosen by the user in a dialog that was still valid,    *)
(* and a request that cancel() or close() reached before it was decided is *)
(* never approved (the checks around TaskDialogIndirect and in _resolve).  *)
ApprovalIsCurrent ==
    \A r \in Asks : verdict[r] = "approved" =>
        /\ dialog[r] = "approve" /\ r \in inTime
        /\ r \notin cancelled
=============================================================================
