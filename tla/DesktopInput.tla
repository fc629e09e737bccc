---------------------------- MODULE DesktopInput ----------------------------
(***************************************************************************)
(* One desktop mutation inside the gate: DesktopInputController.mutate, on *)
(* Win32InputBackend (SendInput, with repairs) or WindowsMcpInputBackend   *)
(* (a child process), while the user moves the mouse, switches windows,    *)
(* locks the desktop or stops the remote input.  Coordinates have one      *)
(* dimension.  The guard's process name and title stand in for its token.  *)
(* Taking turns at the gate is the subject of EmergencyStop.               *)
(***************************************************************************)
EXTENDS Integers

CONSTANTS
    Windows,       \* foreground identities (and so state tokens)
    NoToken,       \* a guard without token, or no observation
    Span,          \* width of the virtual screen
    MaxMutations,  \* bound: mutations
    MaxEvents      \* bound: things the user does

(* SendInput's absolute coordinates are 0..Scale.                          *)
Scale == 65535

ASSUME DesktopAssumption ==
    /\ NoToken \notin Windows
    /\ Span \in Nat /\ 2 <= Span /\ Span <= Scale + 1
    /\ MaxMutations \in Nat /\ MaxEvents \in Nat

VARIABLES
    cursor, foreground, unlocked, enabled,  \* the desktop and the marker
    backend,   \* which backend the Worker was started with
    usable,    \* _usable of the Windows-MCP backend
    view,      \* _transform: token, left edge and width of the last screenshot
    op,        \* the mutation and its guard
    dpc,       \* where it is
    first,     \* initial_foreground
    basis,     \* token of the screenshot its point comes from
    before, target,
    inserted,  \* events of its own that SendInput took
    complete,  \* the repair was inserted as a whole
    injected,  \* something of it has reached the desktop
    held,      \* what is down: "button", "keys"
    result, warned,  \* its error code; a state_uncertain has been reported
    interference, \* the request was unsound, or something got in its way
    mutations, events

desktopVars == <<cursor, foreground, unlocked, enabled>>
controllerVars == <<backend, usable, view, op, dpc, first, basis, before, target>>
effectVars == <<inserted, complete, injected, held, result, warned, interference,
                mutations, events>>
inputVars == <<desktopVars, controllerVars, effectVars>>

Pixels == 0..Span - 1
InputKinds == {"move", "click", "hotkey", "press", "text"}
PointerKinds == {"move", "click"}
ErrorCodes == {"limitation", "state_conflict", "state_uncertain", "emergency_stop"}
Views == [token : Windows \cup {NoToken}, left : 0..1, width : 0..Span]
NoView == [token |-> NoToken, left |-> 0, width |-> 0]

(* What the tool's input models let through.                               *)
Requests ==
    {r \in [kind : InputKinds, x : 0..Span, space : {"physical", "observation"},
            token : Windows \cup {NoToken}, times : 1..2] :
       /\ r.space = "observation" => r.kind \in PointerKinds /\ r.token # NoToken
       /\ r.kind \notin PointerKinds => r.x = 0
       /\ r.kind \notin {"click", "press"} => r.times = 1}

DesktopTypeOK ==
    /\ cursor \in Pixels /\ foreground \in Windows
    /\ unlocked \in BOOLEAN /\ enabled \in BOOLEAN
    /\ backend \in {"win32", "mcp"} /\ usable \in BOOLEAN
    /\ view \in Views /\ op \in Requests
    /\ dpc \in {"idle", "begin", "map", "mapped", "send", "aim", "aimed", "arrive",
                "press", "pressed", "settle", "repair", "repairing", "verify",
                "keys", "typing", "call", "calling", "sent"}
    /\ first \in Windows /\ basis \in Windows \cup {NoToken}
    /\ before \in Pixels /\ target \in 0..Span + 1
    /\ inserted \in 0..4 /\ held \subseteq {"button", "keys"}
    /\ complete \in BOOLEAN /\ injected \in BOOLEAN /\ warned \in BOOLEAN
    /\ result \in ErrorCodes \cup {"none", "ok"} /\ interference \in BOOLEAN
    /\ mutations \in 0..MaxMutations /\ events \in 0..MaxEvents

InputInit ==
    /\ cursor = 0 /\ foreground \in Windows /\ unlocked = TRUE /\ enabled = TRUE
    /\ backend \in {"win32", "mcp"} /\ usable = TRUE
    /\ view = NoView
    /\ op = [kind |-> "text", x |-> 0, space |-> "physical", token |-> NoToken,
             times |-> 1]
    /\ dpc = "idle" /\ first = foreground /\ basis = NoToken
    /\ before = 0 /\ target = 0 /\ inserted = 0
    /\ complete = FALSE /\ injected = FALSE /\ held = {}
    /\ result = "none" /\ warned = FALSE /\ interference = FALSE
    /\ mutations = 0 /\ events = 0
-----------------------------------------------------------------------------
(* The user (or what a click does to the windows), and the emergency stop. *)
Happens ==
    /\ events < MaxEvents
    /\ events' = events + 1
    /\ interference' = TRUE
    /\ UNCHANGED <<controllerVars, inserted, complete, injected, held, result,
                   warned, mutations>>

SwitchWindow == \E w \in Windows \ {foreground} :
    /\ Happens
    /\ foreground' = w
    /\ UNCHANGED <<cursor, unlocked, enabled>>

LockOrUnlock ==
    /\ Happens
    /\ unlocked' = ~unlocked
    /\ UNCHANGED <<cursor, foreground, enabled>>

MoveMouse == \E p \in Pixels \ {cursor} :
    /\ Happens
    /\ cursor' = p
    /\ UNCHANGED <<foreground, unlocked, enabled>>

StopInput ==
    /\ Happens
    /\ enabled /\ enabled' = FALSE
    /\ UNCHANGED <<cursor, foreground, unlocked>>

(* observe and remember_observation, of one monitor or another, or without *)
(* a screenshot.  The gate does not cover it.                              *)
Observe ==
    /\ view' \in {NoView} \cup {[token |-> foreground, left |-> m, width |-> Span - m] :
                                m \in 0..1}
    /\ interference' = (interference \/ dpc # "idle")
    /\ UNCHANGED <<desktopVars, backend, usable, op, dpc, first, basis, before,
                   target, inserted, complete, injected, held, result, warned,
                   mutations, events>>
-----------------------------------------------------------------------------
(* _validate: the desktop, the identity seen first, and the guard.         *)
Invalid(enforce) ==
    IF ~unlocked THEN "limitation"
    ELSE IF (enforce /\ foreground # first)
            \/ (op.token # NoToken /\ op.token # foreground)
         THEN "state_conflict" ELSE "ok"

(* boundary_check, right before every SendInput or call.                   *)
Boundary == IF enabled THEN Invalid(TRUE) ELSE "emergency_stop"

ProceedTo(to) ==
    /\ dpc' = to
    /\ UNCHANGED <<result, warned>>

(* _failure, or the result.                                                *)
Finish(code) ==
    /\ dpc' = "idle"
    /\ result' = code
    /\ warned' = (warned \/ code = "state_uncertain")

Check(code, to) == IF code = "ok" THEN ProceedTo(to) ELSE Finish(code)

KeepEffects == UNCHANGED <<inserted, complete, injected, held, interference,
                           mutations, events>>
KeepPlan == UNCHANGED <<backend, usable, view, op, first, basis, before, target>>

(* Would a caller who sees this desktop expect the request to work?        *)
Sound(r) ==
    /\ unlocked /\ enabled /\ usable
    /\ r.token \in {NoToken, foreground}
    /\ IF r.space = "observation" THEN r.token = view.token /\ r.x < view.width
       ELSE r.x < Span

(* The gate is entered, ...                                                *)
Begin(r) ==
    /\ dpc = "idle" /\ mutations < MaxMutations
    /\ mutations' = mutations + 1
    /\ op' = r
    /\ inserted' = 0 /\ complete' = FALSE /\ injected' = FALSE
    /\ interference' = ~Sound(r)
    /\ IF enabled THEN dpc' = "begin" /\ result' = "none" /\ UNCHANGED warned
       ELSE Finish("emergency_stop")
    /\ first' = foreground /\ basis' = NoToken
    /\ before' = 0 /\ target' = 0
    /\ UNCHANGED <<desktopVars, backend, usable, view, held, events>>

(* ... validate runs for the first time, and the marker is read again.     *)
FirstValidate ==
    /\ dpc = "begin"
    /\ first' = foreground
    /\ Check(IF Invalid(FALSE) # "ok" THEN Invalid(FALSE)
             ELSE IF enabled THEN "ok" ELSE "emergency_stop", "map")
    /\ UNCHANGED <<desktopVars, backend, usable, view, op, basis, before, target>>
    /\ KeepEffects

(* _map and _point: a point on the last screenshot needs its token.        *)
MapPoint ==
    /\ dpc = "map"
    /\ IF op.space = "observation"
          /\ (view = NoView \/ op.token # view.token \/ op.x >= view.width)
       THEN Finish("state_conflict") /\ UNCHANGED <<target, basis>>
       ELSE /\ ProceedTo("mapped")
            /\ target' = IF op.space = "observation" THEN view.left + op.x ELSE op.x
            /\ basis' = IF op.space = "observation" THEN view.token ELSE NoToken
    /\ UNCHANGED <<desktopVars, backend, usable, view, op, first, before>>
    /\ KeepEffects

SecondValidate ==
    /\ dpc = "mapped"
    /\ Check(Invalid(TRUE), "send")
    /\ UNCHANGED desktopVars /\ KeepPlan /\ KeepEffects

(* send of either backend; Windows-MCP leaves text to SendInput.           *)
Send ==
    /\ dpc = "send"
    /\ IF backend = "mcp" /\ ~usable THEN Finish("limitation")
       ELSE ProceedTo(IF backend = "mcp" /\ op.kind # "text" THEN "call"
                 ELSE IF op.kind \in PointerKinds THEN "aim" ELSE "keys")
    /\ before' = cursor
    /\ UNCHANGED <<desktopVars, backend, usable, view, op, first, basis, target>>
    /\ KeepEffects

(* GetCursorPos refuses, in _move_verified before anything was sent.       *)
NoCursor ==
    /\ dpc = "aim"
    /\ Finish("limitation")
    /\ interference' = TRUE
    /\ UNCHANGED <<desktopVars, inserted, complete, injected, held, mutations, events>>
    /\ KeepPlan
-----------------------------------------------------------------------------
(* Mutant: the quotient is rounded down.                                   *)
AbsoluteCoordinateDown(pixel) ==
    LET offset == IF pixel > Span - 1 THEN Span - 1 ELSE pixel
    IN  (offset * Scale) \div (Span - 1)

(* _absolute_coordinate: 0..65535, rounded up.                             *)
AbsoluteCoordinate(pixel) ==
    LET offset == IF pixel > Span - 1 THEN Span - 1 ELSE pixel
    IN  (offset * Scale + Span - 2) \div (Span - 1)

(* Where Windows puts the pointer.                                         *)
Landing(pixel) == (AbsoluteCoordinate(pixel) * (Span - 1)) \div Scale

CheckMove ==
    /\ dpc = "aim"
    /\ Check(Boundary, "aimed")
    /\ UNCHANGED desktopVars /\ KeepPlan /\ KeepEffects

InsertMove ==
    /\ dpc = "aimed"
    /\ \/ /\ ProceedTo("arrive")
          /\ cursor' = Landing(target)
          /\ injected' = TRUE
          /\ UNCHANGED interference
       \/ /\ Finish("limitation")
          /\ interference' = TRUE
          /\ UNCHANGED <<cursor, injected>>
    /\ UNCHANGED <<foreground, unlocked, enabled, inserted, complete, held,
                   mutations, events>>
    /\ KeepPlan

(* _wait_for_cursor, or GetCursorPos refuses: compensate.                  *)
Arrive ==
    /\ dpc = "arrive"
    /\ \/ /\ ProceedTo(IF cursor # target THEN "repair"
                  ELSE IF op.kind = "move" THEN "sent" ELSE "press")
          /\ UNCHANGED interference
       \/ ProceedTo("repair") /\ interference' = TRUE
    /\ UNCHANGED <<desktopVars, inserted, complete, injected, held, mutations, events>>
    /\ KeepPlan

CheckClick ==
    /\ dpc = "press"
    /\ ProceedTo(IF Boundary = "ok" THEN "pressed" ELSE "repair")
    /\ UNCHANGED desktopVars /\ KeepPlan /\ KeepEffects

(* SendInput takes any part of down, up, down, up.                         *)
InsertClick == \E n \in 0..2 * op.times :
    /\ dpc = "pressed"
    /\ inserted' = n
    /\ ProceedTo(IF n = 2 * op.times THEN "settle" ELSE "repair")
    /\ held' = IF n % 2 = 1 THEN held \cup {"button"}
               ELSE IF n > 0 THEN held \ {"button"} ELSE held
    /\ interference' = (interference \/ n < 2 * op.times)
    /\ UNCHANGED <<desktopVars, complete, injected, mutations, events>> /\ KeepPlan

Settle ==
    /\ dpc = "settle"
    /\ \/ ProceedTo(IF cursor = target THEN "sent" ELSE "repair") /\ UNCHANGED interference
       \/ ProceedTo("repair") /\ interference' = TRUE
    /\ UNCHANGED <<desktopVars, inserted, complete, injected, held, mutations, events>>
    /\ KeepPlan

(* _repair_failed_click and _compensate: another boundary check, ...       *)
CheckRepair ==
    /\ dpc = "repair"
    /\ IF Boundary = "ok" THEN ProceedTo("repairing") ELSE Finish("state_uncertain")
    /\ UNCHANGED desktopVars /\ KeepPlan /\ KeepEffects

(* Mutant: the pointer goes back, and nothing is released.                 *)
InsertRepairMove == \E n \in 0..1 :
    /\ dpc = "repairing"
    /\ complete' = (n = 1)
    /\ cursor' = IF n = 1 THEN Landing(before) ELSE cursor
    /\ interference' = TRUE
    /\ ProceedTo("verify")
    /\ UNCHANGED <<foreground, unlocked, enabled, inserted, injected, held,
                   mutations, events>>
    /\ KeepPlan

(* ... the button's release if it is down, and the way back, ...           *)
InsertRepair ==
    LET odd == inserted % 2 IN \E n \in 0..odd + 1 :
    /\ dpc = "repairing"
    /\ complete' = (n = odd + 1)
    /\ held' = IF odd = 1 /\ n > 0 THEN held \ {"button"} ELSE held
    /\ cursor' = IF n = odd + 1 THEN Landing(before) ELSE cursor
    /\ interference' = (interference \/ n < odd + 1)
    /\ ProceedTo("verify")
    /\ UNCHANGED <<foreground, unlocked, enabled, inserted, injected, mutations,
                   events>>
    /\ KeepPlan

(* ... and the look whether it worked.                                     *)
VerifyRepair ==
    /\ dpc = "verify"
    /\ \/ Finish(IF complete /\ cursor = before THEN "limitation" ELSE "state_uncertain")
       \/ Finish("state_uncertain")
    /\ UNCHANGED desktopVars /\ KeepPlan /\ KeepEffects
-----------------------------------------------------------------------------
CheckKeys ==
    /\ dpc = "keys"
    /\ Check(Boundary, "typing")
    /\ UNCHANGED desktopVars /\ KeepPlan /\ KeepEffects

KeyEvents == IF op.kind = "hotkey" THEN 4 ELSE 2 * op.times
KeysDown(n) == IF op.kind = "hotkey" THEN n \in 1..3 ELSE n % 2 = 1

(* A batch of keys; what is left of it is not repaired.                    *)
InsertKeys == \E n \in 0..KeyEvents :
    /\ dpc = "typing"
    /\ inserted' = n /\ injected' = (n > 0)
    /\ held' = IF KeysDown(n) THEN held \cup {"keys"}
               ELSE IF n > 0 THEN held \ {"keys"} ELSE held
    /\ interference' = (interference \/ n < KeyEvents)
    /\ IF n = KeyEvents THEN ProceedTo("sent")
       ELSE Finish(IF n = 0 THEN "limitation" ELSE "state_uncertain")
    /\ UNCHANGED <<desktopVars, complete, mutations, events>> /\ KeepPlan

(* _send_request: a press is one call for each time.                       *)
CheckCall ==
    /\ dpc = "call"
    /\ Check(Boundary, "calling")
    /\ UNCHANGED desktopVars /\ KeepPlan /\ KeepEffects

Calls == IF op.kind = "press" THEN op.times ELSE 1

CallAnswered ==
    /\ dpc = "calling"
    /\ injected' = TRUE
    /\ inserted' = inserted + 1
    /\ cursor' = IF op.kind \in PointerKinds THEN Landing(target) ELSE cursor
    /\ ProceedTo(IF inserted + 1 = Calls THEN "sent" ELSE "call")
    /\ UNCHANGED <<foreground, unlocked, enabled, complete, held, interference,
                   mutations, events>>
    /\ KeepPlan

(* Time-out, another answer, a dead child: done or not, the session is     *)
(* closed for good.                                                        *)
CallFails ==
    /\ dpc = "calling"
    /\ \/ injected' = TRUE
       \/ UNCHANGED injected
    /\ usable' = FALSE
    /\ interference' = TRUE
    /\ \/ Finish("limitation")
       \/ Finish("state_uncertain")
    /\ UNCHANGED <<desktopVars, inserted, complete, held, mutations, events>>
    /\ UNCHANGED <<backend, view, op, first, basis, before, target>>

(* validate after the backend has returned.                                *)
LastValidate ==
    /\ dpc = "sent"
    /\ Finish(IF Invalid(TRUE) = "state_conflict" THEN "state_uncertain"
              ELSE Invalid(TRUE))
    /\ UNCHANGED desktopVars /\ KeepPlan /\ KeepEffects

InputNext ==
    \/ SwitchWindow \/ LockOrUnlock \/ MoveMouse \/ StopInput \/ Observe
    \/ \E r \in Requests : Begin(r)
    \/ FirstValidate \/ MapPoint \/ SecondValidate \/ Send \/ NoCursor
    \/ CheckMove \/ InsertMove \/ Arrive \/ CheckClick \/ InsertClick \/ Settle
    \/ CheckRepair \/ InsertRepair \/ VerifyRepair
    \/ CheckKeys \/ InsertKeys
    \/ CheckCall \/ CallAnswered \/ CallFails
    \/ LastValidate
-----------------------------------------------------------------------------
(* When a mutation is over and a button or a key is still down, some       *)
(* result has said state_uncertain: every other answer comes with the      *)
(* button released, whatever SendInput took and the user did               *)
(* (_repair_failed_click, _compensate).                                    *)
HeldMeansUncertain == dpc = "idle" /\ held # {} => warned

(* state_conflict and emergency_stop say that the mutation has not touched *)
(* the desktop, so that it may be sent again ("a window switch after the   *)
(* input does not mean that it may be").  The later calls of a repeated    *)
(* press over Windows-MCP are excepted (mutate, boundary_check).           *)
Untouched == result \in {"state_conflict", "emergency_stop"} => ~injected
ConflictMeansUntouched == (backend = "mcp" /\ op.kind = "press") \/ Untouched

(* A sound request that nothing interferes with succeeds, as the absolute  *)
(* coordinate of a pixel leads to that pixel; a click that brings another  *)
(* window to the front counts as interference (_absolute_coordinate).      *)
UndisturbedSucceeds ==
    dpc = "idle" /\ result # "none" /\ ~interference => result = "ok"

=============================================================================
