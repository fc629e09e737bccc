---------------------------- MODULE PowerControl ---------------------------
(***************************************************************************)
(* A privileged tool call from the question put to the user to Windows:    *)
(* the approval gate, the dispatcher and the helper, composed.             *)
(***************************************************************************)
EXTENDS HelperExchange

CONSTANT Window     \* lifetime of an approval request

VARIABLES now, stage, req, records, answer, by, at   \* see ApprovalGate

gateVars == <<now, stage, req, records, answer, by, at>>
vars == <<gatewayVars, channelVars, helperVars, gateVars>>

Gate == INSTANCE ApprovalGate

ASSUME PowerAssumption == Gate!GateConstants

TypeOK == ChannelTypeOK /\ GatewayTypeOK /\ HelperTypeOK /\ Gate!TypeOK

Init == ChannelInit /\ GatewayInit /\ HelperInit /\ Gate!Init
-----------------------------------------------------------------------------
(* authorize answered with an error code.                                  *)
Unauthorized(c) ==
    /\ Answer(c, ErrorOutcome("approval_required"))
    /\ UNCHANGED <<call, abandoned, th, res, cx, lock, cache, current,
                   opened, active, response, channelVars>>

(* Mutant: the route does not depend on the approval.                      *)
RouteAlways(c) ==
    \/ Dispatch(c, req'[c].op, req'[c].payload, now')
    \/ DispatchUnavailable(c)

(* HelperRegistry.current: no helper, or none heard of for 15 s, which may *)
(* be at any time.                                                         *)
HelperUnavailable(c) == DispatchUnavailable(c)

(* dispatch, after authorize and without an await in between: _route and   *)
(* the start of _send.  The approval is used even if no helper is online.  *)
Route(c) ==
    \/ by'[c] = None /\ Unauthorized(c)
    \/ by'[c] # None /\ Dispatch(c, req'[c].op, req'[c].payload, now')
    \/ by'[c] # None /\ HelperUnavailable(c)

(* The tool coroutine waits for the user's answer.                         *)
Ask(c, q) ==
    /\ Gate!Elicit(c, q)
    /\ UNCHANGED <<gatewayVars, channelVars, helperVars>>

(* _dispatch once the coordinator has resolved, or with a supplied id.     *)
Answered(c) ==
    /\ \/ \E t \in 0..MaxTime : Gate!Accepted(c, t)
       \/ Gate!Declined(c)
       \/ Gate!Unanswered(c)
       \/ \E q \in Gate!Request, a \in Calls : Gate!Supplied(c, q, a)
    /\ Route(c)
    /\ UNCHANGED helperVars

Tick == Gate!Tick /\ UNCHANGED <<gatewayVars, channelVars, helperVars>>

GatewayStep ==
    \/ \E c \in Calls : \/ Timeout(c) \/ Present(c) \/ Lookup(c) \/ Store(c)
                        \/ HelperExchangeStep(c)
                        \/ CancelCheck(c) \/ HelperCancelWrite(c)
    \/ \E k \in Conns : HelperDeliver(k) \/ HelperReadFail(k)

HelperStep ==
    \E k \in Conns : \/ HelperConnect(k) \/ HelperRead(k) \/ HelperExecute(k)
                     \/ HelperRespond(k) \/ HelperEnd(k)

Next ==
    \/ \E c \in Calls : (\E q \in Gate!Request : Ask(c, q)) \/ Answered(c)
    \/ Tick
    \/ GatewayStep /\ UNCHANGED <<helperVars, gateVars>>
    \/ HelperStep /\ UNCHANGED gateVars

Spec == Init /\ [][Next]_vars
-----------------------------------------------------------------------------
(* Mutant: a call that was given up is not recorded.                       *)
AuditedAnswers(c) ==
    co[c] = "done" /\ outcome[c].code \notin {"raised", "abandoned"}

(* _present has recorded the event of call c, with its approval by[c]:     *)
(* always before the answer, and not at all if an exception escapes _send. *)
Audited(c) == co[c] = "done" /\ outcome[c].code # "raised"

Performed(c) == \E i \in DOMAIN performed : performed[i] = c

(* A consent of the abstract specification: the user said yes to the       *)
(* question of call c in time, and no power action came of it yet.  (The   *)
(* record itself is no witness: a consumed one that is named again after   *)
(* its expiry becomes expired.)                                            *)
Consents ==
    {<<c, records[c].payload>> : c \in {d \in Calls :
        answer[d] = "yes" /\ (\E e \in Calls : by[e] = d) /\ ~Performed(d)}}

Abstract == INSTANCE ConsentedPower WITH
    Asks <- Calls, Actions <- Payloads, consents <- Consents,
    performed <- [i \in DOMAIN performed |->
                    <<performed[i], call[performed[i]].payload>>]

(* Every reboot and shutdown Windows is asked for is the one use of one    *)
(* consent to that tool and those arguments: across time-outs, cancels,    *)
(* retries under the same operation id, and helper sessions that break at  *)
(* any step (authorize, _send, HelperSession._dispatch).                   *)
ConsentedPowerSpec == Abstract!Spec

(* The approval gate's own promises hold where its approvals are spent.    *)
(* An approval authorizes one dispatch (consume).                          *)
OneShot == Gate!OneShot

(* It is spent on what the user saw, in time, by the call that asked       *)
(* (request, decide, authorize).                                           *)
ConsentIsOwn == Gate!ConsentIsOwn

(* "ok" is answered only if Windows has accepted a power action requested  *)
(* under this operation id, also when the answer is a replay, or the late  *)
(* answer to an abandoned call (_send, IdempotencyStore.execute, deliver). *)
OkMeansPerformed ==
    \A c \in Calls : outcome[c] # None /\ outcome[c].code = "ok" =>
        \E d \in Calls : /\ Performed(d)
                         /\ outcome[c].resp.by = d
                         /\ call[d].op = call[c].op

(* Whatever Windows did is in the audit trail under the consent it used,   *)
(* once the caller has its answer or was given up: the errors that skip    *)
(* _present (a conflict, a pywin32 error of the write) come to nobody      *)
(* whose action was performed (_send, _error, AuditRecorder.record).       *)
AuditedPower ==
    \A c \in Calls : Performed(c) /\ co[c] = "done" => Audited(c)
=============================================================================
