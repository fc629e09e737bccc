---------------------------- MODULE ApprovalGate ---------------------------
(***************************************************************************)
(* The approval a privileged tool call needs before it is dispatched:      *)
(* ApprovalManager (request, decide, consume), ApprovalCoordinator.resolve *)
(* over an elicitation surface, and the authorize step of                  *)
(* GatewayDispatcher.dispatch.  Everything runs on one event loop, so a    *)
(* coroutine is interleaved with the others only where it awaits the       *)
(* surface; the wall clock may move at any point.                          *)
(*                                                                         *)
(* A payload stands for the tool name and the canonical arguments.  The    *)
(* approval a call asks for is named after the call (a fresh uuid4).       *)
(***************************************************************************)
EXTENDS Naturals

CONSTANTS
    Calls,      \* privileged tools/call requests
    Ops,        \* operation ids chosen by the client
    Payloads,   \* tool name and canonical payload
    Window,     \* time from a request to its expiry (5 minutes)
    MaxTime,    \* bound: last wall clock value
    None

(* What a theorem assumes of the constants; a module that instantiates     *)
(* this one assumes it of its own.                                         *)
GateConstants ==
    /\ Window \in Nat \ {0}
    /\ MaxTime \in Nat
    /\ None \notin Calls \cup Ops \cup Payloads \cup Nat

VARIABLES
    now,        \* datetime.now(UTC)
    stage,      \* [Calls -> progress of the tool coroutine]
    req,        \* [Calls -> operation id and payload of the call]
    records,    \* ApprovalManager._records
    answer,     \* [Calls -> what the user answered to the call's elicitation]
    by,         \* [Calls -> approval that authorized the dispatch of the call]
    at          \* [Calls -> requested_at of that dispatch]

vars == <<now, stage, req, records, answer, by, at>>

ApprovalStates == {"pending", "approved", "denied", "consumed", "expired"}
Request == [op : Ops, payload : Payloads]
Record  == [op : Ops, payload : Payloads, expires : Nat, state : ApprovalStates]

TypeOK ==
    /\ now \in 0..MaxTime
    /\ stage \in [Calls -> {"idle", "eliciting", "done"}]
    /\ req \in [Calls -> Request \cup {None}]
    /\ records \in [Calls -> Record \cup {None}]
    /\ answer \in [Calls -> {"yes", "no", None}]
    /\ by \in [Calls -> Calls \cup {None}]
    /\ at \in [Calls -> Nat \cup {None}]

Init ==
    /\ now = 0
    /\ stage = [c \in Calls |-> "idle"]
    /\ req = [c \in Calls |-> None]
    /\ records = [c \in Calls |-> None]
    /\ answer = [c \in Calls |-> None]
    /\ by = [c \in Calls |-> None]
    /\ at = [c \in Calls |-> None]
-----------------------------------------------------------------------------

(* decide: the state a pending record gets at time t.                      *)
Decided(r, approved, t) ==
    IF t >= r.expires THEN "expired" ELSE IF approved THEN "approved" ELSE "denied"

(* Mutant: a pending record will do.                                       *)
ConsumablePending(a, s, q, t) ==
    /\ t < records[a].expires
    /\ records[a].op = q.op
    /\ records[a].payload = q.payload
    /\ s \in {"approved", "pending"}

(* consume, of approval a in state s by a call that asks q at time t: the  *)
(* attempt that succeeds, and the state it leaves.                         *)
Consumable(a, s, q, t) ==
    /\ t < records[a].expires
    /\ records[a].op = q.op
    /\ records[a].payload = q.payload
    /\ s = "approved"
(* Mutant: a consumed approval stays approved.                             *)
AfterConsumeKept(a, s, q, t) == IF t >= records[a].expires THEN "expired" ELSE s
AfterConsume(a, s, q, t) ==
    IF t >= records[a].expires THEN "expired"
    ELSE IF Consumable(a, s, q, t) THEN "consumed" ELSE s

(* authorize, of call c with approval a whose state is s, at time t.       *)
Authorize(c, a, s, q, t) ==
    /\ now' = t
    /\ stage' = [stage EXCEPT ![c] = "done"]
    /\ records' = [records EXCEPT ![a].state = AfterConsume(a, s, q, t)]
    /\ by' = [by EXCEPT ![c] = IF Consumable(a, s, q, t) THEN a ELSE None]
    /\ at' = [at EXCEPT ![c] = IF Consumable(a, s, q, t) THEN t ELSE None]

(* The call is dispatched without an approval: "approval_required".        *)
Refuse(c) ==
    /\ stage' = [stage EXCEPT ![c] = "done"]
    /\ UNCHANGED <<by, at>>

(* _dispatch of a call without approval_id: request freezes the payload,   *)
(* and the coroutine waits for the surface.                                *)
Elicit(c, q) ==
    /\ stage[c] = "idle"
    /\ stage' = [stage EXCEPT ![c] = "eliciting"]
    /\ req' = [req EXCEPT ![c] = q]
    /\ records' = [records EXCEPT ![c] =
                     [op |-> q.op, payload |-> q.payload,
                      expires |-> now + Window, state |-> "pending"]]
    /\ UNCHANGED <<now, answer, by, at>>

(* The user accepts, the decision is recorded and the call dispatched, all *)
(* before another coroutine runs; t is the clock when dispatch starts.     *)
(* (A record that is no longer pending here has expired.)                  *)
Accepted(c, t) ==
    /\ stage[c] = "eliciting"
    /\ t >= now
    /\ answer' = [answer EXCEPT ![c] = "yes"]
    /\ LET s == Decided(records[c], TRUE, now) IN
       \/ /\ s = "approved"
          /\ Authorize(c, c, s, req[c], t)
       \/ /\ s = "expired"
          /\ records' = [records EXCEPT ![c].state = s]
          /\ now' = t
          /\ Refuse(c)
    /\ UNCHANGED req

(* The user declines or cancels, or no surface can be reached.             *)
Declined(c) ==
    /\ stage[c] = "eliciting"
    /\ answer' = [answer EXCEPT ![c] = "no"]
    /\ records' = [records EXCEPT ![c].state = Decided(records[c], FALSE, now)]
    /\ Refuse(c)
    /\ UNCHANGED <<now, req>>

(* fail_after, or the caller, ends the wait: the record stays pending.     *)
Unanswered(c) ==
    /\ stage[c] = "eliciting"
    /\ Refuse(c)
    /\ UNCHANGED <<now, req, records, answer>>

(* dispatch of a call for which the client names an approval itself.       *)
Supplied(c, q, a) ==
    /\ stage[c] = "idle"
    /\ req' = [req EXCEPT ![c] = q]
    /\ \/ /\ records[a] = None
          /\ Refuse(c)
          /\ UNCHANGED <<now, records>>
       \/ /\ records[a] # None
          /\ Authorize(c, a, records[a].state, q, now)
    /\ UNCHANGED answer

Tick ==
    /\ now < MaxTime
    /\ now' = now + 1
    /\ UNCHANGED <<stage, req, records, answer, by, at>>

Next ==
    \/ \E c \in Calls :
         \/ \E q \in Request : Elicit(c, q)
         \/ \E t \in 0..MaxTime : Accepted(c, t)
         \/ Declined(c)
         \/ Unanswered(c)
         \/ \E q \in Request, a \in Calls : Supplied(c, q, a)
    \/ Tick

Spec == Init /\ [][Next]_vars
-----------------------------------------------------------------------------
(* An approval authorizes the dispatch of at most one call, however many   *)
(* calls name it, and when (consume).                                      *)
OneShot ==
    \A c, d \in Calls : by[c] # None /\ by[c] = by[d] => c = d

(* What is dispatched is what the user was shown and accepted, within its  *)
(* window: a changed operation or payload, an unanswered, declined or      *)
(* expired request authorizes nothing (request, decide, consume).          *)
FrozenConsent ==
    \A c \in Calls : by[c] # None =>
        /\ answer[by[c]] = "yes"
        /\ records[by[c]].op = req[c].op
        /\ records[by[c]].payload = req[c].payload
        /\ at[c] < records[by[c]].expires

(* A client cannot authorize a call by naming an approval: one is only     *)
(* ever used by the call whose user was asked (no approved record outlives *)
(* the step that approves it).                                             *)
OnlyOwnApproval == \A c \in Calls : by[c] # None => by[c] = c

(* A consent is worth what the user saw and no more: neither a changed     *)
(* call, nor a late one, nor one that names somebody else's approval is    *)
(* dispatched with it (request, decide, consume, authorize).               *)
ConsentIsOwn == FrozenConsent /\ OnlyOwnApproval
=============================================================================
