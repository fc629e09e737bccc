------------------------- MODULE ApprovalGateProofs ------------------------
(***************************************************************************)
(* Proofs about ApprovalGate for every set of calls and payloads, any      *)
(* approval window and any clock.                                          *)
(***************************************************************************)
EXTENDS ApprovalGate, TLAPS

(* The approval of call c, between the steps of the coroutines: it is      *)
(* never left approved, it is bound to the request of its call while the   *)
(* user is asked, and it is used, if at all, by its own call.              *)
CallInv(c) ==
    /\ records[c] # None => records[c] \in Record /\ records[c].state # "approved"
    /\ stage[c] = "idle" => by[c] = None /\ records[c] = None
    /\ stage[c] = "eliciting" =>
         /\ records[c] \in Record /\ req[c] \in Request /\ by[c] = None
         /\ records[c].op = req[c].op /\ records[c].payload = req[c].payload
    /\ by[c] # None =>
         /\ by[c] = c /\ answer[c] = "yes" /\ records[c] \in Record
         /\ records[c].op = req[c].op /\ records[c].payload = req[c].payload
         /\ at[c] < records[c].expires

GateInv == TypeOK /\ \A c \in Calls : CallInv(c)

LEMMA InitGateInv == ASSUME GateConstants PROVE Init => GateInv
  BY DEF GateConstants, Init, GateInv, TypeOK, CallInv

(* A record changes its state and nothing else.                            *)
LEMMA StateUpdate ==
  ASSUME NEW r \in Record, NEW s \in ApprovalStates
  PROVE  /\ [r EXCEPT !.state = s] \in Record
         /\ [r EXCEPT !.state = s].state = s
         /\ [r EXCEPT !.state = s].op = r.op
         /\ [r EXCEPT !.state = s].payload = r.payload
         /\ [r EXCEPT !.state = s].expires = r.expires
  BY DEF Record

LEMMA NextGateInv == ASSUME GateConstants PROVE GateInv /\ [Next]_vars => GateInv'
<1> SUFFICES ASSUME GateInv, [Next]_vars PROVE GateInv'
  OBVIOUS
<1>0. TypeOK /\ \A c \in Calls : CallInv(c)
  BY DEF GateInv
<1>1. ASSUME NEW c \in Calls, NEW q \in Request, Elicit(c, q) PROVE GateInv'
  <2> DEFINE r == [op |-> q.op, payload |-> q.payload, expires |-> now + Window,
                   state |-> "pending"]
  <2>1. r \in Record /\ r.state = "pending" /\ r.op = q.op /\ r.payload = q.payload
    BY <1>0 DEF GateConstants, Record, Request, ApprovalStates, TypeOK
  <2>2. /\ records' = [records EXCEPT ![c] = r] /\ req' = [req EXCEPT ![c] = q]
        /\ stage' = [stage EXCEPT ![c] = "eliciting"] /\ stage[c] = "idle"
        /\ UNCHANGED <<now, answer, by, at>>
    BY <1>1 DEF Elicit
  <2> HIDE DEF r
  <2>3. TypeOK'
    BY <1>0, <2>1, <2>2 DEF TypeOK
  <2>4. ASSUME NEW d \in Calls PROVE CallInv(d)'
    <3>1. CASE d = c
      BY <1>0, <2>1, <2>2, <3>1 DEF TypeOK, CallInv
    <3>2. CASE d # c
      BY <1>0, <2>2, <3>2 DEF TypeOK, CallInv
    <3> QED
      BY <3>1, <3>2
  <2> QED
    BY <2>3, <2>4 DEF GateInv
<1>2. ASSUME NEW c \in Calls, NEW t \in 0..MaxTime, Accepted(c, t) PROVE GateInv'
  <2> DEFINE s == IF now >= records[c].expires \/ t >= records[c].expires
                  THEN "expired" ELSE "consumed"
             r == [records[c] EXCEPT !.state = s]
  <2>0. /\ records[c] \in Record /\ req[c] \in Request /\ by[c] = None
        /\ records[c].op = req[c].op /\ records[c].payload = req[c].payload
        /\ records[c].expires \in Nat /\ now \in Nat /\ t \in Nat /\ t >= now
    BY <1>0, <1>2 DEF Accepted, CallInv, Record, TypeOK
  <2>1. /\ r \in Record /\ r.state = s /\ r.op = records[c].op
        /\ r.payload = records[c].payload /\ r.expires = records[c].expires
    <3>1. s \in ApprovalStates
      BY DEF ApprovalStates
    <3> HIDE DEF s
    <3> QED
      BY <2>0, <3>1, StateUpdate
  <2>2. /\ records' = [records EXCEPT ![c] = r]
        /\ stage' = [stage EXCEPT ![c] = "done"] /\ answer' = [answer EXCEPT ![c] = "yes"]
        /\ now' = t /\ UNCHANGED req
    BY <1>2, <2>0 DEF Accepted, Authorize, Refuse, Decided, AfterConsume, Consumable
  <2>3. \/ s = "expired" /\ by'[c] = None /\ (\A d \in Calls \ {c} : by'[d] = by[d] /\ at'[d] = at[d])
             /\ by' \in [Calls -> Calls \cup {None}] /\ at' \in [Calls -> Nat \cup {None}]
        \/ s = "consumed" /\ by' = [by EXCEPT ![c] = c] /\ at' = [at EXCEPT ![c] = t]
             /\ t < records[c].expires
    BY <1>0, <1>2, <2>0 DEF Accepted, Authorize, Refuse, Decided, AfterConsume, Consumable, TypeOK
  <2> HIDE DEF r, s
  <2>4. TypeOK'
    <3>1. by' \in [Calls -> Calls \cup {None}] /\ at' \in [Calls -> Nat \cup {None}]
      BY <1>0, <2>0, <2>3 DEF TypeOK
    <3> QED
      BY <1>0, <2>0, <2>1, <2>2, <3>1 DEF TypeOK
  <2>5. ASSUME NEW d \in Calls PROVE CallInv(d)'
    <3>1. CASE d = c
      <4>1. /\ records'[c] = r /\ stage'[c] = "done" /\ answer'[c] = "yes" /\ req'[c] = req[c]
            /\ s # "approved"
        BY <1>0, <2>2, <2>3 DEF TypeOK
      <4>2. by'[c] = None \/ (by'[c] = c /\ at'[c] = t /\ t < records[c].expires)
        BY <1>0, <2>3 DEF TypeOK
      <4> QED
        BY <2>0, <2>1, <3>1, <4>1, <4>2 DEF CallInv
    <3>2. CASE d # c
      <4>1. /\ records'[d] = records[d] /\ stage'[d] = stage[d] /\ answer'[d] = answer[d]
            /\ req'[d] = req[d]
        BY <1>0, <2>2, <3>2 DEF TypeOK
      <4>2. by'[d] = by[d] /\ at'[d] = at[d]
        BY <1>0, <2>3, <3>2 DEF TypeOK
      <4>3. CallInv(d)
        BY <1>0
      <4> QED
        BY <4>1, <4>2, <4>3 DEF CallInv
    <3> QED
      BY <3>1, <3>2
  <2> QED
    BY <2>4, <2>5 DEF GateInv
<1>3. ASSUME NEW c \in Calls, Declined(c) PROVE GateInv'
  <2> DEFINE s == Decided(records[c], FALSE, now)
             r == [records[c] EXCEPT !.state = s]
  <2>0. records[c] \in Record /\ req[c] \in Request /\ by[c] = None
    BY <1>0, <1>3 DEF Declined, CallInv
  <2>1. s \in {"expired", "denied"} /\ s \in ApprovalStates
    BY DEF Decided, ApprovalStates
  <2>2. r \in Record /\ r.state = s
    BY <2>0, <2>1, StateUpdate
  <2>3. /\ records' = [records EXCEPT ![c] = r] /\ stage' = [stage EXCEPT ![c] = "done"]
        /\ answer' = [answer EXCEPT ![c] = "no"] /\ UNCHANGED <<now, req, by, at>>
    BY <1>3 DEF Declined, Refuse
  <2> HIDE DEF r, s
  <2>4. TypeOK'
    BY <1>0, <2>2, <2>3 DEF TypeOK
  <2>5. ASSUME NEW d \in Calls PROVE CallInv(d)'
    <3>1. CASE d = c
      BY <1>0, <2>0, <2>1, <2>2, <2>3, <3>1 DEF TypeOK, CallInv
    <3>2. CASE d # c
      BY <1>0, <2>3, <3>2 DEF TypeOK, CallInv
    <3> QED
      BY <3>1, <3>2
  <2> QED
    BY <2>4, <2>5 DEF GateInv
<1>4. ASSUME NEW c \in Calls, Unanswered(c) PROVE GateInv'
  <2>1. TypeOK'
    BY <1>0, <1>4 DEF Unanswered, Refuse, TypeOK
  <2>2. ASSUME NEW d \in Calls PROVE CallInv(d)'
    BY <1>0, <1>4 DEF Unanswered, Refuse, TypeOK, CallInv
  <2> QED
    BY <2>1, <2>2 DEF GateInv
<1>5. ASSUME NEW c \in Calls, NEW q \in Request, NEW a \in Calls, Supplied(c, q, a)
      PROVE  GateInv'
  <2>1. CASE records[a] = None
    <3>1. /\ req' = [req EXCEPT ![c] = q] /\ stage' = [stage EXCEPT ![c] = "done"]
          /\ UNCHANGED <<now, records, answer, by, at>> /\ stage[c] = "idle"
      BY <1>5, <2>1 DEF Supplied, Refuse
    <3>2. TypeOK'
      BY <1>0, <3>1 DEF TypeOK
    <3>3. ASSUME NEW d \in Calls PROVE CallInv(d)'
      BY <1>0, <3>1 DEF TypeOK, CallInv
    <3> QED
      BY <3>2, <3>3 DEF GateInv
  <2>2. CASE records[a] # None
    <3> DEFINE s == AfterConsume(a, records[a].state, q, now)
               r == [records[a] EXCEPT !.state = s]
    <3>0. /\ records[a] \in Record /\ records[a].state # "approved" /\ stage[c] = "idle"
          /\ records[a].state \in ApprovalStates
      BY <1>0, <1>5, <2>2 DEF Supplied, CallInv, Record
    <3>1. ~Consumable(a, records[a].state, q, now)
      BY <3>0 DEF Consumable
    <3>2. s \in ApprovalStates /\ s # "approved"
      BY <3>0, <3>1 DEF AfterConsume, ApprovalStates
    <3>3. /\ r \in Record /\ r.state = s /\ r.op = records[a].op
          /\ r.payload = records[a].payload /\ r.expires = records[a].expires
      BY <3>0, <3>2, StateUpdate
    <3>4. /\ records' = [records EXCEPT ![a] = r] /\ stage' = [stage EXCEPT ![c] = "done"]
          /\ req' = [req EXCEPT ![c] = q] /\ UNCHANGED <<now, answer>>
          /\ by' = [by EXCEPT ![c] = None] /\ at' = [at EXCEPT ![c] = None]
      BY <1>5, <2>2, <3>1 DEF Supplied, Authorize
    <3> HIDE DEF r, s
    <3>5. TypeOK'
      BY <1>0, <3>3, <3>4 DEF TypeOK
    <3>6. ASSUME NEW d \in Calls PROVE CallInv(d)'
      <4>1. records'[d] = IF d = a THEN r ELSE records[d]
        BY <1>0, <3>4 DEF TypeOK
      <4>2. CASE d = c
        BY <1>0, <3>0, <3>2, <3>3, <3>4, <4>1, <4>2 DEF TypeOK, CallInv
      <4>3. CASE d # c
        <5>1. /\ stage'[d] = stage[d] /\ by'[d] = by[d] /\ at'[d] = at[d]
              /\ req'[d] = req[d] /\ answer'[d] = answer[d]
          BY <1>0, <3>4, <4>3 DEF TypeOK
        <5>2. CallInv(d)
          BY <1>0
        <5>3. CASE d = a
          <6>1. /\ records'[d] \in Record /\ records'[d].state # "approved"
                /\ records'[d].op = records[d].op /\ records[d] \in Record
                /\ records'[d].payload = records[d].payload
                /\ records'[d].expires = records[d].expires /\ records[d] # None
            BY <2>2, <3>0, <3>2, <3>3, <4>1, <5>3
          <6> QED
            BY <5>1, <5>2, <6>1 DEF CallInv
        <5>4. CASE d # a
          BY <4>1, <5>1, <5>2, <5>4 DEF CallInv
        <5> QED
          BY <5>3, <5>4
      <4> QED
        BY <4>2, <4>3
    <3> QED
      BY <3>5, <3>6 DEF GateInv
  <2> QED
    BY <2>1, <2>2
<1>6. CASE Tick
  <2>1. /\ now < MaxTime /\ now' = now + 1
        /\ UNCHANGED <<stage, req, records, answer, by, at>>
    BY <1>6 DEF Tick
  <2>2. now' \in 0..MaxTime
    BY <1>0, <2>1 DEF GateConstants, TypeOK
  <2>3. TypeOK'
    BY <1>0, <2>1, <2>2 DEF TypeOK
  <2>4. ASSUME NEW d \in Calls PROVE CallInv(d)'
    <3>1. CallInv(d)
      BY <1>0
    <3> QED
      BY <2>1, <3>1 DEF CallInv
  <2> QED
    BY <2>3, <2>4 DEF GateInv
<1>7. CASE UNCHANGED vars
  BY <1>0, <1>7 DEF vars, GateInv, TypeOK, CallInv
<1> QED
  BY <1>1, <1>2, <1>3, <1>4, <1>5, <1>6, <1>7 DEF Next

(* No approval authorizes two dispatches.                                  *)
THEOREM ApprovalOneShot == ASSUME GateConstants PROVE Spec => []OneShot
<1>1. Init => GateInv
  BY InitGateInv
<1>2. GateInv /\ [Next]_vars => GateInv'
  BY NextGateInv
<1>3. GateInv => OneShot
  BY DEF GateInv, CallInv, OneShot
<1> QED
  BY <1>1, <1>2, <1>3, PTL DEF Spec

(* What is dispatched was shown to the user and accepted in time, and the  *)
(* approval is used by the call whose user was asked or by none.           *)
THEOREM ApprovalIsOwn == ASSUME GateConstants PROVE Spec => []ConsentIsOwn
<1>1. Init => GateInv
  BY InitGateInv
<1>2. GateInv /\ [Next]_vars => GateInv'
  BY NextGateInv
<1>3. GateInv => FrozenConsent
  BY DEF GateInv, CallInv, FrozenConsent
<1>4. GateInv => OnlyOwnApproval
  BY DEF GateInv, CallInv, OnlyOwnApproval
<1>5. GateInv => ConsentIsOwn
  BY <1>3, <1>4 DEF ConsentIsOwn
<1> QED
  BY <1>1, <1>2, <1>5, PTL DEF Spec
=============================================================================
