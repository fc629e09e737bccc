------------------------- MODULE PowerControlProofs ------------------------
(***************************************************************************)
(* The approval gate's theorems carried over to the composition with the   *)
(* dispatcher and the helper, for every value of the constants.            *)
(***************************************************************************)
EXTENDS PowerControl, GatewayDispatchProofs

GateProofs == INSTANCE ApprovalGateProofs

(* A step of the composition is a step of the gate or leaves it alone.     *)
LEMMA GateStep == [Next]_vars => [Gate!Next]_(Gate!vars)
<1> SUFFICES ASSUME [Next]_vars PROVE [Gate!Next]_(Gate!vars)
  OBVIOUS
<1>1. ASSUME NEW c \in Calls, NEW q \in Gate!Request, Ask(c, q)
      PROVE  Gate!Next
  BY <1>1 DEF Ask, Gate!Next
<1>2. ASSUME NEW c \in Calls, Answered(c)
      PROVE  Gate!Next
  BY <1>2 DEF Answered, Gate!Next
<1>3. CASE Tick
  BY <1>3 DEF Tick, Gate!Next
<1>4. CASE UNCHANGED gateVars
  BY <1>4 DEF gateVars, Gate!vars
<1>5. CASE UNCHANGED vars
  BY <1>5 DEF vars, gateVars, Gate!vars
<1> QED
  BY <1>1, <1>2, <1>3, <1>4, <1>5 DEF Next, gateVars, helperVars

(* The composition implements the gate.                                    *)
THEOREM GateImplemented == Spec => Gate!Spec
<1>1. Init => Gate!Init
  BY DEF Init
<1> QED
  BY <1>1, GateStep, PTL DEF Spec, Gate!Spec

(* The module of the gate and the one of its proofs define the same gate.  *)
LEMMA SameGate ==
  /\ Gate!GateConstants <=> GateProofs!GateConstants
  /\ Gate!Init <=> GateProofs!Init
  /\ [Gate!Next]_(Gate!vars) <=> [GateProofs!Next]_(GateProofs!vars)
<1>1. Gate!GateConstants <=> GateProofs!GateConstants
  BY DEF Gate!GateConstants, GateProofs!GateConstants
<1>2. Gate!Init <=> GateProofs!Init
  BY DEF Gate!Init, GateProofs!Init
<1>3. [Gate!Next]_(Gate!vars) <=> [GateProofs!Next]_(GateProofs!vars)
  BY DEF Gate!Next, GateProofs!Next, Gate!vars, GateProofs!vars, Gate!Elicit,
      GateProofs!Elicit, Gate!Accepted, GateProofs!Accepted, Gate!Declined,
      GateProofs!Declined, Gate!Unanswered, GateProofs!Unanswered,
      Gate!Supplied, GateProofs!Supplied, Gate!Tick, GateProofs!Tick,
      Gate!Refuse, GateProofs!Refuse, Gate!Authorize, GateProofs!Authorize,
      Gate!Consumable, GateProofs!Consumable, Gate!AfterConsume,
      GateProofs!AfterConsume, Gate!Decided, GateProofs!Decided,
      Gate!Request, GateProofs!Request
<1> QED
  BY <1>1, <1>2, <1>3

(* What the gate keeps true, the composition keeps true.                   *)
LEMMA GateInvariant == Spec => []GateProofs!GateInv
<1>1. Init => GateProofs!GateInv
  BY PowerAssumption, SameGate, GateProofs!InitGateInv DEF Init
<1>2. GateProofs!GateInv /\ [Next]_vars => GateProofs!GateInv'
  BY PowerAssumption, SameGate, GateStep, GateProofs!NextGateInv
<1> QED
  BY <1>1, <1>2, PTL DEF Spec

(* No approval authorizes two dispatches to the helper (consume).          *)
THEOREM PowerOneShot == Spec => []OneShot
<1>1. GateProofs!GateInv => OneShot
  BY DEF GateProofs!GateInv, GateProofs!CallInv, OneShot, Gate!OneShot
<1> QED
  BY <1>1, GateInvariant, PTL

(* What is dispatched to the helper was shown to the user and accepted in  *)
(* time, by the call whose user was asked (request, decide, authorize).    *)
THEOREM PowerIsOwn == Spec => []ConsentIsOwn
<1>1. GateProofs!GateInv => Gate!FrozenConsent
  BY DEF GateProofs!GateInv, GateProofs!CallInv, Gate!FrozenConsent
<1>2. GateProofs!GateInv => Gate!OnlyOwnApproval
  BY DEF GateProofs!GateInv, GateProofs!CallInv, Gate!OnlyOwnApproval
<1>3. GateProofs!GateInv => ConsentIsOwn
  BY <1>1, <1>2 DEF ConsentIsOwn, Gate!ConsentIsOwn
<1> QED
  BY <1>3, GateInvariant, PTL
-----------------------------------------------------------------------------
(* What the gate tells the rest about its calls.                           *)
LEMMA GateFacts ==
  ASSUME GateProofs!GateInv
  PROVE  /\ now \in 0..MaxTime
         /\ by \in [Calls -> Calls \cup {None}]
         /\ \A c \in Calls : by[c] # None =>
              /\ stage[c] = "done" /\ by[c] = c /\ answer[c] = "yes"
              /\ req[c].op \in Ops /\ req[c].payload \in Payloads
              /\ records[c].payload = req[c].payload
  BY PowerAssumption DEF GateProofs!GateInv, GateProofs!TypeOK, GateProofs!CallInv,
     GateProofs!Record, Gate!GateConstants

(* A coroutine that has asked the dispatcher is done with the gate.        *)
LEMMA GateStable ==
  ASSUME GateProofs!GateInv, [Next]_vars, NEW c \in Calls, stage[c] = "done"
  PROVE  stage'[c] = "done" /\ by'[c] = by[c] /\ req'[c] = req[c]
<1>0. /\ stage \in [Calls -> {"idle", "eliciting", "done"}]
      /\ req \in [Calls -> Gate!Request \cup {None}]
      /\ by \in [Calls -> Calls \cup {None}]
  BY DEF GateProofs!GateInv, GateProofs!TypeOK, GateProofs!Request, Gate!Request
<1>1. ASSUME NEW d \in Calls, NEW q \in Gate!Request, Gate!Elicit(d, q)
      PROVE  stage'[c] = "done" /\ by'[c] = by[c] /\ req'[c] = req[c]
  BY <1>0, <1>1 DEF Gate!Elicit
<1>2. ASSUME NEW d \in Calls, NEW t \in 0..MaxTime, Gate!Accepted(d, t)
      PROVE  stage'[c] = "done" /\ by'[c] = by[c] /\ req'[c] = req[c]
  BY <1>0, <1>2 DEF Gate!Accepted, Gate!Authorize, Gate!Refuse
<1>3. ASSUME NEW d \in Calls, Gate!Declined(d) \/ Gate!Unanswered(d)
      PROVE  stage'[c] = "done" /\ by'[c] = by[c] /\ req'[c] = req[c]
  BY <1>0, <1>3 DEF Gate!Declined, Gate!Unanswered, Gate!Refuse
<1>4. ASSUME NEW d \in Calls, NEW q \in Gate!Request, NEW a \in Calls, Gate!Supplied(d, q, a)
      PROVE  stage'[c] = "done" /\ by'[c] = by[c] /\ req'[c] = req[c]
  BY <1>0, <1>4 DEF Gate!Supplied, Gate!Authorize, Gate!Refuse
<1>5. ASSUME Gate!Tick \/ UNCHANGED Gate!vars
      PROVE  stage'[c] = "done" /\ by'[c] = by[c] /\ req'[c] = req[c]
  BY <1>5 DEF Gate!Tick, Gate!vars
<1> QED
  BY <1>1, <1>2, <1>3, <1>4, <1>5, GateStep DEF Gate!Next

(* The one call a step of the gate is about.                               *)
LEMMA GateAnswers ==
  ASSUME GateProofs!GateInv, NEW c \in Calls, Answered(c)
  PROVE  /\ stage[c] # "done" /\ stage'[c] = "done" /\ by[c] = None
         /\ \A d \in Calls \ {c} : stage'[d] = stage[d] /\ by'[d] = by[d] /\ req'[d] = req[d]
<1>0. /\ stage \in [Calls -> {"idle", "eliciting", "done"}]
      /\ req \in [Calls -> Gate!Request \cup {None}]
      /\ by \in [Calls -> Calls \cup {None}]
  BY DEF GateProofs!GateInv, GateProofs!TypeOK, GateProofs!Request, Gate!Request
<1>a. stage[c] # "done" => by[c] = None
  BY GateFacts
<1> DEFINE Goal == /\ stage[c] # "done" /\ stage'[c] = "done"
                   /\ \A d \in Calls \ {c} :
                        stage'[d] = stage[d] /\ by'[d] = by[d] /\ req'[d] = req[d]
<1>1. ASSUME NEW t \in 0..MaxTime, Gate!Accepted(c, t) PROVE Goal
  BY <1>0, <1>1 DEF Gate!Accepted, Gate!Authorize, Gate!Refuse
<1>2. ASSUME Gate!Declined(c) \/ Gate!Unanswered(c) PROVE Goal
  BY <1>0, <1>2 DEF Gate!Declined, Gate!Unanswered, Gate!Refuse
<1>3. ASSUME NEW q \in Gate!Request, NEW a \in Calls, Gate!Supplied(c, q, a) PROVE Goal
  BY <1>0, <1>3 DEF Gate!Supplied, Gate!Authorize, Gate!Refuse
<1>4. Goal
  BY <1>1, <1>2, <1>3 DEF Answered
<1> QED
  BY <1>a, <1>4
-----------------------------------------------------------------------------
(* The helper has read a request it works on.                              *)
BusyHasCall == \A k \in Conns : phase[k] # "read" => busy[k] \in Calls

PowerTypes == DispatchTypes /\ HelperTypeOK /\ BusyHasCall

(* The request of call c was written, and whatever became of it, what is   *)
(* or was told to the caller passes through _present.                      *)
Clean(c) ==
    /\ c \in Calls /\ th[c] \in {"waiting", "got", "done"}
    /\ co[c] = "awaiting" /\ th[c] = "done" => res[c].kind \notin {"conflict", "oserror"}
    /\ co[c] = "done" => outcome[c].code # "raised"

(* An exception escapes to the caller only when the thread has ended.      *)
RaisedInv ==
    \A c \in Calls : co[c] = "done" /\ outcome[c].code = "raised" => th[c] = "done"

(* A dispatched call carries the consented request.                        *)
DispatchedInv ==
    \A c \in Calls : th[c] # "none" =>
        /\ stage[c] = "done" /\ by[c] # None
        /\ call[c].op = req[c].op /\ call[c].payload = req[c].payload

(* Frame i on its way to the helper is the request of call c.              *)
ReqAt(k, i, c) ==
    /\ i \in 1..Len(toWorker[k])
    /\ toWorker[k][i].kind = "request" /\ toWorker[k][i].call = c

(* The request of a call is written once, so that it is in the pipe of its *)
(* connection, or in the hands of that session, or has been performed.     *)
QueueInv ==
    \A k \in Conns, c \in Calls : \A i \in 1..Len(toWorker[k]) : ReqAt(k, i, c) =>
        /\ Clean(c) /\ call[c].conn = k /\ busy[k] # c /\ ~Performed(c)
        /\ \A j \in 1..Len(toWorker[k]) : ReqAt(k, j, c) => j = i

BusyInv ==
    \A k \in Conns, b \in Calls : busy[k] = b =>
        /\ Clean(b) /\ call[b].conn = k /\ phase[k] # "read"
        /\ phase[k] = "execute" => ~Performed(b)
        /\ phase[k] = "respond" => Performed(b)

PerformedInv == \A c \in Calls : Performed(c) => Clean(c)

SentInv == QueueInv /\ BusyInv /\ PerformedInv

(* The answers that report a performed action.                             *)
Reports == {m \in Response : Performed(m.by)}

PowerInv ==
    /\ GateProofs!GateInv /\ PowerTypes /\ CorrInv
    /\ RaisedInv /\ DispatchedInv /\ SentInv /\ HeldIn(Reports)

LEMMA InitPowerInv == Init => PowerInv
<1> SUFFICES ASSUME Init PROVE PowerInv
  OBVIOUS
<1>1. GateProofs!GateInv
  BY PowerAssumption, SameGate, GateProofs!InitGateInv DEF Init
<1>2. DispatchTypes /\ CorrInv
  BY InitDispatchTypes, InitCorrInv DEF Init
<1>3. HelperTypeOK /\ BusyHasCall
  BY DEF Init, HelperInit, HelperTypeOK, BusyHasCall
<1>4. RaisedInv /\ DispatchedInv /\ QueueInv /\ BusyInv /\ PerformedInv
  BY ExchangeAssumption DEF Init, GatewayInit, ChannelInit, HelperInit, RaisedInv, DispatchedInv,
     QueueInv, ReqAt,
     BusyInv, PerformedInv, Performed
<1>5. HeldIn(Reports)
  BY DEF Init, GatewayInit, ChannelInit, HeldIn
<1> QED
  BY <1>1, <1>2, <1>3, <1>4, <1>5 DEF PowerInv, PowerTypes, SentInv

(* The steps of the composition, seen from the dispatcher and the helper.  *)
RefusedStep(c) == Answered(c) /\ Unauthorized(c)

LEMMA PowerMoves ==
  ASSUME GateProofs!GateInv', [Next]_vars
  PROVE  \/ GatewayMove /\ UNCHANGED helperVars
         \/ \E c \in Calls : RefusedStep(c) /\ UNCHANGED helperVars
         \/ \E c \in Calls : HelperCancelWrite(c) /\ UNCHANGED helperVars
         \/ HelperStep
         \/ UNCHANGED <<gatewayVars, channelVars, helperVars>>
<1>1. ASSUME NEW c \in Calls, Answered(c)
      PROVE  (GatewayMove \/ RefusedStep(c)) /\ UNCHANGED helperVars
  <2>1. CASE Unauthorized(c)
    BY <1>1, <2>1 DEF RefusedStep, Answered
  <2>2. CASE by'[c] # None /\ Dispatch(c, req'[c].op, req'[c].payload, now')
    <3>1. now' \in 0..MaxTime /\ req'[c].op \in Ops /\ req'[c].payload \in Payloads
      <4>1. (/\ now \in 0..MaxTime
             /\ \A d \in Calls : by[d] # None => req[d].op \in Ops /\ req[d].payload \in Payloads)'
        BY PowerAssumption DEF GateProofs!GateInv, GateProofs!TypeOK, GateProofs!CallInv,
           GateProofs!Record, Gate!GateConstants
      <4> QED
        BY <2>2, <4>1
    <3> QED
      BY <1>1, <2>2, <3>1 DEF GatewayMove, Answered
  <2>3. CASE DispatchUnavailable(c)
    BY <1>1, <2>3 DEF GatewayMove, Answered
  <2> QED
    BY <1>1, <2>1, <2>2, <2>3 DEF Answered, Route, HelperUnavailable
<1>2. ASSUME GatewayStep
      PROVE  GatewayMove \/ \E c \in Calls : HelperCancelWrite(c)
  BY <1>2 DEF GatewayStep, GatewayMove, ThreadStep, HelperExchangeStep, HelperDeliver,
     HelperReadFail
<1>3. ASSUME NEW c \in Calls, NEW q \in Gate!Request, Ask(c, q)
      PROVE  UNCHANGED <<gatewayVars, channelVars, helperVars>>
  BY <1>3 DEF Ask
<1>4. ASSUME Tick \/ UNCHANGED vars
      PROVE  UNCHANGED <<gatewayVars, channelVars, helperVars>>
  BY <1>4 DEF Tick, vars
<1> QED
  BY <1>1, <1>2, <1>3, <1>4 DEF Next

(* The helper does not touch the dispatcher, but for the connection.       *)
LEMMA HelperLeaves ==
  HelperStep => UNCHANGED <<call, co, outcome, abandoned, th, res, cx, lock, cache, active, response>>
  BY DEF HelperStep, HelperConnect, HelperRead, HelperExecute, HelperRespond, HelperEnd, gatewayVars

LEMMA NextPowerTypes ==
  ASSUME PowerTypes, BusyInv, GateProofs!GateInv', [Next]_vars
  PROVE  PowerTypes'
<1>0. /\ DispatchTypes /\ HelperTypeOK /\ BusyHasCall
      /\ ChannelTypeOK /\ GatewayTypeOK /\ DispatchStruct
  BY DEF PowerTypes, DispatchTypes
<1>1. CASE GatewayMove /\ UNCHANGED helperVars
  BY <1>0, <1>1, MoveTypes DEF PowerTypes, HelperTypeOK, BusyHasCall, helperVars
<1>2. ASSUME NEW c \in Calls, RefusedStep(c), UNCHANGED helperVars
      PROVE  PowerTypes'
  <2>1. ErrorOutcome("approval_required") \in Outcome
    BY ErrorOutcomeType DEF OutcomeCodes
  <2>2. /\ co' = [co EXCEPT ![c] = "done"]
        /\ outcome' = [outcome EXCEPT ![c] = ErrorOutcome("approval_required")]
        /\ UNCHANGED <<call, abandoned, th, res, cx, lock, cache, current, opened, active, response,
                       toWorker, toGateway, closed, session, busy, phase, performed>>
    BY <1>2 DEF RefusedStep, Unauthorized, Answer, channelVars, helperVars
  <2> HIDE DEF ErrorOutcome
  <2>3. ChannelTypeOK' /\ HelperTypeOK' /\ BusyHasCall'
    BY <1>0, <2>2 DEF ChannelTypeOK, HelperTypeOK, BusyHasCall
  <2>4. GatewayTypeOK'
    BY <1>0, <2>1, <2>2 DEF GatewayTypeOK
  <2>5. DispatchStruct'
    BY <1>0, <2>2 DEF DispatchStruct, GatewayTypeOK
  <2> QED
    BY <2>3, <2>4, <2>5 DEF PowerTypes, DispatchTypes
<1>3. ASSUME NEW c \in Calls, HelperCancelWrite(c), UNCHANGED helperVars
      PROVE  PowerTypes'
  <2> DEFINE k == call[c].conn
             m == [kind |-> "cancel", id |-> call[c].op, call |-> c]
  <2>0. k \in Conns /\ m \in Request
    BY <1>0, <1>3 DEF HelperCancelWrite, Call, Request, DispatchStruct
  <2>1. /\ toWorker' = toWorker \/ toWorker' = [toWorker EXCEPT ![k] = Append(@, m)]
        /\ toGateway' = toGateway \/ toGateway' = [toGateway EXCEPT ![k] = <<>>]
        /\ closed' = closed \/ closed' = [closed EXCEPT ![k] = TRUE]
        /\ session' = session
    BY <1>3 DEF HelperCancelWrite, CloseGatewayEnd
  <2> HIDE DEF m
  <2>a. /\ [toWorker EXCEPT ![k] = Append(@, m)] \in [Conns -> Seq(Request)]
        /\ [toGateway EXCEPT ![k] = <<>>] \in [Conns -> Seq(Response)]
    BY <1>0, <2>0, FrameTypes
  <2>2. toWorker' \in [Conns -> Seq(Request)]
    BY <1>0, <2>1, <2>a DEF ChannelTypeOK
  <2>3. toGateway' \in [Conns -> Seq(Response)]
    BY <1>0, <2>1, <2>a DEF ChannelTypeOK
  <2>4. ChannelTypeOK'
    BY <1>0, <2>0, <2>1, <2>2, <2>3 DEF ChannelTypeOK
  <2>5. GatewayTypeOK' /\ DispatchStruct'
    BY <1>0, <1>3 DEF HelperCancelWrite, GatewayTypeOK, DispatchStruct
  <2> QED
    BY <1>0, <1>3, <2>4, <2>5 DEF PowerTypes, DispatchTypes, HelperTypeOK, BusyHasCall, helperVars
<1>4. ASSUME HelperStep, ChannelTypeOK', HelperTypeOK', BusyHasCall',
             current' \in Conns \cup {None}, opened' \in 0..MaxConns
      PROVE  PowerTypes'
  <2>1. GatewayTypeOK'
    BY <1>0, <1>4, HelperLeaves DEF GatewayTypeOK
  <2>2. DispatchStruct'
    BY <1>0, <1>4, HelperLeaves DEF DispatchStruct
  <2> QED
    BY <1>4, <2>1, <2>2 DEF PowerTypes, DispatchTypes
<1>5. ASSUME NEW k \in Conns, HelperConnect(k) PROVE PowerTypes'
  <2>1. ChannelTypeOK' /\ HelperTypeOK' /\ BusyHasCall'
    BY <1>0, <1>5 DEF HelperConnect, AcceptGateway, ChannelTypeOK, HelperTypeOK, BusyHasCall,
       helperVars
  <2>2. current' \in Conns \cup {None} /\ opened' \in 0..MaxConns
    BY <1>0, <1>5 DEF HelperConnect, RegisterTransport, GatewayTypeOK, Conns
  <2> QED
    BY <1>4, <1>5, <2>1, <2>2 DEF HelperStep
<1>6. ASSUME NEW k \in Conns, EndSession(k), UNCHANGED <<toGateway, closed>>,
             performed' \in Seq(Calls)
      PROVE  ChannelTypeOK' /\ HelperTypeOK' /\ BusyHasCall'
  <2>1. toWorker' = [toWorker EXCEPT ![k] = <<>>] /\ toWorker' \in [Conns -> Seq(Request)]
    BY <1>0, <1>6, FrameTypes DEF EndSession, CloseWorkerEnd
  <2>2. ChannelTypeOK'
    BY <1>0, <1>6, <2>1 DEF EndSession, CloseWorkerEnd, ChannelTypeOK
  <2>3. HelperTypeOK' /\ BusyHasCall'
    BY <1>0, <1>6 DEF EndSession, HelperTypeOK, BusyHasCall
  <2> QED
    BY <2>2, <2>3
<1>7. UNCHANGED gatewayVars => current' \in Conns \cup {None} /\ opened' \in 0..MaxConns
  BY <1>0 DEF GatewayTypeOK, gatewayVars
<1>8. ASSUME NEW k \in Conns, HelperRead(k) PROVE PowerTypes'
  <2> DEFINE m == Head(toWorker[k])
  <2>0. toWorker[k] # <<>> /\ m \in Request /\ m.call \in Calls
    BY <1>0, <1>8, FrameTypes DEF HelperRead, Request
  <2>1. CASE EndSession(k)
    BY <1>0, <1>4, <1>6, <1>7, <1>8, <2>1 DEF HelperRead, HelperTypeOK, HelperStep
  <2>2. CASE /\ busy' = [busy EXCEPT ![k] = m.call]
             /\ phase' = [phase EXCEPT ![k] = "execute"]
             /\ toWorker' = [toWorker EXCEPT ![k] = Tail(@)]
             /\ UNCHANGED session
    <3>1. toWorker' \in [Conns -> Seq(Request)]
      BY <1>0, <2>0, <2>2, FrameTypes
    <3>2. ChannelTypeOK'
      BY <1>0, <1>8, <2>2, <3>1 DEF HelperRead, ChannelTypeOK
    <3> HIDE DEF m
    <3>3. HelperTypeOK' /\ BusyHasCall'
      BY <1>0, <1>8, <2>0, <2>2 DEF HelperRead, HelperTypeOK, BusyHasCall
    <3> QED
      BY <1>4, <1>7, <1>8, <3>2, <3>3 DEF HelperRead, HelperStep
  <2> QED
    BY <1>8, <2>1, <2>2 DEF HelperRead
<1>9. ASSUME NEW k \in Conns, HelperExecute(k) PROVE PowerTypes'
  <2>1. performed' \in Seq(Calls) /\ UNCHANGED gatewayVars
    BY <1>0, <1>9 DEF HelperExecute, Initiate, HelperTypeOK, BusyHasCall
  <2>2. CASE EndSession(k) /\ UNCHANGED <<toGateway, closed>>
    BY <1>4, <1>6, <1>7, <1>9, <2>1, <2>2 DEF HelperStep
  <2>3. CASE phase' = [phase EXCEPT ![k] = "respond"] /\ UNCHANGED <<busy, channelVars>>
    <3>1. ChannelTypeOK'
      BY <1>0, <2>3 DEF ChannelTypeOK, channelVars
    <3>2. HelperTypeOK' /\ BusyHasCall'
      BY <1>0, <1>9, <2>1, <2>3 DEF HelperExecute, HelperTypeOK, BusyHasCall
    <3> QED
      BY <1>4, <1>7, <1>9, <2>1, <3>1, <3>2 DEF HelperStep
  <2> QED
    BY <1>9, <2>2, <2>3 DEF HelperExecute
<1>10. ASSUME NEW k \in Conns, HelperRespond(k) PROVE PowerTypes'
  <2> DEFINE m == [id |-> call[busy[k]].op, code |-> "ok", by |-> busy[k]]
  <2>0. m \in Response
    <3>1. busy[k] \in Calls /\ busy[k] # None
      BY <1>0, <1>10, ExchangeAssumption DEF HelperRespond, BusyHasCall
    <3>2. th[busy[k]] # "none"
      BY <3>1 DEF BusyInv, Clean
    <3>3. call[busy[k]].op \in Ops
      BY <1>0, <3>1, <3>2 DEF DispatchStruct, Call
    <3> QED
      BY <3>1, <3>3 DEF Response, ResponseCodes
  <2>1. /\ toGateway' = toGateway \/ toGateway' = [toGateway EXCEPT ![k] = Append(@, m)]
        /\ UNCHANGED <<gatewayVars, closed, performed>>
    BY <1>10 DEF HelperRespond, SendToGateway
  <2> HIDE DEF m
  <2>2. toGateway' \in [Conns -> Seq(Response)]
    <3>1. [toGateway EXCEPT ![k] = Append(@, m)] \in [Conns -> Seq(Response)]
      BY <1>0, <2>0, FrameTypes
    <3> QED
      BY <1>0, <2>1, <3>1 DEF ChannelTypeOK
  <2>3. CASE EndSession(k)
    <3>1. toWorker' \in [Conns -> Seq(Request)]
      BY <1>0, <2>3, FrameTypes DEF EndSession, CloseWorkerEnd
    <3>2. ChannelTypeOK'
      BY <1>0, <2>1, <2>2, <2>3, <3>1 DEF EndSession, CloseWorkerEnd, ChannelTypeOK
    <3>3. HelperTypeOK' /\ BusyHasCall'
      BY <1>0, <2>1, <2>3 DEF EndSession, HelperTypeOK, BusyHasCall
    <3> QED
      BY <1>4, <1>7, <1>10, <2>1, <3>2, <3>3 DEF HelperStep
  <2>4. CASE /\ busy' = [busy EXCEPT ![k] = None]
             /\ phase' = [phase EXCEPT ![k] = "read"]
             /\ UNCHANGED <<toWorker, session>>
    <3>1. ChannelTypeOK'
      BY <1>0, <2>1, <2>2, <2>4 DEF ChannelTypeOK
    <3>2. HelperTypeOK' /\ BusyHasCall'
      BY <1>0, <2>1, <2>4 DEF HelperTypeOK, BusyHasCall
    <3> QED
      BY <1>4, <1>7, <1>10, <2>1, <3>1, <3>2 DEF HelperStep
  <2> QED
    BY <1>10, <2>3, <2>4 DEF HelperRespond
<1>11. ASSUME NEW k \in Conns, HelperEnd(k) PROVE PowerTypes'
  BY <1>0, <1>4, <1>6, <1>7, <1>11 DEF HelperEnd, HelperTypeOK, HelperStep
<1>12. CASE UNCHANGED <<gatewayVars, channelVars, helperVars>>
  BY <1>0, <1>12 DEF gatewayVars, channelVars, helperVars, PowerTypes, DispatchTypes, ChannelTypeOK,
     GatewayTypeOK, DispatchStruct, HelperTypeOK, BusyHasCall
<1> QED
  BY <1>1, <1>2, <1>3, <1>5, <1>8, <1>9, <1>10, <1>11, <1>12, PowerMoves DEF HelperStep
-----------------------------------------------------------------------------
(* Once its request is written a call stays clean, whatever the Gateway    *)
(* does.                                                                   *)
LEMMA CleanMove ==
  ASSUME DispatchTypes, GatewayMove, NEW c, Clean(c)
  PROVE  Clean(c)' /\ call'[c] = call[c]
<1>0. GatewayTypeOK /\ DispatchStruct /\ c \in Calls /\ th[c] # "none"
  BY DEF DispatchTypes, Clean
<1>a. call'[c] = call[c]
  BY <1>0, CallsStable
<1>1. ASSUME th'[c] = th[c], res'[c] = res[c], outcome'[c] = outcome[c], co'[c] = co[c]
      PROVE  Clean(c)'
  BY <1>1 DEF Clean
<1>2. ASSUME NEW d \in Calls, d # c,
             \A e \in Calls \ {d} : /\ th'[e] = th[e] /\ res'[e] = res[e]
                                    /\ outcome'[e] = outcome[e] /\ co'[e] = co[e]
      PROVE  Clean(c)'
  BY <1>0, <1>1, <1>2
<1>3. ASSUME NEW r, Finish(c, r), r.kind \notin {"conflict", "oserror"},
             UNCHANGED <<outcome, co>>
      PROVE  Clean(c)'
  <2>1. th'[c] = "done" /\ (co[c] = "awaiting" => res'[c] = r)
    BY <1>0, <1>3 DEF Finish, GatewayTypeOK, DispatchStruct
  <2> QED
    BY <1>3, <2>1 DEF Clean
<1>4. ASSUME NEW kind \in {"abandoned", "timeout", "disconnected"}, Finish(c, Raised(kind)),
             UNCHANGED <<outcome, co>>
      PROVE  Clean(c)'
  <2>1. Raised(kind).kind \notin {"conflict", "oserror"}
    BY <1>4 DEF Raised
  <2> QED
    BY <1>3, <1>4, <2>1
<1>5. ASSUME NEW d \in Calls, ThreadStep(d) PROVE Clean(c)'
  <2>1. CASE d # c
    <3>1. /\ \A e \in Calls \ {d} : th'[e] = th[e] /\ res'[e] = res[e]
          /\ UNCHANGED <<outcome, co>>
      BY <1>0, <1>5 DEF ThreadStep, Lookup, Claim, Write, Take, EndpointTimeout, WaitClosed, Store,
         Finish, GatewayTypeOK
    <3> QED
      BY <1>2, <2>1, <3>1
  <2>2. CASE d = c /\ Take(d)
    <3>1. th'[c] = "got" /\ UNCHANGED <<co, outcome>>
      BY <1>0, <2>2 DEF Take, GatewayTypeOK
    <3> QED
      BY <3>1 DEF Clean
  <2>3. CASE d = c /\ (EndpointTimeout(d) \/ WaitClosed(d))
    BY <1>4, <2>3 DEF EndpointTimeout, WaitClosed
  <2>4. CASE d = c /\ Store(d)
    <3> DEFINE r == [kind |-> "response", resp |-> res[c].resp, owner |-> c, replayed |-> FALSE]
    <3>1. (Finish(c, Raised("abandoned")) \/ Finish(c, r)) /\ UNCHANGED <<outcome, co>>
      BY <2>4 DEF Store
    <3>2. r.kind = "response"
      OBVIOUS
    <3> HIDE DEF r
    <3> QED
      BY <1>3, <1>4, <3>1, <3>2
  <2>5. th[c] \notin {"lock", "run", "claimed"}
    BY DEF Clean
  <2> QED
    BY <1>5, <2>1, <2>2, <2>3, <2>4, <2>5 DEF ThreadStep, Lookup, Claim, Write
<1>6. ASSUME NEW d \in Calls, Present(d) PROVE Clean(c)'
  <2>1. /\ UNCHANGED th /\ co'[d] = "done"
        /\ \A e \in Calls \ {d} : res'[e] = res[e] /\ outcome'[e] = outcome[e] /\ co'[e] = co[e]
    BY <1>0, <1>6 DEF Present, Abandon, Answer, GatewayTypeOK
  <2>2. CASE d = c
    <3>a. res[c].kind \notin {"conflict", "oserror"}
      BY <1>6, <2>2 DEF Present, Clean
    <3>1. outcome'[c].code # "raised"
      <4>1. \/ outcome'[c] = [code |-> "ok", resp |-> res[c].resp, owner |-> res[c].owner,
                              replayed |-> res[c].replayed]
            \/ \E code \in OutcomeCodes \ {"raised"} : outcome'[c] = ErrorOutcome(code)
        BY <1>0, <1>6, <2>2, <3>a DEF Present, Abandon, Answer, GatewayTypeOK, OutcomeCodes
      <4>2. \A code \in OutcomeCodes : ErrorOutcome(code).code = code
        BY DEF ErrorOutcome
      <4> QED
        BY <4>1, <4>2
    <3> QED
      BY <2>1, <2>2, <3>1 DEF Clean
  <2> QED
    BY <1>2, <2>1, <2>2
<1>7. ASSUME NEW d \in Calls, Timeout(d) PROVE Clean(c)'
  <2>1. /\ UNCHANGED <<th, res>> /\ co'[d] = "done" /\ outcome'[d] = ErrorOutcome("abandoned")
        /\ \A e \in Calls \ {d} : outcome'[e] = outcome[e] /\ co'[e] = co[e]
    BY <1>0, <1>7 DEF Timeout, Abandon, Answer, GatewayTypeOK
  <2>2. ErrorOutcome("abandoned").code = "abandoned"
    BY DEF ErrorOutcome
  <2> QED
    BY <2>1, <2>2 DEF Clean
<1>8. ASSUME NEW d \in Calls, DispatchUnavailable(d) PROVE Clean(c)'
  <2>1. d # c
    BY <1>0, <1>8 DEF DispatchUnavailable, DispatchStruct
  <2>2. UNCHANGED <<th, res>> /\ \A e \in Calls \ {d} : outcome'[e] = outcome[e] /\ co'[e] = co[e]
    BY <1>0, <1>8 DEF DispatchUnavailable, Answer, GatewayTypeOK
  <2> QED
    BY <1>2, <2>1, <2>2
<1>9. ASSUME NEW d \in Calls, NEW op \in Ops, NEW p \in Payloads, NEW t \in 0..MaxTime,
             Dispatch(d, op, p, t)
      PROVE  Clean(c)'
  <2>1. d # c
    BY <1>0, <1>9 DEF Dispatch, DispatchStruct
  <2>2. (\A e \in Calls \ {d} : th'[e] = th[e] /\ co'[e] = co[e]) /\ UNCHANGED <<res, outcome>>
    BY <1>0, <1>9 DEF Dispatch, GatewayTypeOK
  <2> QED
    BY <1>2, <2>1, <2>2
<1>10. ASSUME NEW d \in Calls, CancelCheck(d) \/ CancelWrite(d) PROVE Clean(c)'
  BY <1>1, <1>10 DEF CancelCheck, CancelWrite
<1>11. ASSUME NEW k \in Conns, Deliver(k) \/ ReadFail(k) PROVE Clean(c)'
  BY <1>1, <1>11 DEF Deliver, ReadFail
<1> QED
  BY <1>a, <1>5, <1>6, <1>7, <1>8, <1>9, <1>10, <1>11 DEF GatewayMove

(* What can be said of a call once its request is written stays true.      *)
LEMMA CleanStable ==
  ASSUME PowerInv, GateProofs!GateInv', [Next]_vars, NEW c, Clean(c)
  PROVE  Clean(c)' /\ call'[c] = call[c]
<1>0. DispatchTypes /\ GatewayTypeOK /\ DispatchedInv /\ c \in Calls
  BY DEF PowerInv, PowerTypes, DispatchTypes, Clean
<1>1. ASSUME UNCHANGED <<th, res, outcome, call, co>> PROVE Clean(c)' /\ call'[c] = call[c]
  BY <1>1 DEF Clean
<1>2. CASE GatewayMove
  BY <1>0, <1>2, CleanMove
<1>3. ASSUME NEW d \in Calls, RefusedStep(d) PROVE Clean(c)' /\ call'[c] = call[c]
  <2>1. stage[d] # "done"
    BY <1>3, GateAnswers DEF RefusedStep, PowerInv
  <2>2. d # c
    BY <1>0, <2>1 DEF DispatchedInv, Clean
  <2>3. UNCHANGED <<th, res, call>> /\ outcome'[c] = outcome[c] /\ co'[c] = co[c]
    BY <1>0, <1>3, <2>2 DEF RefusedStep, Unauthorized, Answer, GatewayTypeOK
  <2> QED
    BY <2>3 DEF Clean
<1>4. ASSUME NEW d \in Calls, HelperCancelWrite(d) PROVE Clean(c)' /\ call'[c] = call[c]
  BY <1>1, <1>4 DEF HelperCancelWrite
<1>5. CASE HelperStep
  BY <1>1, <1>5, HelperLeaves
<1>6. CASE UNCHANGED <<gatewayVars, channelVars, helperVars>>
  BY <1>1, <1>6 DEF gatewayVars
<1> QED
  BY <1>2, <1>3, <1>4, <1>5, <1>6, PowerMoves

(* A dispatched call carries the request its user consented to.            *)
LEMMA NextDispatchedInv ==
  ASSUME PowerInv, GateProofs!GateInv', [Next]_vars
  PROVE  DispatchedInv'
<1>0. /\ DispatchTypes /\ GatewayTypeOK /\ DispatchedInv
  BY DEF PowerInv, PowerTypes, DispatchTypes
<1>1. ASSUME NEW c \in Calls, th[c] # "none", call'[c] = call[c]
      PROVE  /\ stage'[c] = "done" /\ by'[c] # None
             /\ call'[c].op = req'[c].op /\ call'[c].payload = req'[c].payload
  BY <1>0, <1>1, GateStable DEF DispatchedInv, PowerInv
<1>2. ASSUME \A c \in Calls : th'[c] # "none" => th[c] # "none" /\ call'[c] = call[c]
      PROVE  DispatchedInv'
  BY <1>1, <1>2 DEF DispatchedInv
<1>3. ASSUME NEW c \in Calls, Answered(c), by'[c] # None,
             Dispatch(c, req'[c].op, req'[c].payload, now')
      PROVE  DispatchedInv'
  <2>1. /\ call'[c] = [op |-> req'[c].op, payload |-> req'[c].payload, at |-> now', conn |-> current]
        /\ \A d \in Calls \ {c} : th'[d] = th[d] /\ call'[d] = call[d]
    BY <1>0, <1>3 DEF Dispatch, GatewayTypeOK
  <2>2. call'[c].op = req'[c].op /\ call'[c].payload = req'[c].payload
    BY <2>1
  <2>3. stage'[c] = "done"
    BY <1>3, GateAnswers DEF PowerInv
  <2> QED
    BY <1>1, <1>3, <2>1, <2>2, <2>3 DEF DispatchedInv
<1>4. ASSUME UNCHANGED <<th, call>> PROVE DispatchedInv'
  BY <1>2, <1>4
<1>5. ASSUME NEW c \in Calls, Answered(c) PROVE DispatchedInv'
  <2>1. \/ by'[c] # None /\ Dispatch(c, req'[c].op, req'[c].payload, now')
        \/ UNCHANGED <<th, call>>
    BY <1>5 DEF Answered, Route, Unauthorized, HelperUnavailable, DispatchUnavailable
  <2> QED
    BY <1>3, <1>4, <1>5, <2>1
<1>6. ASSUME NEW c \in Calls, ThreadStep(c) PROVE DispatchedInv'
  <2>1. /\ UNCHANGED call /\ th[c] # "none" /\ \A d \in Calls \ {c} : th'[d] = th[d]
    BY <1>0, <1>6 DEF ThreadStep, Lookup, Claim, Write, Take, EndpointTimeout, WaitClosed, Store,
       Finish, GatewayTypeOK
  <2> QED
    BY <1>2, <2>1
<1>7. ASSUME GatewayStep PROVE DispatchedInv'
  <2>1. (\E c \in Calls : ThreadStep(c)) \/ UNCHANGED <<th, call>>
    BY <1>7 DEF GatewayStep, ThreadStep, HelperExchangeStep, HelperDeliver, HelperReadFail, Timeout,
       Present, CancelCheck, HelperCancelWrite, Deliver, ReadFail
  <2> QED
    BY <1>4, <1>6, <2>1
<1>8. ASSUME HelperStep PROVE DispatchedInv'
  BY <1>4, <1>8, HelperLeaves
<1>9. ASSUME NEW c \in Calls, NEW q \in Gate!Request, Ask(c, q) PROVE DispatchedInv'
  BY <1>4, <1>9 DEF Ask, gatewayVars
<1>10. ASSUME Tick \/ UNCHANGED vars PROVE DispatchedInv'
  BY <1>4, <1>10 DEF Tick, vars, gatewayVars
<1> QED
  BY <1>5, <1>7, <1>8, <1>9, <1>10 DEF Next

LEMMA NextRaisedInv ==
  ASSUME PowerInv, GateProofs!GateInv', [Next]_vars
  PROVE  RaisedInv'
<1>0. DispatchTypes /\ GatewayTypeOK /\ DispatchStruct /\ RaisedInv
  BY DEF PowerInv, PowerTypes, DispatchTypes
<1>1. ASSUME UNCHANGED <<th, co, outcome>> PROVE RaisedInv'
  BY <1>0, <1>1 DEF RaisedInv
<1>2. ASSUME NEW c \in Calls, ThreadStep(c) PROVE RaisedInv'
  <2>1. /\ UNCHANGED <<co, outcome>> /\ th[c] # "done" /\ \A d \in Calls \ {c} : th'[d] = th[d]
    BY <1>0, <1>2 DEF ThreadStep, Lookup, Claim, Write, Take, EndpointTimeout, WaitClosed, Store,
       Finish, GatewayTypeOK
  <2> QED
    BY <1>0, <2>1 DEF RaisedInv
<1>3. ASSUME NEW c \in Calls, NEW code \in OutcomeCodes, Answer(c, ErrorOutcome(code)), UNCHANGED th,
             code # "raised"
      PROVE  RaisedInv'
  <2>1. ErrorOutcome(code).code = code
    BY DEF ErrorOutcome
  <2>2. outcome'[c] = ErrorOutcome(code) /\ \A d \in Calls \ {c} : co'[d] = co[d] /\ outcome'[d] = outcome[d]
    BY <1>0, <1>3 DEF Answer, GatewayTypeOK
  <2> QED
    BY <1>0, <1>3, <2>1, <2>2 DEF RaisedInv
<1>4. ASSUME NEW c \in Calls, Timeout(c) \/ DispatchUnavailable(c) \/ RefusedStep(c)
      PROVE  RaisedInv'
  <2>1. UNCHANGED th /\ \E code \in OutcomeCodes \ {"raised"} : Answer(c, ErrorOutcome(code))
    BY <1>4 DEF Timeout, Abandon, DispatchUnavailable, RefusedStep, Unauthorized, OutcomeCodes
  <2> QED
    BY <1>3, <2>1
<1>5. ASSUME NEW c \in Calls, Present(c) PROVE RaisedInv'
  <2>1. UNCHANGED th /\ th[c] = "done" /\ \A d \in Calls \ {c} : co'[d] = co[d] /\ outcome'[d] = outcome[d]
    BY <1>0, <1>5 DEF Present, Abandon, Answer, GatewayTypeOK
  <2> QED
    BY <1>0, <2>1 DEF RaisedInv
<1>6. ASSUME NEW c \in Calls, NEW op \in Ops, NEW p \in Payloads, NEW t \in 0..MaxTime,
             Dispatch(c, op, p, t)
      PROVE  RaisedInv'
  <2>1. /\ co'[c] # "done" /\ UNCHANGED outcome
        /\ \A d \in Calls \ {c} : th'[d] = th[d] /\ co'[d] = co[d]
    BY <1>0, <1>6 DEF Dispatch, GatewayTypeOK, DispatchStruct
  <2> QED
    BY <1>0, <2>1 DEF RaisedInv
<1>7. CASE GatewayMove
  BY <1>1, <1>2, <1>4, <1>5, <1>6, <1>7 DEF GatewayMove, CancelCheck, CancelWrite, Deliver, ReadFail
<1>8. ASSUME NEW c \in Calls, HelperCancelWrite(c) PROVE RaisedInv'
  BY <1>1, <1>8 DEF HelperCancelWrite
<1>9. CASE HelperStep
  BY <1>1, <1>9, HelperLeaves
<1>10. CASE UNCHANGED <<gatewayVars, channelVars, helperVars>>
  BY <1>1, <1>10 DEF gatewayVars
<1> QED
  BY <1>4, <1>7, <1>8, <1>9, <1>10, PowerMoves
-----------------------------------------------------------------------------
(* How the requests in the pipes change.                                   *)
LEMMA ReqAppend ==
  ASSUME ChannelTypeOK, NEW k \in Conns, NEW m \in Request,
         toWorker' = [toWorker EXCEPT ![k] = Append(@, m)]
  PROVE  \A j \in Conns, c \in Calls : \A i \in 1..Len(toWorker'[j]) : ReqAt(j, i, c)' =>
           \/ i \in 1..Len(toWorker[j]) /\ ReqAt(j, i, c)
           \/ j = k /\ i = Len(toWorker[k]) + 1 /\ m.kind = "request" /\ m.call = c
<1>1. /\ toWorker'[k] = Append(toWorker[k], m) /\ toWorker[k] \in Seq(Request)
      /\ \A j \in Conns \ {k} : toWorker'[j] = toWorker[j]
  BY DEF ChannelTypeOK
<1>2. \A i \in 1..Len(toWorker'[k]) :
        \/ i \in 1..Len(toWorker[k]) /\ toWorker'[k][i] = toWorker[k][i]
        \/ i = Len(toWorker[k]) + 1 /\ toWorker'[k][i] = m
  BY <1>1
<1> QED
  BY <1>1, <1>2 DEF ReqAt

LEMMA ReqTail ==
  ASSUME ChannelTypeOK, NEW k \in Conns, toWorker[k] # <<>>,
         toWorker' = [toWorker EXCEPT ![k] = Tail(@)]
  PROVE  \A j \in Conns, c \in Calls : \A i \in 1..Len(toWorker'[j]) : ReqAt(j, i, c)' =>
           \/ j # k /\ i \in 1..Len(toWorker[j]) /\ ReqAt(j, i, c)
           \/ j = k /\ i + 1 \in 1..Len(toWorker[k]) /\ ReqAt(k, i + 1, c)
<1>1. /\ toWorker'[k] = Tail(toWorker[k]) /\ toWorker[k] \in Seq(Request)
      /\ \A j \in Conns \ {k} : toWorker'[j] = toWorker[j]
  BY DEF ChannelTypeOK
<1>2. \A i \in 1..Len(Tail(toWorker[k])) :
        i + 1 \in 1..Len(toWorker[k]) /\ Tail(toWorker[k])[i] = toWorker[k][i + 1]
  BY <1>1, TailElements
<1>3. ASSUME NEW c \in Calls, NEW i \in 1..Len(toWorker'[k]), ReqAt(k, i, c)'
      PROVE  i + 1 \in 1..Len(toWorker[k]) /\ ReqAt(k, i + 1, c)
  <2>1. i \in 1..Len(Tail(toWorker[k]))
    BY <1>1
  <2>2. i + 1 \in 1..Len(toWorker[k]) /\ toWorker'[k][i] = toWorker[k][i + 1]
    BY <1>1, <1>2, <2>1
  <2> QED
    BY <1>3, <2>2 DEF ReqAt
<1>4. ASSUME NEW j \in Conns \ {k}, NEW c \in Calls, NEW i \in 1..Len(toWorker'[j]), ReqAt(j, i, c)'
      PROVE  i \in 1..Len(toWorker[j]) /\ ReqAt(j, i, c)
  BY <1>1, <1>4 DEF ReqAt
<1> QED
  BY <1>3, <1>4

LEMMA ReqClear ==
  ASSUME ChannelTypeOK, NEW k \in Conns, toWorker' = [toWorker EXCEPT ![k] = <<>>]
  PROVE  \A j \in Conns, c \in Calls : \A i \in 1..Len(toWorker'[j]) : ReqAt(j, i, c)' =>
           j # k /\ i \in 1..Len(toWorker[j]) /\ ReqAt(j, i, c)
  BY DEF ChannelTypeOK, ReqAt

LEMMA PerformedAppend ==
  ASSUME HelperTypeOK, NEW c \in Calls, performed' = Append(performed, c)
  PROVE  \A d : Performed(d)' <=> Performed(d) \/ d = c
<1>1. performed \in Seq(Calls) /\ Len(performed) \in Nat
  BY DEF HelperTypeOK
<1>2. /\ DOMAIN performed = 1..Len(performed) /\ DOMAIN performed' = 1..(Len(performed) + 1)
      /\ \A i \in 1..Len(performed) : performed'[i] = performed[i]
      /\ performed'[Len(performed) + 1] = c
  BY <1>1
<1>3. \A i \in DOMAIN performed' : i \in DOMAIN performed \/ i = Len(performed) + 1
  BY <1>1, <1>2
<1>4. \A i \in DOMAIN performed : i \in DOMAIN performed'
  BY <1>1, <1>2
<1>5. Len(performed) + 1 \in DOMAIN performed'
  BY <1>1, <1>2
<1>6. ASSUME NEW d, Performed(d)' PROVE Performed(d) \/ d = c
  BY <1>2, <1>3, <1>6 DEF Performed
<1>7. ASSUME NEW d, Performed(d) \/ d = c PROVE Performed(d)'
  BY <1>2, <1>4, <1>5, <1>7 DEF Performed
<1> QED
  BY <1>6, <1>7

(* The dispatcher writes to the helper's pipe only a request just claimed, *)
(* or a cancellation.                                                      *)
LEMMA MoveQueue ==
  ASSUME DispatchTypes, GatewayMove
  PROVE  \/ UNCHANGED toWorker
         \/ \E c \in Calls, m \in Request :
              /\ toWorker' = [toWorker EXCEPT ![call[c].conn] = Append(@, m)]
              /\ call[c].conn \in Conns /\ call' = call
              /\ \/ /\ m.kind = "request" /\ m.call = c /\ th[c] = "claimed" /\ th'[c] = "waiting"
                    /\ UNCHANGED <<co, outcome>>
                 \/ m.kind = "cancel"
<1>0. DispatchStruct /\ GatewayTypeOK
  BY DEF DispatchTypes
<1>1. ASSUME NEW c \in Calls, Write(c), toWorker' # toWorker
      PROVE  \E m \in Request :
               /\ toWorker' = [toWorker EXCEPT ![call[c].conn] = Append(@, m)]
               /\ call[c].conn \in Conns /\ call' = call
               /\ m.kind = "request" /\ m.call = c /\ th[c] = "claimed" /\ th'[c] = "waiting"
               /\ UNCHANGED <<co, outcome>>
  <2> DEFINE m == [kind |-> "request", id |-> call[c].op, call |-> c]
  <2>1. call[c].conn \in Conns /\ m \in Request /\ m.kind = "request" /\ m.call = c
    BY <1>0, <1>1 DEF Write, Call, Request, DispatchStruct
  <2>2. /\ toWorker' = [toWorker EXCEPT ![call[c].conn] = Append(@, m)]
        /\ call' = call /\ co' = co /\ outcome' = outcome /\ th[c] = "claimed" /\ th'[c] = "waiting"
    BY <1>0, <1>1 DEF Write, channelVars, GatewayTypeOK
  <2> HIDE DEF m
  <2> QED
    BY <2>1, <2>2
<1>2. ASSUME NEW c \in Calls, CancelWrite(c), toWorker' # toWorker
      PROVE  \E m \in Request :
               /\ toWorker' = [toWorker EXCEPT ![call[c].conn] = Append(@, m)]
               /\ call[c].conn \in Conns /\ call' = call /\ m.kind = "cancel"
  <2> DEFINE m == [kind |-> "cancel", id |-> call[c].op, call |-> c]
  <2>1. call[c].conn \in Conns /\ m \in Request /\ m.kind = "cancel"
    BY <1>0, <1>2 DEF CancelWrite, Call, Request, DispatchStruct
  <2>2. toWorker' = [toWorker EXCEPT ![call[c].conn] = Append(@, m)] /\ call' = call
    BY <1>2 DEF CancelWrite
  <2> HIDE DEF m
  <2> QED
    BY <2>1, <2>2
<1>3. ASSUME NEW c \in Calls,
             DispatchUnavailable(c) \/ Timeout(c) \/ Present(c) \/ Lookup(c) \/ Claim(c) \/ Take(c)
             \/ EndpointTimeout(c) \/ WaitClosed(c) \/ Store(c) \/ CancelCheck(c)
      PROVE  UNCHANGED toWorker
  BY <1>3 DEF DispatchUnavailable, Timeout, Present, Lookup, Claim, Take, EndpointTimeout,
     WaitClosed, Store, CancelCheck, channelVars
<1>4. ASSUME NEW c \in Calls, NEW op \in Ops, NEW p \in Payloads, NEW t \in 0..MaxTime,
             Dispatch(c, op, p, t)
      PROVE  UNCHANGED toWorker
  BY <1>4 DEF Dispatch, channelVars
<1>5. ASSUME NEW k \in Conns, Deliver(k) \/ ReadFail(k) PROVE UNCHANGED toWorker
  BY <1>5 DEF Deliver, ReadFail
<1> QED
  BY <1>1, <1>2, <1>3, <1>4, <1>5 DEF GatewayMove, ThreadStep

(* A request is sent once and performed at most once.                      *)
LEMMA NextSentInv ==
  ASSUME PowerInv, GateProofs!GateInv', [Next]_vars
  PROVE  SentInv'
<1>0. /\ DispatchTypes /\ ChannelTypeOK /\ GatewayTypeOK /\ DispatchStruct /\ HelperTypeOK
      /\ BusyHasCall /\ QueueInv /\ BusyInv /\ PerformedInv /\ RaisedInv /\ None \notin Calls
  BY ExchangeAssumption DEF PowerInv, PowerTypes, DispatchTypes, SentInv
<1>a. \A c : Clean(c) => Clean(c)' /\ call'[c] = call[c]
  BY CleanStable
<1>b. ASSUME NEW k \in Conns, NEW c \in Calls, NEW i \in 1..Len(toWorker[k]), ReqAt(k, i, c)
      PROVE  /\ Clean(c) /\ Clean(c)' /\ call'[c].conn = k /\ call[c].conn = k
             /\ busy[k] # c /\ ~Performed(c)
             /\ \A j \in 1..Len(toWorker[k]) : ReqAt(k, j, c) => j = i
  BY <1>0, <1>a, <1>b DEF QueueInv
<1>c. ASSUME NEW k \in Conns, NEW b \in Calls, busy[k] = b
      PROVE  /\ Clean(b) /\ Clean(b)'
             /\ call'[b].conn = k /\ call[b].conn = k /\ phase[k] # "read"
             /\ phase[k] = "execute" => ~Performed(b)
             /\ phase[k] = "respond" => Performed(b)
  BY <1>0, <1>a, <1>c DEF BusyInv
<1>d. \A c \in Calls : Performed(c) => Clean(c) /\ Clean(c)'
  BY <1>0, <1>a DEF PerformedInv
<1>1. ASSUME UNCHANGED performed
      PROVE  (\A c : Performed(c)' <=> Performed(c)) /\ PerformedInv'
  <2>1. \A c : Performed(c)' <=> Performed(c)
    BY <1>1 DEF Performed
  <2> QED
    BY <1>d, <2>1 DEF PerformedInv
<1>2. ASSUME UNCHANGED <<busy, phase, performed>> PROVE BusyInv'
  <2>1. \A c : Performed(c)' <=> Performed(c)
    BY <1>1, <1>2
  <2> QED
    BY <1>2, <1>c, <2>1 DEF BusyInv
<1>3. ASSUME UNCHANGED <<toWorker, busy, phase, performed>> PROVE SentInv'
  <2>1. QueueInv'
    <3>1. \A k \in Conns : \A i, c : ReqAt(k, i, c)' <=> ReqAt(k, i, c)
      BY <1>3 DEF ReqAt
    <3> QED
      BY <1>1, <1>3, <1>b, <3>1 DEF QueueInv
  <2> QED
    BY <1>1, <1>2, <1>3, <2>1 DEF SentInv
<1>4. ASSUME NEW c \in Calls, NEW m \in Request, NEW k \in Conns, k = call[c].conn,
             toWorker' = [toWorker EXCEPT ![k] = Append(@, m)],
             call' = call, UNCHANGED <<busy, phase, performed>>,
             \/ /\ m.kind = "request" /\ m.call = c /\ th[c] = "claimed" /\ th'[c] = "waiting"
                /\ UNCHANGED <<co, outcome>>
             \/ m.kind = "cancel"
      PROVE  SentInv'
  <2>0. \A d : Performed(d)' <=> Performed(d)
    BY <1>1, <1>4
  <2>a. ChannelTypeOK /\ toWorker' = [toWorker EXCEPT ![k] = Append(@, m)]
    BY <1>0, <1>4
  <2>1. \A j \in Conns, d \in Calls : \A i \in 1..Len(toWorker'[j]) : ReqAt(j, i, d)' =>
           \/ i \in 1..Len(toWorker[j]) /\ ReqAt(j, i, d)
           \/ j = k /\ i = Len(toWorker[k]) + 1 /\ m.kind = "request" /\ m.call = d
    BY <2>a, ReqAppend
  <2>2. CASE m.kind = "cancel"
    <3>1. \A j \in Conns, d \in Calls : \A i \in 1..Len(toWorker'[j]) : ReqAt(j, i, d)' =>
             i \in 1..Len(toWorker[j]) /\ ReqAt(j, i, d)
      BY <2>1, <2>2
    <3>2. QueueInv'
      BY <1>4, <1>b, <2>0, <3>1 DEF QueueInv
    <3> QED
      BY <1>1, <1>2, <1>4, <3>2 DEF SentInv
  <2>3. CASE m.kind = "request" /\ m.call = c /\ th[c] = "claimed" /\ th'[c] = "waiting"
             /\ UNCHANGED <<co, outcome>>
    <3>1. ~Clean(c)
      BY <2>3 DEF Clean
    <3>2. Clean(c)'
      BY <1>0, <2>3 DEF Clean, RaisedInv
    <3>3. ~Performed(c) /\ busy[k] # c
      BY <1>0, <1>c, <1>d, <3>1
    <3>4. \A i \in 1..Len(toWorker[k]) : ~ReqAt(k, i, c)
      BY <1>b, <3>1
    <3>5. QueueInv'
      BY <1>4, <1>b, <2>0, <2>1, <2>3, <3>2, <3>3, <3>4 DEF QueueInv
    <3> QED
      BY <1>1, <1>2, <1>4, <3>5 DEF SentInv
  <2> QED
    BY <1>4, <2>2, <2>3
<1>5. CASE GatewayMove /\ UNCHANGED helperVars
  BY <1>0, <1>3, <1>4, <1>5, MoveQueue DEF helperVars
<1>6. ASSUME NEW c \in Calls, RefusedStep(c), UNCHANGED helperVars PROVE SentInv'
  BY <1>3, <1>6 DEF RefusedStep, Unauthorized, channelVars, helperVars
<1>7. ASSUME NEW c \in Calls, HelperCancelWrite(c), UNCHANGED helperVars PROVE SentInv'
  <2> DEFINE m == [kind |-> "cancel", id |-> call[c].op, call |-> c]
  <2>1. call[c].conn \in Conns /\ m \in Request /\ m.kind = "cancel"
    BY <1>0, <1>7 DEF HelperCancelWrite, Call, Request, DispatchStruct
  <2>2. /\ UNCHANGED toWorker \/ toWorker' = [toWorker EXCEPT ![call[c].conn] = Append(@, m)]
        /\ call' = call
    BY <1>7 DEF HelperCancelWrite
  <2> HIDE DEF m
  <2> QED
    BY <1>3, <1>4, <1>7, <2>1, <2>2 DEF helperVars
<1>8. ASSUME NEW k \in Conns, EndSession(k), \A d : Performed(d)' <=> Performed(d) PROVE SentInv'
  <2>0. /\ busy'[k] = None /\ phase'[k] = "read"
        /\ \A j \in Conns \ {k} : busy'[j] = busy[j] /\ phase'[j] = phase[j]
        /\ toWorker' = [toWorker EXCEPT ![k] = <<>>]
    BY <1>0, <1>8 DEF EndSession, CloseWorkerEnd, HelperTypeOK
  <2>1. \A j \in Conns, c \in Calls : \A i \in 1..Len(toWorker'[j]) : ReqAt(j, i, c)' =>
           j # k /\ i \in 1..Len(toWorker[j]) /\ ReqAt(j, i, c)
    BY <1>0, <2>0, ReqClear
  <2>2. QueueInv'
    BY <1>8, <1>b, <2>0, <2>1 DEF QueueInv
  <2>3. BusyInv'
    BY <1>0, <1>8, <1>c, <2>0 DEF BusyInv
  <2>4. PerformedInv'
    BY <1>8, <1>d DEF PerformedInv
  <2> QED
    BY <2>2, <2>3, <2>4 DEF SentInv
<1>9. ASSUME NEW k \in Conns, HelperConnect(k) PROVE SentInv'
  BY <1>3, <1>9 DEF HelperConnect, helperVars
<1>10. ASSUME NEW k \in Conns, HelperRead(k) PROVE SentInv'
  <2>0. \A d : Performed(d)' <=> Performed(d)
    BY <1>1, <1>10 DEF HelperRead
  <2>1. CASE EndSession(k)
    BY <1>8, <2>0, <2>1
  <2>2. CASE /\ Head(toWorker[k]).kind = "request"
             /\ busy' = [busy EXCEPT ![k] = Head(toWorker[k]).call]
             /\ phase' = [phase EXCEPT ![k] = "execute"]
             /\ toWorker' = [toWorker EXCEPT ![k] = Tail(@)]
    <3>0. /\ toWorker[k] # <<>> /\ toWorker[k] \in Seq(Request)
          /\ Head(toWorker[k]).call \in Calls
      BY <1>0, <1>10, FrameTypes DEF HelperRead, Request, ChannelTypeOK
    <3>c. PICK c \in Calls : c = Head(toWorker[k]).call
      BY <3>0
    <3>1. 1 \in 1..Len(toWorker[k]) /\ ReqAt(k, 1, c)
      BY <2>2, <3>0, <3>c DEF ReqAt
    <3>2. /\ busy'[k] = c /\ phase'[k] = "execute"
          /\ \A j \in Conns \ {k} : busy'[j] = busy[j] /\ phase'[j] = phase[j]
      BY <1>0, <2>2, <3>c DEF HelperTypeOK
    <3>3. /\ Clean(c)' /\ call'[c].conn = k /\ ~Performed(c)
          /\ \A j \in 1..Len(toWorker[k]) : ReqAt(k, j, c) => j = 1
      BY <1>b, <3>0, <3>1, <3>c
    <3>4. \A j \in Conns, d \in Calls : \A i \in 1..Len(toWorker'[j]) : ReqAt(j, i, d)' =>
             \/ j # k /\ i \in 1..Len(toWorker[j]) /\ ReqAt(j, i, d)
             \/ j = k /\ i + 1 \in 1..Len(toWorker[k]) /\ ReqAt(k, i + 1, d)
      BY <1>0, <2>2, <3>0, ReqTail
    <3>5. ASSUME NEW j \in Conns, NEW d \in Calls, NEW i \in 1..Len(toWorker'[j]), ReqAt(j, i, d)'
          PROVE  /\ Clean(d)' /\ call'[d].conn = j /\ busy'[j] # d /\ ~Performed(d)'
                 /\ \A n \in 1..Len(toWorker'[j]) : ReqAt(j, n, d)' => n = i
      <4>1. CASE j # k
        BY <1>b, <2>0, <3>2, <3>4, <3>5, <4>1
      <4>2. CASE j = k
        <5>1. i + 1 \in 1..Len(toWorker[k]) /\ ReqAt(k, i + 1, d)
          BY <3>4, <3>5, <4>2
        <5>2. d # c
          BY <3>3, <5>1
        <5>3. /\ Clean(d)' /\ call'[d].conn = k /\ ~Performed(d)
              /\ \A n \in 1..Len(toWorker[k]) : ReqAt(k, n, d) => n = i + 1
          BY <1>b, <5>1
        <5>4. ASSUME NEW n \in 1..Len(toWorker'[k]), ReqAt(k, n, d)' PROVE n = i
          <6>1. n + 1 \in 1..Len(toWorker[k]) /\ ReqAt(k, n + 1, d)
            BY <3>4, <5>4
          <6>2. n + 1 = i + 1
            BY <5>3, <6>1
          <6> QED
            BY <3>5, <5>4, <6>2
        <5> QED
          BY <2>0, <3>2, <4>2, <5>2, <5>3, <5>4
      <4> QED
        BY <4>1, <4>2
    <3>6. QueueInv'
      BY <3>5 DEF QueueInv
    <3>7. BusyInv'
      BY <1>c, <2>0, <3>2, <3>3 DEF BusyInv
    <3> QED
      BY <1>1, <1>10, <3>6, <3>7 DEF SentInv, HelperRead
  <2> QED
    BY <1>10, <2>1, <2>2 DEF HelperRead
<1>11. ASSUME NEW k \in Conns, HelperExecute(k) PROVE SentInv'
  <2>1. busy[k] \in Calls /\ busy[k] # None /\ phase[k] = "execute"
    BY <1>0, <1>11 DEF HelperExecute, BusyHasCall
  <2>2. CASE performed' = performed
    <3>1. EndSession(k)
      BY <1>11, <2>2 DEF HelperExecute
    <3>2. \A d : Performed(d)' <=> Performed(d)
      BY <1>1, <2>2
    <3> QED
      BY <1>8, <3>1, <3>2
  <2>3. CASE performed' = Append(performed, busy[k])
    <3>c. PICK c \in Calls : c = busy[k]
      BY <2>1
    <3>0. \A d : Performed(d)' <=> Performed(d) \/ d = c
      BY <1>0, <2>3, <3>c, PerformedAppend
    <3>1. Clean(c)' /\ call[c].conn = k /\ call'[c].conn = k
      BY <1>c, <3>c
    <3>2. PerformedInv'
      BY <1>d, <3>0, <3>1 DEF PerformedInv
    <3>3. \A j \in Conns, d \in Calls : \A i \in 1..Len(toWorker[j]) :
             ReqAt(j, i, d) => Clean(d)' /\ call'[d].conn = j /\ busy[j] # d /\ ~Performed(d)'
      BY <1>b, <3>0, <3>1, <3>c
    <3>4. ASSUME NEW j \in Conns \ {k}, NEW b \in Calls, busy[j] = b
          PROVE  /\ Clean(b)' /\ call'[b].conn = j /\ phase[j] # "read"
                 /\ phase[j] = "execute" => ~Performed(b)'
                 /\ phase[j] = "respond" => Performed(b)'
      <4>1. b # c
        BY <1>c, <3>1, <3>4
      <4> QED
        BY <1>c, <3>0, <3>4, <4>1
    <3>5. CASE EndSession(k)
      <4>0. /\ busy'[k] = None /\ phase'[k] = "read"
            /\ \A j \in Conns \ {k} : busy'[j] = busy[j] /\ phase'[j] = phase[j]
            /\ toWorker' = [toWorker EXCEPT ![k] = <<>>]
        BY <1>0, <3>5 DEF EndSession, CloseWorkerEnd, HelperTypeOK
      <4>1. \A j \in Conns, d \in Calls : \A i \in 1..Len(toWorker'[j]) : ReqAt(j, i, d)' =>
               j # k /\ i \in 1..Len(toWorker[j]) /\ ReqAt(j, i, d)
        BY <1>0, <4>0, ReqClear
      <4>2. QueueInv'
        BY <1>b, <3>3, <4>0, <4>1 DEF QueueInv
      <4>3. BusyInv'
        BY <1>0, <3>4, <4>0 DEF BusyInv
      <4> QED
        BY <3>2, <4>2, <4>3 DEF SentInv
    <3>6. CASE phase' = [phase EXCEPT ![k] = "respond"] /\ UNCHANGED <<busy, channelVars>>
      <4>0. /\ phase'[k] = "respond" /\ UNCHANGED <<busy, toWorker>>
            /\ \A j \in Conns \ {k} : phase'[j] = phase[j]
        BY <1>0, <3>6 DEF HelperTypeOK, channelVars
      <4>1. \A j \in Conns : \A i, d : ReqAt(j, i, d)' <=> ReqAt(j, i, d)
        BY <4>0 DEF ReqAt
      <4>2. QueueInv'
        BY <1>b, <3>3, <4>0, <4>1 DEF QueueInv
      <4>3. BusyInv'
        BY <3>0, <3>1, <3>4, <3>c, <4>0 DEF BusyInv
      <4> QED
        BY <3>2, <4>2, <4>3 DEF SentInv
    <3> QED
      BY <1>11, <3>5, <3>6 DEF HelperExecute
  <2> QED
    BY <1>11, <2>2, <2>3 DEF HelperExecute, Initiate
<1>12. ASSUME NEW k \in Conns, HelperRespond(k) PROVE SentInv'
  <2>0. \A d : Performed(d)' <=> Performed(d)
    BY <1>1, <1>12 DEF HelperRespond
  <2>1. CASE EndSession(k)
    BY <1>8, <2>0, <2>1
  <2>2. CASE /\ busy' = [busy EXCEPT ![k] = None]
             /\ phase' = [phase EXCEPT ![k] = "read"]
             /\ UNCHANGED <<toWorker, session>>
    <3>0. /\ busy'[k] = None /\ UNCHANGED toWorker
          /\ \A j \in Conns \ {k} : busy'[j] = busy[j] /\ phase'[j] = phase[j]
      BY <1>0, <2>2 DEF HelperTypeOK
    <3>1. \A j \in Conns : \A i, d : ReqAt(j, i, d)' <=> ReqAt(j, i, d)
      BY <3>0 DEF ReqAt
    <3>2. QueueInv'
      BY <1>0, <1>b, <2>0, <3>0, <3>1 DEF QueueInv
    <3>3. BusyInv'
      BY <1>0, <1>c, <2>0, <3>0 DEF BusyInv
    <3> QED
      BY <1>1, <1>12, <3>2, <3>3 DEF SentInv, HelperRespond
  <2> QED
    BY <1>12, <2>1, <2>2 DEF HelperRespond
<1>13. ASSUME NEW k \in Conns, HelperEnd(k) PROVE SentInv'
  <2>0. \A d : Performed(d)' <=> Performed(d)
    BY <1>1, <1>13 DEF HelperEnd
  <2> QED
    BY <1>8, <1>13, <2>0 DEF HelperEnd
<1>14. CASE UNCHANGED <<gatewayVars, channelVars, helperVars>>
  BY <1>3, <1>14 DEF channelVars, helperVars
<1> QED
  BY <1>5, <1>6, <1>7, <1>9, <1>10, <1>11, <1>12, <1>13, <1>14, PowerMoves DEF HelperStep
-----------------------------------------------------------------------------
(* A call the gate refuses is answered at once; the rest stays.            *)
LEMMA RefusedLeaves ==
  ASSUME PowerInv, NEW c \in Calls, RefusedStep(c)
  PROVE  /\ co'[c] = "done" /\ outcome'[c].code = "approval_required"
         /\ \A d \in Calls \ {c} : co'[d] = co[d] /\ outcome'[d] = outcome[d]
         /\ UNCHANGED <<call, th, res, lock, cache, active, response, channelVars>>
<1>0. GatewayTypeOK
  BY DEF PowerInv, PowerTypes, DispatchTypes
<1>1. ErrorOutcome("approval_required").code = "approval_required"
  BY DEF ErrorOutcome
<1>2. /\ co' = [co EXCEPT ![c] = "done"]
      /\ outcome' = [outcome EXCEPT ![c] = ErrorOutcome("approval_required")]
      /\ UNCHANGED <<call, th, res, lock, cache, active, response, channelVars>>
  BY DEF RefusedStep, Unauthorized, Answer
<1> HIDE DEF ErrorOutcome
<1> QED
  BY <1>0, <1>1, <1>2 DEF GatewayTypeOK

(* Every frame the helper adds reports a power action it has performed.    *)
LEMMA HelperFrames ==
  ASSUME PowerInv, HelperStep
  PROVE  \A k \in Conns : \A i \in 1..Len(toGateway'[k]) :
           \/ i \in 1..Len(toGateway[k]) /\ toGateway'[k][i] = toGateway[k][i]
           \/ RespOK(toGateway'[k][i]) /\ toGateway'[k][i] \in Reports
<1> DEFINE Goal == \A k \in Conns : \A i \in 1..Len(toGateway'[k]) :
             \/ i \in 1..Len(toGateway[k]) /\ toGateway'[k][i] = toGateway[k][i]
             \/ RespOK(toGateway'[k][i]) /\ toGateway'[k][i] \in Reports
<1>0. ChannelTypeOK /\ DispatchStruct /\ BusyHasCall /\ BusyInv
  BY DEF PowerInv, PowerTypes, DispatchTypes, SentInv
<1>1. ASSUME UNCHANGED toGateway PROVE Goal
  BY <1>1
<1>2. ASSUME NEW k \in Conns, HelperRespond(k) PROVE Goal
  <2> DEFINE m == [id |-> call[busy[k]].op, code |-> "ok", by |-> busy[k]]
  <2>1. phase[k] = "respond" /\ busy[k] \in Calls
    BY <1>0, <1>2 DEF HelperRespond, BusyHasCall
  <2>2. PICK b \in Calls : b = busy[k]
    BY <2>1
  <2>3. th[b] # "none" /\ Performed(b)
    BY <1>0, <2>1, <2>2 DEF BusyInv, Clean
  <2>4. call[b].op \in Ops
    BY <1>0, <2>3 DEF DispatchStruct, Call
  <2>5. m.by = b /\ m.id = call[b].op /\ m \in Response
    BY <2>2, <2>4 DEF Response, ResponseCodes
  <2>6. \/ UNCHANGED toGateway
        \/ toGateway' = [toGateway EXCEPT ![k] = Append(@, m)]
    BY <1>2 DEF HelperRespond, SendToGateway
  <2> HIDE DEF m
  <2>7. RespOK(m) /\ m \in Reports
    BY <2>3, <2>5 DEF RespOK, Reports
  <2>8. CASE toGateway' = [toGateway EXCEPT ![k] = Append(@, m)]
    <3>1. /\ toGateway'[k] = Append(toGateway[k], m) /\ toGateway[k] \in Seq(Response)
          /\ \A j \in Conns \ {k} : toGateway'[j] = toGateway[j]
      BY <1>0, <2>8 DEF ChannelTypeOK
    <3>2. \A i \in 1..Len(toGateway'[k]) :
            \/ i \in 1..Len(toGateway[k]) /\ toGateway'[k][i] = toGateway[k][i]
            \/ toGateway'[k][i] = m
      BY <3>1
    <3> QED
      BY <2>7, <3>1, <3>2
  <2> QED
    BY <1>1, <2>6, <2>8
<1>3. ASSUME NEW k \in Conns,
             HelperConnect(k) \/ HelperRead(k) \/ HelperExecute(k) \/ HelperEnd(k)
      PROVE  Goal
  BY <1>1, <1>3 DEF HelperConnect, HelperRead, HelperExecute, HelperEnd, channelVars
<1> QED
  BY <1>2, <1>3 DEF HelperStep

LEMMA CancelFrames ==
  ASSUME PowerInv, NEW c \in Calls, HelperCancelWrite(c)
  PROVE  /\ \A k \in Conns : \A i \in 1..Len(toGateway'[k]) :
              i \in 1..Len(toGateway[k]) /\ toGateway'[k][i] = toGateway[k][i]
         /\ UNCHANGED <<call, co, outcome, th, res, lock, cache, active, response>>
<1>0. ChannelTypeOK
  BY DEF PowerInv, PowerTypes, DispatchTypes
<1>1. UNCHANGED toGateway \/ toGateway' = [toGateway EXCEPT ![call[c].conn] = <<>>]
  BY DEF HelperCancelWrite, CloseGatewayEnd
<1>2. \A k \in Conns : toGateway'[k] = toGateway[k] \/ toGateway'[k] = <<>>
  BY <1>0, <1>1 DEF ChannelTypeOK
<1>3. \A k \in Conns : \A i \in 1..Len(toGateway'[k]) :
              i \in 1..Len(toGateway[k]) /\ toGateway'[k][i] = toGateway[k][i]
  BY <1>2
<1> QED
  BY <1>3 DEF HelperCancelWrite

(* Every response belongs to its call, also in the helper's pipe.          *)
LEMMA NextCorr ==
  ASSUME PowerInv, GateProofs!GateInv', [Next]_vars
  PROVE  CorrInv'
<1>0. /\ DispatchTypes /\ CorrInv /\ ToGatewayInv
      /\ ExclInv /\ SlotRespInv /\ SlotInv
      /\ TakenInv /\ CacheInv /\ ReturnedInv /\ AnsweredInv
  BY DEF PowerInv, PowerTypes, CorrInv
<1>1. CASE GatewayMove
  BY <1>0, <1>1, MoveCorr
<1>2. ASSUME UNCHANGED <<call, co, outcome, th, res, lock, cache, active, response>>,
             \A k \in Conns : \A i \in 1..Len(toGateway'[k]) :
               \/ i \in 1..Len(toGateway[k]) /\ toGateway'[k][i] = toGateway[k][i]
               \/ RespOK(toGateway'[k][i])
      PROVE  CorrInv'
  <2>1. \A m : RespOK(m)' <=> RespOK(m)
    BY <1>2 DEF RespOK
  <2>2. ToGatewayInv'
    BY <1>0, <1>2, <2>1 DEF ToGatewayInv
  <2> QED
    BY <1>0, <1>2, <2>2, PeerCorr
<1>3. ASSUME NEW c \in Calls, RefusedStep(c) PROVE CorrInv'
  <2>1. /\ co'[c] = "done" /\ outcome'[c].code = "approval_required"
        /\ \A d \in Calls \ {c} : co'[d] = co[d] /\ outcome'[d] = outcome[d]
        /\ UNCHANGED <<call, th, res, lock, cache, active, response, toGateway>>
    BY <1>3, RefusedLeaves DEF channelVars
  <2>2. \A m : RespOK(m)' <=> RespOK(m)
    BY <2>1 DEF RespOK
  <2>3. ExclInv' /\ SlotInv'
    BY <1>0, <2>1 DEF ExclInv, SlotInv
  <2>4. ToGatewayInv' /\ SlotRespInv' /\ TakenInv' /\ CacheInv'
    BY <1>0, <2>1, <2>2 DEF ToGatewayInv, SlotRespInv, TakenInv, CacheInv
  <2>5. ReturnedInv'
    BY <1>0, <2>1, <2>2 DEF ReturnedInv, Good
  <2>6. AnsweredInv'
    BY <1>0, <2>1, <2>2 DEF AnsweredInv, Good
  <2> QED
    BY <2>3, <2>4, <2>5, <2>6 DEF CorrInv
<1>4. ASSUME NEW c \in Calls, HelperCancelWrite(c) PROVE CorrInv'
  BY <1>2, <1>4, CancelFrames
<1>5. CASE HelperStep
  BY <1>2, <1>5, HelperLeaves, HelperFrames
<1>6. CASE UNCHANGED <<gatewayVars, channelVars, helperVars>>
  BY <1>2, <1>6 DEF gatewayVars, channelVars
<1> QED
  BY <1>1, <1>3, <1>4, <1>5, <1>6, PowerMoves

(* Whatever response is on its way to a caller reports a performed action. *)
LEMMA NextHeld ==
  ASSUME PowerInv, GateProofs!GateInv', [Next]_vars
  PROVE  HeldIn(Reports)'
<1>0. DispatchTypes /\ HelperTypeOK /\ BusyHasCall
  BY DEF PowerInv, PowerTypes
<1>1. PICK S : S = Reports
  OBVIOUS
<1>2. PICK T : T = Reports'
  OBVIOUS
<1>3. HeldIn(S)
  BY <1>1 DEF PowerInv, HeldIn
<1>4. HeldIn(T)' => HeldIn(Reports)'
  BY <1>2 DEF HeldIn
<1>5. UNCHANGED performed => S = T
  BY <1>1, <1>2 DEF Reports, Performed
<1>6. S \subseteq T
  <2>1. UNCHANGED performed \/ \E k \in Conns : HelperExecute(k)
    BY PowerMoves DEF helperVars, HelperStep, HelperConnect, HelperRead, HelperRespond, HelperEnd
  <2>2. ASSUME NEW k \in Conns, HelperExecute(k) PROVE S \subseteq T
    <3>1. busy[k] \in Calls /\ performed' \in {performed, Append(performed, busy[k])}
      BY <1>0, <2>2 DEF HelperExecute, Initiate, BusyHasCall
    <3>2. PICK b \in Calls : b = busy[k]
      BY <3>1
    <3>3. CASE performed' = Append(performed, b)
      <4>1. \A d : Performed(d) => Performed(d)'
        BY <1>0, <3>3, PerformedAppend
      <4> QED
        BY <1>1, <1>2, <4>1 DEF Reports
    <3> QED
      BY <1>5, <3>1, <3>2, <3>3
  <2> QED
    BY <1>5, <2>1, <2>2
<1>7. ASSUME UNCHANGED <<co, th, res, cache, outcome, response>>,
             \A k \in Conns : \A i \in 1..Len(toGateway'[k]) :
               \/ i \in 1..Len(toGateway[k]) /\ toGateway'[k][i] = toGateway[k][i]
               \/ toGateway'[k][i] \in Reports
      PROVE  HeldIn(T)'
  <2>1. \A k \in Conns : \A i \in 1..Len(toGateway'[k]) : toGateway'[k][i] \in T
    BY <1>1, <1>3, <1>6, <1>7 DEF HeldIn
  <2> QED
    BY <1>3, <1>6, <1>7, <2>1, PeerHeld
<1>8. CASE GatewayMove /\ UNCHANGED helperVars
  <2>1. HeldIn(S)'
    BY <1>0, <1>3, <1>8, MoveHeld
  <2>2. S = T
    BY <1>5, <1>8 DEF helperVars
  <2> QED
    BY <1>4, <2>1, <2>2
<1>9. ASSUME NEW c \in Calls, RefusedStep(c), UNCHANGED helperVars PROVE HeldIn(T)'
  <2>1. /\ co'[c] = "done" /\ outcome'[c].code = "approval_required"
        /\ \A d \in Calls \ {c} : co'[d] = co[d] /\ outcome'[d] = outcome[d]
        /\ UNCHANGED <<th, res, cache, response, toGateway>>
    BY <1>9, RefusedLeaves DEF channelVars
  <2>2. S = T
    BY <1>5, <1>9 DEF helperVars
  <2> QED
    BY <1>3, <2>1, <2>2 DEF HeldIn
<1>10. ASSUME NEW c \in Calls, HelperCancelWrite(c) PROVE HeldIn(T)'
  BY <1>7, <1>10, CancelFrames
<1>11. CASE HelperStep
  BY <1>4, <1>7, <1>11, HelperLeaves, HelperFrames
<1>12. CASE UNCHANGED <<gatewayVars, channelVars, helperVars>>
  BY <1>4, <1>7, <1>12 DEF gatewayVars, channelVars
<1> QED
  BY <1>4, <1>8, <1>9, <1>10, <1>11, <1>12, PowerMoves

LEMMA NextPowerInv == PowerInv /\ [Next]_vars => PowerInv'
<1> SUFFICES ASSUME PowerInv, [Next]_vars PROVE PowerInv'
  OBVIOUS
<1>1. GateProofs!GateInv'
  BY PowerAssumption, SameGate, GateStep, GateProofs!NextGateInv DEF PowerInv
<1>2. PowerTypes'
  BY <1>1, NextPowerTypes DEF PowerInv, SentInv
<1> QED
  BY <1>1, <1>2, NextRaisedInv, NextDispatchedInv, NextSentInv, NextCorr, NextHeld DEF PowerInv

LEMMA PowerInvariant == Spec => []PowerInv
  BY InitPowerInv, NextPowerInv, PTL DEF Spec

(* Every field of gate, dispatcher, pipe and helper has a value of its     *)
(* type in every reachable state (ApprovalManager, GatewayDispatcher,      *)
(* GatewayHelperWatcher).                                                  *)
THEOREM PowerTypesCorrect == Spec => []TypeOK
<1>1. GateProofs!TypeOK => Gate!TypeOK
  BY DEF GateProofs!TypeOK, Gate!TypeOK, GateProofs!Record, Gate!Record,
      GateProofs!Request, Gate!Request, GateProofs!ApprovalStates, Gate!ApprovalStates
<1>2. PowerInv => TypeOK
  BY <1>1 DEF PowerInv, PowerTypes, DispatchTypes, GateProofs!GateInv, TypeOK
<1> QED
  BY <1>2, PowerInvariant, PTL

(* "ok" is answered only if Windows has accepted a power action requested  *)
(* under this operation id, also by a replay or a late answer (_send,      *)
(* IdempotencyStore.execute, deliver).                                     *)
THEOREM OkIsPerformed == Spec => []OkMeansPerformed
<1>1. PowerInv => OkMeansPerformed
  <2> SUFFICES ASSUME PowerInv, NEW c \in Calls, outcome[c] # None, outcome[c].code = "ok"
               PROVE  \E d \in Calls : /\ Performed(d)
                                       /\ outcome[c].resp.by = d
                                       /\ call[d].op = call[c].op
    BY DEF OkMeansPerformed
  <2>1. outcome[c].resp \in Reports
    BY DEF PowerInv, HeldIn
  <2>2. RespOK(outcome[c].resp) /\ outcome[c].resp.id = call[c].op
    BY DEF PowerInv, CorrInv, AnsweredInv, Good
  <2>3. outcome[c].resp.by \in Calls
    BY <2>2 DEF RespOK, Response
  <2> QED
    BY <2>1, <2>2, <2>3 DEF Reports, RespOK
<1> QED
  BY <1>1, PowerInvariant, PTL

(* Whatever Windows did is in the audit trail once the caller is done: no  *)
(* exception escapes to a caller whose action was performed (_send,        *)
(* _error, AuditRecorder.record).                                          *)
THEOREM PowerAudited == Spec => []AuditedPower
<1>1. PowerInv => AuditedPower
  BY DEF PowerInv, SentInv, PerformedInv, Clean, AuditedPower, Audited
<1> QED
  BY <1>1, PowerInvariant, PTL
-----------------------------------------------------------------------------
(* The history of the abstract specification.                              *)
History == [i \in DOMAIN performed |-> <<performed[i], call[performed[i]].payload>>]

(* The consents not used are those of the authorized calls.                *)
OpenConsents ==
    /\ \A c \in Calls : by[c] # None => req[c].payload \in Payloads
    /\ \A x : x \in Consents <=>
         \E c \in Calls : by[c] # None /\ ~Performed(c) /\ x = <<c, req[c].payload>>

LEMMA ConsentsOpen == PowerInv => OpenConsents
<1> SUFFICES ASSUME PowerInv PROVE OpenConsents
  OBVIOUS
<1>1. \A d \in Calls : (answer[d] = "yes" /\ \E e \in Calls : by[e] = d) <=> by[d] # None
  BY GateFacts, ExchangeAssumption DEF PowerInv
<1>2. \A d \in Calls :
        by[d] # None => records[d].payload = req[d].payload /\ req[d].payload \in Payloads
  BY GateFacts DEF PowerInv
<1> QED
  BY <1>1, <1>2 DEF Consents, OpenConsents

(* A performed call was authorized for what was performed.                 *)
LEMMA PerformedFacts ==
  ASSUME PowerInv, NEW c \in Calls, Performed(c) \/ Clean(c)
  PROVE  Clean(c) /\ stage[c] = "done" /\ by[c] # None /\ call[c].payload = req[c].payload
<1>1. Clean(c)
  BY DEF PowerInv, SentInv, PerformedInv
<1> QED
  BY <1>1 DEF PowerInv, DispatchedInv, Clean

LEMMA HistoryKept ==
  ASSUME PowerInv, PowerInv', [Next]_vars, UNCHANGED performed
  PROVE  History' = History
<1>1. performed \in Seq(Calls)
  BY DEF PowerInv, PowerTypes, HelperTypeOK
<1>2. \A i \in DOMAIN performed : performed[i] \in Calls /\ Performed(performed[i])
  BY <1>1 DEF Performed
<1>3. \A c \in Calls : Performed(c) => call'[c] = call[c]
  BY PerformedFacts, CleanStable DEF PowerInv
<1>4. \A i \in DOMAIN performed : call'[performed[i]] = call[performed[i]]
  BY <1>2, <1>3
<1> QED
  BY <1>4 DEF History

LEMMA HistoryGrows ==
  ASSUME PowerInv, NEW b \in Calls, performed' = Append(performed, b), UNCHANGED call
  PROVE  History' = Append(History, <<b, call[b].payload>>)
<1>1. performed \in Seq(Calls) /\ Len(performed) \in Nat /\ DOMAIN performed = 1..Len(performed)
  BY DEF PowerInv, PowerTypes, HelperTypeOK
<1> DEFINE n == Len(performed)
           x == <<b, call[b].payload>>
           f(i) == <<performed[i], call[performed[i]].payload>>
<1>2. /\ DOMAIN performed' = 1..(n + 1) /\ performed'[n + 1] = b
      /\ \A i \in 1..n : performed'[i] = performed[i]
  BY <1>1
<1>3. History = [i \in 1..n |-> f(i)]
  BY <1>1 DEF History
<1>4. History' = [i \in 1..(n + 1) |-> <<performed'[i], call[performed'[i]].payload>>]
  BY <1>2 DEF History
<1>5. Append(History, x) = [i \in 1..(n + 1) |-> IF i = n + 1 THEN x ELSE History[i]]
  <2>1. History \in Seq({f(i) : i \in 1..n}) /\ Len(History) = n
    <3>1. History \in [1..n -> {f(i) : i \in 1..n}]
      BY <1>3
    <3> QED
      BY <1>1, <3>1
  <2> QED
    BY <1>1, <2>1
<1>6. \A i \in 1..(n + 1) :
        <<performed'[i], call[performed'[i]].payload>> = IF i = n + 1 THEN x ELSE History[i]
  <2> SUFFICES ASSUME NEW i \in 1..(n + 1)
               PROVE  <<performed'[i], call[performed'[i]].payload>>
                      = IF i = n + 1 THEN x ELSE History[i]
    OBVIOUS
  <2>1. CASE i = n + 1
    BY <1>2, <2>1
  <2>2. CASE i # n + 1
    <3>1. i \in 1..n
      BY <1>1, <2>2
    <3> QED
      BY <1>2, <1>3, <2>2, <3>1
  <2> QED
    BY <2>1, <2>2
<1>7. [i \in 1..(n + 1) |-> <<performed'[i], call[performed'[i]].payload>>]
      = [i \in 1..(n + 1) |-> IF i = n + 1 THEN x ELSE History[i]]
  BY <1>6
<1> QED
  BY <1>4, <1>5, <1>7

(* The gate or the helper moves, and only then the abstract state.         *)
LEMMA ConsentStep ==
  ASSUME PowerInv, PowerInv', [Next]_vars
  PROVE  [Abstract!Next]_(Abstract!abstractVars)
<1>a. \A x : x \in Consents <=>
        \E c \in Calls : by[c] # None /\ ~Performed(c) /\ x = <<c, req[c].payload>>
  BY ConsentsOpen DEF OpenConsents
<1>n. OpenConsents'
  BY ConsentsOpen, PTL
<1>b. \A x : x \in Consents' <=>
        \E c \in Calls : by'[c] # None /\ ~Performed(c)' /\ x = <<c, req'[c].payload>>
  BY <1>n DEF OpenConsents
<1>c. \A c \in Calls : by[c] # None => by'[c] = by[c] /\ req'[c] = req[c]
  BY GateFacts, GateStable DEF PowerInv
<1>1. ASSUME UNCHANGED performed, \A c \in Calls : by'[c] # None => by[c] # None
      PROVE  UNCHANGED Abstract!abstractVars
  <2>1. History' = History
    BY <1>1, HistoryKept
  <2>2. \A c : Performed(c)' <=> Performed(c)
    BY <1>1 DEF Performed
  <2>3. \A x : x \in Consents' <=> x \in Consents
    BY <1>1, <1>a, <1>b, <1>c, <2>2
  <2>4. Consents' = Consents
    BY <2>3
  <2> QED
    BY <2>1, <2>4 DEF Abstract!abstractVars, History
<1>2. ASSUME NEW c \in Calls, Answered(c) PROVE [Abstract!Next]_(Abstract!abstractVars)
  <2>1. /\ stage[c] # "done" /\ by[c] = None
        /\ \A d \in Calls \ {c} : by'[d] = by[d] /\ req'[d] = req[d]
    BY <1>2, GateAnswers DEF PowerInv
  <2>2. UNCHANGED performed
    BY <1>2 DEF Answered, helperVars
  <2>3. CASE by'[c] = None
    BY <1>1, <2>1, <2>2, <2>3
  <2>4. CASE by'[c] # None
    <3>1. PICK p : p = req'[c].payload
      OBVIOUS
    <3>2. p \in Payloads
      BY <1>n, <2>4, <3>1 DEF OpenConsents
    <3>3. ~Performed(c)
      BY <2>1, PerformedFacts
    <3>4. \A d : Performed(d)' <=> Performed(d)
      BY <2>2 DEF Performed
    <3>5. \A x : x \in Consents' <=> x \in Consents \/ x = <<c, p>>
      BY <1>a, <1>b, <2>1, <2>4, <3>1, <3>3, <3>4
    <3>6. Consents' = Consents \cup {<<c, p>>}
      BY <3>5
    <3>7. History' = History
      BY <2>2, HistoryKept
    <3>8. Abstract!Consent(c, p)
      BY <3>6, <3>7 DEF Abstract!Consent, History
    <3> QED
      BY <3>2, <3>8 DEF Abstract!Next
  <2> QED
    BY <2>3, <2>4
<1>3. ASSUME NEW k \in Conns, HelperExecute(k), performed' # performed, UNCHANGED gateVars
      PROVE  Abstract!Next
  <2>1. busy[k] \in Calls
    BY <1>3 DEF HelperExecute, PowerInv, PowerTypes, BusyHasCall
  <2>2. PICK b \in Calls : b = busy[k]
    BY <2>1
  <2>3. performed' = Append(performed, b) /\ UNCHANGED call
    BY <1>3, <2>2 DEF HelperExecute, Initiate, gatewayVars
  <2>4. Clean(b) /\ ~Performed(b)
    BY <1>3, <2>2 DEF HelperExecute, PowerInv, SentInv, BusyInv
  <2>5. by[b] # None /\ call[b].payload = req[b].payload
    BY <2>4, PerformedFacts
  <2>6. PICK p : p = req[b].payload
    OBVIOUS
  <2>7. p \in Payloads
    BY <2>5, <2>6, GateFacts DEF PowerInv
  <2>8. <<b, p>> \in Consents
    BY <1>a, <2>4, <2>5, <2>6
  <2>9. \A d : Performed(d)' <=> Performed(d) \/ d = b
    BY <2>3, PerformedAppend DEF PowerInv, PowerTypes
  <2>10. by' = by /\ req' = req
    BY <1>3 DEF gateVars
  <2>11. \A x : x \in Consents' <=> x \in Consents /\ x # <<b, p>>
    <3> SUFFICES ASSUME NEW x PROVE x \in Consents' <=> x \in Consents /\ x # <<b, p>>
      OBVIOUS
    <3>1. ASSUME x \in Consents' PROVE x \in Consents /\ x # <<b, p>>
      <4>1. PICK c \in Calls : by[c] # None /\ ~Performed(c)' /\ x = <<c, req[c].payload>>
        BY <1>b, <2>10, <3>1
      <4>2. ~Performed(c) /\ c # b
        BY <2>9, <4>1
      <4> QED
        BY <1>a, <4>1, <4>2
    <3>2. ASSUME x \in Consents, x # <<b, p>> PROVE x \in Consents'
      <4>1. PICK c \in Calls : by[c] # None /\ ~Performed(c) /\ x = <<c, req[c].payload>>
        BY <1>a, <3>2
      <4>2. c # b
        BY <2>6, <3>2, <4>1
      <4>3. ~Performed(c)'
        BY <2>9, <4>1, <4>2
      <4> QED
        BY <1>b, <2>10, <4>1, <4>3
    <3> QED
      BY <3>1, <3>2
  <2>12. Consents' = Consents \ {<<b, p>>}
    BY <2>11
  <2>13. History' = Append(History, <<b, p>>)
    BY <2>3, <2>5, <2>6, HistoryGrows
  <2>14. Abstract!Perform(b, p)
    BY <2>8, <2>12, <2>13 DEF Abstract!Perform, History
  <2> QED
    BY <2>7, <2>14 DEF Abstract!Next
<1>4. CASE UNCHANGED <<performed, by>>
  BY <1>1, <1>4
<1>5. CASE HelperStep /\ UNCHANGED gateVars
  <2>1. UNCHANGED performed \/ \E k \in Conns : HelperExecute(k)
    BY <1>5 DEF HelperStep, HelperConnect, HelperRead, HelperRespond, HelperEnd, helperVars
  <2>2. UNCHANGED by
    BY <1>5 DEF gateVars
  <2> QED
    BY <1>3, <1>4, <1>5, <2>1, <2>2
<1>6. ASSUME NEW c \in Calls, NEW q \in Gate!Request, Ask(c, q) PROVE UNCHANGED <<performed, by>>
  BY <1>6 DEF Ask, Gate!Elicit, helperVars
<1>7. ASSUME Tick \/ UNCHANGED vars \/ UNCHANGED <<helperVars, gateVars>>
      PROVE  UNCHANGED <<performed, by>>
  BY <1>7 DEF Tick, Gate!Tick, helperVars, gateVars, vars
<1> QED
  BY <1>2, <1>4, <1>5, <1>6, <1>7 DEF Next

(* The composition of gate, dispatcher and helper implements the abstract  *)
(* specification: every reboot and shutdown is the one use of one consent  *)
(* to that tool and those arguments (authorize, _send,                     *)
(* HelperSession._dispatch).                                               *)
THEOREM ConsentImplemented == Spec => ConsentedPowerSpec
<1>1. Init => Abstract!Init
  <2> SUFFICES ASSUME Init PROVE Consents = {} /\ History = <<>>
    BY DEF Abstract!Init, History
  <2>1. performed = <<>> /\ \A c \in Calls : by[c] = None
    BY DEF Init, HelperInit, Gate!Init
  <2>2. \A c \in Calls : c # None
    BY ExchangeAssumption
  <2>3. Consents = {}
    BY <2>1, <2>2 DEF Consents
  <2>4. History = <<>>
    BY <2>1 DEF History
  <2> QED
    BY <2>3, <2>4
<1>2. PowerInv /\ PowerInv' /\ [Next]_vars => [Abstract!Next]_(Abstract!abstractVars)
  BY ConsentStep
<1> QED
  BY <1>1, <1>2, PowerInvariant, PTL DEF Spec, ConsentedPowerSpec, Abstract!Spec
=============================================================================
