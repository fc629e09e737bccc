----------------------- MODULE WorkerExchangeProofs ------------------------
(***************************************************************************)
(* Proofs about WorkerExchange for every set of calls, operation ids and   *)
(* payloads and any number of pipe instances.                              *)
(***************************************************************************)
EXTENDS WorkerExchange, GatewayDispatchProofs

(* A request thread that was started has an operation and a session, and a *)
(* finished one a result.                                                  *)
ExecStruct ==
    \A c \in Calls :
        /\ exec[c].st # "none" => exec[c].op \in Ops /\ exec[c].conn \in Conns
        /\ exec[c].st = "finished" => exec[c].code \in ResponseCodes

TypeInv == TypeOK /\ DispatchStruct /\ ExecStruct

LEMMA InitTypeInv == Init => TypeInv
<1> SUFFICES ASSUME Init PROVE TypeInv
  OBVIOUS
<1>1. DispatchTypes
  BY InitDispatchTypes DEF Init
<1>2. WorkerTypeOK /\ ExecStruct
  BY ExchangeAssumption DEF Init, WorkerInit, WorkerTypeOK, ExecStruct, ExecStates, Exec, Conns
<1> QED
  BY <1>1, <1>2 DEF TypeInv, TypeOK, DispatchTypes

(* The records a request thread goes through.                              *)
LEMMA ExecTypes ==
  ASSUME NEW e \in Exec
  PROVE  /\ [e EXCEPT !.st = "running"] \in Exec
         /\ [e EXCEPT !.st = "done"] \in Exec
         /\ [e EXCEPT !.st = "written", !.code = None] \in Exec
         /\ \A code \in ResponseCodes : [e EXCEPT !.st = "finished", !.code = code] \in Exec
  BY DEF Exec, ExecStates

(* What the end of a handler leaves of the request thread.                 *)
LEMMA FinishedExec ==
  ASSUME WorkerTypeOK, NEW c \in Calls, ExecFinish(c)
  PROVE  \E e \in Exec :
           /\ exec' = [exec EXCEPT ![c] = e]
           /\ e.op = exec[c].op /\ e.conn = exec[c].conn
           /\ e.st \in {"finished", "written"}
           /\ e.st = "finished" => e.code \in ResponseCodes
<1>0. exec[c] \in Exec
  BY DEF WorkerTypeOK
<1>1. CASE \E code \in ResponseCodes :
             exec' = [exec EXCEPT ![c] = [@ EXCEPT !.st = "finished", !.code = code]]
  <2>1. PICK code \in ResponseCodes :
          exec' = [exec EXCEPT ![c] = [@ EXCEPT !.st = "finished", !.code = code]]
    BY <1>1
  <2> DEFINE e == [exec[c] EXCEPT !.st = "finished", !.code = code]
  <2>2. /\ e \in Exec /\ e.op = exec[c].op /\ e.conn = exec[c].conn
        /\ e.st = "finished" /\ e.code = code
    BY <1>0 DEF Exec, ExecStates
  <2>3. exec' = [exec EXCEPT ![c] = e]
    BY <2>1
  <2> HIDE DEF e
  <2> QED
    BY <2>2, <2>3
<1>2. CASE exec' = [exec EXCEPT ![c] = [@ EXCEPT !.st = "written"]]
  <2> DEFINE e == [exec[c] EXCEPT !.st = "written"]
  <2>1. /\ e \in Exec /\ e.op = exec[c].op /\ e.conn = exec[c].conn /\ e.st = "written"
    BY <1>0 DEF Exec, ExecStates
  <2>2. exec' = [exec EXCEPT ![c] = e]
    BY <1>2
  <2> HIDE DEF e
  <2> QED
    BY <2>1, <2>2
<1> QED
  BY <1>1, <1>2 DEF ExecFinish, ResponseCodes

LEMMA NextTypeInv == TypeInv /\ [Next]_vars => TypeInv'
<1> SUFFICES ASSUME TypeInv, DispatchTypes, [Next]_vars PROVE TypeInv'
  BY DEF TypeInv, TypeOK, DispatchTypes
<1>0. ChannelTypeOK /\ GatewayTypeOK /\ WorkerTypeOK /\ DispatchStruct /\ ExecStruct
  BY DEF TypeInv, TypeOK
<1>1. ASSUME GatewayMove, UNCHANGED workerVars
      PROVE  TypeInv'
  <2>1. DispatchTypes'
    BY <1>1, MoveTypes
  <2>2. WorkerTypeOK' /\ ExecStruct'
    BY <1>0, <1>1 DEF WorkerTypeOK, ExecStruct, workerVars
  <2> QED
    BY <2>1, <2>2 DEF TypeInv, TypeOK, DispatchTypes
<1>2. ASSUME NEW c \in Calls, ExecReject(c), UNCHANGED gatewayVars
       PROVE  TypeInv'
  <2>0. exec[c] \in Exec /\ "failed" \in ResponseCodes
    BY <1>0 DEF WorkerTypeOK, ResponseCodes
  <2>1. ChannelTypeOK'
    BY <1>0, <1>2, <2>0, ExecTypes DEF ExecReject, ChannelTypeOK, channelVars
  <2>2. GatewayTypeOK'
    BY <1>0, <1>2, <2>0, ExecTypes DEF GatewayTypeOK, gatewayVars
  <2>3. WorkerTypeOK'
    BY <1>0, <1>2, <2>0, ExecTypes DEF ExecReject, WorkerTypeOK
  <2>4. (DispatchStruct /\ ExecStruct)'
    BY <1>0, <1>2, <2>0 DEF Exec, ExecReject, DispatchStruct, ExecStruct, WorkerTypeOK, gatewayVars
  <2> QED
    BY <2>1, <2>2, <2>3, <2>4 DEF TypeInv, TypeOK
<1>3. ASSUME NEW c \in Calls, ExecBegin(c), UNCHANGED gatewayVars
       PROVE  TypeInv'
  <2>0. exec[c] \in Exec /\ "failed" \in ResponseCodes
    BY <1>0 DEF WorkerTypeOK, ResponseCodes
  <2>1. ChannelTypeOK'
    BY <1>0, <1>3, <2>0, ExecTypes DEF ExecBegin, ChannelTypeOK, channelVars
  <2>2. GatewayTypeOK'
    BY <1>0, <1>3, <2>0, ExecTypes DEF GatewayTypeOK, gatewayVars
  <2>3. WorkerTypeOK'
    <3>1. exec[c].op \in Ops
      BY <1>0, <1>3 DEF ExecBegin, DispatchStruct, ExecStruct
    <3> QED
      BY <1>0, <1>3, <2>0, <3>1, ExecTypes DEF ExecBegin, WorkerTypeOK
  <2>4. (DispatchStruct /\ ExecStruct)'
    BY <1>0, <1>3, <2>0 DEF ExecBegin, Exec, DispatchStruct, ExecStruct, WorkerTypeOK, gatewayVars
  <2> QED
    BY <2>1, <2>2, <2>3, <2>4 DEF TypeInv, TypeOK
<1>4. ASSUME NEW c \in Calls, ExecFinish(c), UNCHANGED gatewayVars
       PROVE  TypeInv'
  <2>0. exec[c].op \in Ops /\ exec[c].conn \in Conns
    BY <1>0, <1>4 DEF ExecFinish, DispatchStruct, ExecStruct
  <2>1. PICK e \in Exec : /\ exec' = [exec EXCEPT ![c] = e]
                          /\ e.op = exec[c].op /\ e.conn = exec[c].conn
                          /\ e.st = "finished" => e.code \in ResponseCodes
    BY <1>0, <1>4, FinishedExec
  <2>2. ChannelTypeOK'
    BY <1>0, <1>4 DEF ExecFinish, ChannelTypeOK, channelVars
  <2>3. GatewayTypeOK'
    BY <1>0, <1>4 DEF GatewayTypeOK, gatewayVars
  <2>4. WorkerTypeOK'
    BY <1>0, <1>4, <2>1 DEF ExecFinish, WorkerTypeOK
  <2>5. (DispatchStruct /\ ExecStruct)'
    <3>1. exec'[c] = e /\ \A d \in Calls \ {c} : exec'[d] = exec[d]
      BY <1>0, <2>1 DEF WorkerTypeOK
    <3> QED
      BY <1>0, <1>4, <2>0, <2>1, <3>1 DEF DispatchStruct, ExecStruct, gatewayVars
  <2> QED
    BY <2>2, <2>3, <2>4, <2>5 DEF TypeInv, TypeOK
<1>5. ASSUME NEW c \in Calls, ExecWrite(c), UNCHANGED gatewayVars
       PROVE  TypeInv'
  <2> DEFINE m == [id |-> exec[c].op, code |-> exec[c].code, by |-> c]
  <2>0. exec[c] \in Exec /\ exec[c].conn \in Conns /\ m \in Response
    BY <1>0, <1>5 DEF ExecWrite, WorkerTypeOK, DispatchStruct, ExecStruct, Response
  <2>1. ChannelTypeOK'
    <3>1. /\ \/ toGateway' = toGateway
             \/ toGateway' = [toGateway EXCEPT ![exec[c].conn] = Append(@, m)]
          /\ UNCHANGED <<toWorker, closed, session>>
      BY <1>5 DEF ExecWrite, SendToGateway
    <3> HIDE DEF m
    <3> QED
      <4>1. toWorker' \in [Conns -> Seq(Request)]
        BY <1>0, <2>0, <3>1 DEF ChannelTypeOK
      <4>2. toGateway' \in [Conns -> Seq(Response)]
        <5>1. CASE toGateway' = toGateway
          BY <1>0, <2>0, <5>1 DEF ChannelTypeOK
        <5>2. CASE toGateway' = [toGateway EXCEPT ![exec[c].conn] = Append(@, m)]
          BY <1>0, <2>0, <5>2 DEF ChannelTypeOK
        <5> QED
          BY <3>1, <5>1, <5>2
      <4> QED
        BY <1>0, <2>0, <3>1, <4>1, <4>2 DEF ChannelTypeOK
  <2>2. GatewayTypeOK'
    BY <1>0, <1>5 DEF GatewayTypeOK, gatewayVars
  <2>3. WorkerTypeOK'
    BY <1>0, <1>5, <2>0, ExecTypes DEF ExecWrite, WorkerTypeOK
  <2>4. (DispatchStruct /\ ExecStruct)'
    BY <1>0, <1>5, <2>0 DEF ExecWrite, Exec, DispatchStruct, ExecStruct, WorkerTypeOK, gatewayVars
  <2> QED
    BY <2>1, <2>2, <2>3, <2>4 DEF TypeInv, TypeOK
<1>6. ASSUME NEW c \in Calls, ExecRelease(c), UNCHANGED gatewayVars
       PROVE  TypeInv'
  <2>0. exec[c] \in Exec /\ "failed" \in ResponseCodes
    BY <1>0 DEF WorkerTypeOK, ResponseCodes
  <2>1. ChannelTypeOK'
    BY <1>0, <1>6, <2>0, ExecTypes DEF ExecRelease, ChannelTypeOK, channelVars
  <2>2. GatewayTypeOK'
    BY <1>0, <1>6, <2>0, ExecTypes DEF GatewayTypeOK, gatewayVars
  <2>3. WorkerTypeOK'
    BY <1>0, <1>6, <2>0, ExecTypes DEF ExecRelease, WorkerTypeOK
  <2>4. (DispatchStruct /\ ExecStruct)'
    BY <1>0, <1>6, <2>0 DEF ExecRelease, Exec, DispatchStruct, ExecStruct, WorkerTypeOK, gatewayVars
  <2> QED
    BY <2>1, <2>2, <2>3, <2>4 DEF TypeInv, TypeOK
<1>7. ASSUME NEW k \in Conns, Connect(k)
       PROVE  TypeInv'
  <2>1. ChannelTypeOK' /\ GatewayTypeOK'
    BY <1>0, <1>7 DEF Connect, ChannelTypeOK, GatewayTypeOK, Conns
  <2>2. WorkerTypeOK' /\ (DispatchStruct /\ ExecStruct)'
    BY <1>0, <1>7 DEF Connect, WorkerTypeOK, DispatchStruct, ExecStruct, workerVars
  <2> QED
    BY <2>1, <2>2 DEF TypeInv, TypeOK
<1>8. ASSUME NEW k \in Conns, ReadRequest(k), UNCHANGED gatewayVars
       PROVE  TypeInv'
  <2> DEFINE m == Head(toWorker[k])
             e == [st |-> "starting", op |-> m.id, conn |-> k, code |-> None]
             busy == [id |-> m.id, code |-> "busy", by |-> m.call]
  <2>a. toWorker[k] # <<>> /\ m \in Request /\ m.call \in Calls /\ m.id \in Ops
    BY <1>8, FrameTypes DEF ReadRequest, Request
  <2>b. e \in Exec /\ busy \in Response
    BY <2>a DEF Exec, ExecStates, Response, ResponseCodes
  <2>c. \/ sactive' = sactive /\ exec' = exec
        \/ sactive' = [sactive EXCEPT ![k] = m.id] /\ exec' = [exec EXCEPT ![m.call] = e]
    BY <1>8 DEF ReadRequest
  <2>d. /\ toGateway' = toGateway \/ toGateway' = [toGateway EXCEPT ![k] = Append(@, busy)]
        /\ toWorker' = [toWorker EXCEPT ![k] = Tail(@)]
        /\ UNCHANGED <<closed, session, handlers, cancelled>>
    BY <1>8 DEF ReadRequest, SendToGateway
  <2>e. e.st = "starting" /\ e.op \in Ops /\ e.conn \in Conns
    BY <2>a
  <2> HIDE DEF m, e, busy
  <2>1. ChannelTypeOK'
    <3>1. toWorker' \in [Conns -> Seq(Request)]
      BY <1>0, <2>a, <2>d, FrameTypes DEF ChannelTypeOK
    <3>2. toGateway' \in [Conns -> Seq(Response)]
      <4>1. CASE toGateway' = toGateway
        BY <1>0, <2>b, <4>1 DEF ChannelTypeOK
      <4>2. CASE toGateway' = [toGateway EXCEPT ![k] = Append(@, busy)]
        BY <1>0, <2>b, <4>2 DEF ChannelTypeOK
      <4> QED
        BY <2>d, <4>1, <4>2
    <3> QED
      BY <1>0, <2>d, <3>1, <3>2 DEF ChannelTypeOK
  <2>2. GatewayTypeOK'
    BY <1>0, <1>8 DEF GatewayTypeOK, gatewayVars
  <2>3. WorkerTypeOK'
    BY <1>0, <2>a, <2>b, <2>c, <2>d DEF WorkerTypeOK
  <2>4. (DispatchStruct /\ ExecStruct)'
    BY <1>0, <1>8, <2>a, <2>c, <2>e DEF DispatchStruct, ExecStruct, WorkerTypeOK, gatewayVars
  <2> QED
    BY <2>1, <2>2, <2>3, <2>4 DEF TypeInv, TypeOK
<1>9. ASSUME NEW k \in Conns, ReadCancel(k), UNCHANGED gatewayVars
       PROVE  TypeInv'
  <2>0. toWorker[k] # <<>> /\ Head(toWorker[k]) \in Request /\ Head(toWorker[k]).id \in Ops
    BY <1>9, FrameTypes DEF ReadCancel, Request
  <2>1. ChannelTypeOK'
    BY <1>0, <1>9, <2>0, FrameTypes DEF ReadCancel, ChannelTypeOK, channelVars
  <2>2. GatewayTypeOK'
    BY <1>0, <1>9, <2>0, FrameTypes DEF GatewayTypeOK, gatewayVars
  <2>3. WorkerTypeOK'
    BY <1>0, <1>9, <2>0, FrameTypes DEF ReadCancel, WorkerTypeOK, Cancelling
  <2>4. (DispatchStruct /\ ExecStruct)'
    BY <1>0, <1>9, <2>0, FrameTypes DEF ReadCancel, DispatchStruct, ExecStruct, WorkerTypeOK,
       gatewayVars
  <2> QED
    BY <2>1, <2>2, <2>3, <2>4 DEF TypeInv, TypeOK
<1>10. ASSUME NEW k \in Conns, SessionStop(k), UNCHANGED gatewayVars
       PROVE  TypeInv'
  <2>1. ChannelTypeOK'
    BY <1>0, <1>10 DEF SessionStop, ChannelTypeOK, channelVars
  <2>2. GatewayTypeOK'
    BY <1>0, <1>10 DEF GatewayTypeOK, gatewayVars
  <2>3. WorkerTypeOK'
    BY <1>0, <1>10 DEF SessionStop, WorkerTypeOK, Cancelling
  <2>4. (DispatchStruct /\ ExecStruct)'
    BY <1>0, <1>10 DEF SessionStop, DispatchStruct, ExecStruct, WorkerTypeOK, gatewayVars
  <2> QED
    BY <2>1, <2>2, <2>3, <2>4 DEF TypeInv, TypeOK
<1>11. ASSUME NEW k \in Conns, SessionClose(k), UNCHANGED gatewayVars
       PROVE  TypeInv'
  <2>1. ChannelTypeOK'
    BY <1>0, <1>11, FrameTypes DEF SessionClose, ChannelTypeOK, channelVars, CloseWorkerEnd
  <2>2. GatewayTypeOK'
    BY <1>0, <1>11, FrameTypes DEF GatewayTypeOK, gatewayVars
  <2>3. WorkerTypeOK'
    BY <1>0, <1>11, FrameTypes DEF SessionClose, WorkerTypeOK, workerVars
  <2>4. (DispatchStruct /\ ExecStruct)'
    BY <1>0, <1>11, FrameTypes DEF SessionClose, DispatchStruct, ExecStruct, WorkerTypeOK,
       gatewayVars, workerVars
  <2> QED
    BY <2>1, <2>2, <2>3, <2>4 DEF TypeInv, TypeOK
<1>12. CASE UNCHANGED vars
  BY <1>0, <1>12 DEF vars, gatewayVars, workerVars, channelVars, TypeInv, TypeOK, DispatchStruct,
     ExecStruct,
     ChannelTypeOK, GatewayTypeOK, WorkerTypeOK
<1> QED
  BY <1>1, <1>2, <1>3, <1>4, <1>5, <1>6, <1>7, <1>8, <1>9, <1>10, <1>11, <1>12
  DEF Next, GatewayMove, ThreadStep

(* Every variable of the exchange keeps its type, whatever the calls, the  *)
(* retries and the reconnects.                                             *)
THEOREM TypeCorrect == Spec => []TypeOK
<1>1. TypeInv => TypeOK
  BY DEF TypeInv
<1> QED
  BY InitTypeInv, NextTypeInv, <1>1, PTL DEF Spec
-----------------------------------------------------------------------------
(* A busy request thread holds its session.                                *)
SessionInv ==
    /\ SessionRunsOne
    /\ \A c \in Calls : exec[c].st \in BusyExec => sactive[exec[c].conn] = exec[c].op

LEMMA NextSessionInv == TypeInv /\ SessionInv /\ [Next]_vars => SessionInv'
<1> SUFFICES ASSUME TypeInv, DispatchTypes, SessionInv, [Next]_vars PROVE SessionInv'
  BY DEF TypeInv, TypeOK, DispatchTypes
<1>0. ChannelTypeOK /\ WorkerTypeOK /\ DispatchStruct /\ ExecStruct
  BY DEF TypeInv, TypeOK
<1>1. ASSUME UNCHANGED <<exec, sactive>> PROVE SessionInv'
  BY <1>1 DEF SessionInv, SessionRunsOne
<1>2. ASSUME NEW c \in Calls, NEW e, exec[c].st \in BusyExec, UNCHANGED sactive,
             exec' = [exec EXCEPT ![c] = e], e.conn = exec[c].conn, e.op = exec[c].op
      PROVE  SessionInv'
  <2>1. exec'[c] = e /\ \A d \in Calls \ {c} : exec'[d] = exec[d]
    BY <1>0, <1>2 DEF WorkerTypeOK
  <2> QED
    BY <1>2, <2>1 DEF SessionInv, SessionRunsOne
<1>3. ASSUME NEW c \in Calls, ExecReject(c) PROVE SessionInv'
  <2> DEFINE e == [exec[c] EXCEPT !.st = "finished", !.code = "failed"]
  <2>1. e.conn = exec[c].conn /\ e.op = exec[c].op
    BY <1>0 DEF WorkerTypeOK, Exec
  <2>2. exec[c].st \in BusyExec /\ UNCHANGED sactive /\ exec' = [exec EXCEPT ![c] = e]
    BY <1>3 DEF ExecReject, BusyExec
  <2> QED
    BY <1>2, <2>1, <2>2
<1>4. ASSUME NEW c \in Calls, ExecBegin(c) PROVE SessionInv'
  <2> DEFINE e == [exec[c] EXCEPT !.st = "running"]
  <2>1. e.conn = exec[c].conn /\ e.op = exec[c].op
    BY <1>0 DEF WorkerTypeOK, Exec
  <2>2. exec[c].st \in BusyExec /\ UNCHANGED sactive /\ exec' = [exec EXCEPT ![c] = e]
    BY <1>4 DEF ExecBegin, BusyExec
  <2> QED
    BY <1>2, <2>1, <2>2
<1>5. ASSUME NEW c \in Calls, ExecFinish(c) PROVE SessionInv'
  <2>1. PICK e \in Exec : /\ exec' = [exec EXCEPT ![c] = e]
                          /\ e.op = exec[c].op /\ e.conn = exec[c].conn
    BY <1>0, <1>5, FinishedExec
  <2>2. exec[c].st \in BusyExec /\ UNCHANGED sactive
    BY <1>5 DEF ExecFinish, BusyExec
  <2> QED
    BY <1>2, <2>1, <2>2
<1>6. ASSUME NEW c \in Calls, ExecWrite(c) PROVE SessionInv'
  <2> DEFINE e == [exec[c] EXCEPT !.st = "written", !.code = None]
  <2>1. e.conn = exec[c].conn /\ e.op = exec[c].op
    BY <1>0 DEF WorkerTypeOK, Exec
  <2>2. exec[c].st \in BusyExec /\ UNCHANGED sactive /\ exec' = [exec EXCEPT ![c] = e]
    BY <1>6 DEF ExecWrite, BusyExec
  <2> QED
    BY <1>2, <2>1, <2>2
<1>7. ASSUME NEW c \in Calls, ExecRelease(c) PROVE SessionInv'
  <2> DEFINE k == exec[c].conn
  <2>1. exec'[c].st = "done" /\ \A d \in Calls \ {c} : exec'[d] = exec[d]
    BY <1>0, <1>7 DEF ExecRelease, WorkerTypeOK, Exec
  <2>2. \A d \in Calls \ {c} : exec[d].st \in BusyExec => exec[d].conn # k
    BY <1>7 DEF ExecRelease, SessionInv, SessionRunsOne, BusyExec
  <2>3. \A j \in Conns \ {k} : sactive'[j] = sactive[j]
    BY <1>0, <1>7 DEF ExecRelease, WorkerTypeOK
  <2>4. \A d \in Calls : exec[d].st \in BusyExec => exec[d].conn \in Conns
    BY <1>0 DEF DispatchStruct, ExecStruct, BusyExec
  <2> QED
    BY <2>1, <2>2, <2>3, <2>4 DEF SessionInv, SessionRunsOne, BusyExec
<1>8. ASSUME NEW k \in Conns, ReadRequest(k) PROVE SessionInv'
  <2> DEFINE m == Head(toWorker[k])
             e == [st |-> "starting", op |-> m.id, conn |-> k, code |-> None]
  <2>1. CASE UNCHANGED <<exec, sactive>>
    BY <1>1, <2>1
  <2>2. CASE /\ sactive[k] = None
             /\ sactive' = [sactive EXCEPT ![k] = m.id]
             /\ exec' = [exec EXCEPT ![m.call] = e]
    <3>1. m \in Request /\ m.call \in Calls /\ m.id \in Ops
      BY <1>8, FrameTypes DEF ReadRequest, Request
    <3>2. \A d \in Calls : exec[d].st \in BusyExec => exec[d].conn \in Conns \ {k}
      BY <1>0, <2>2, ExchangeAssumption DEF DispatchStruct, ExecStruct, SessionInv, BusyExec
    <3>3. /\ exec'[m.call] = e /\ e.conn = k /\ e.op = m.id
          /\ \A d \in Calls \ {m.call} : exec'[d] = exec[d]
      BY <1>0, <2>2, <3>1 DEF WorkerTypeOK
    <3>4. sactive'[k] = m.id /\ \A j \in Conns \ {k} : sactive'[j] = sactive[j]
      BY <1>0, <2>2 DEF WorkerTypeOK
    <3> HIDE DEF m, e
    <3> QED
      BY <3>1, <3>2, <3>3, <3>4 DEF SessionInv, SessionRunsOne
  <2> QED
    BY <1>8, <2>1, <2>2 DEF ReadRequest
<1>9. ASSUME NEW k \in Conns, ReadCancel(k) \/ SessionStop(k) \/ SessionClose(k) PROVE SessionInv'
  BY <1>1, <1>9 DEF ReadCancel, SessionStop, SessionClose, workerVars
<1>10. ASSUME UNCHANGED workerVars PROVE SessionInv'
  BY <1>1, <1>10 DEF workerVars
<1>11. CASE \E k \in Conns : Connect(k)
  BY <1>10, <1>11 DEF Connect
<1>12. CASE UNCHANGED vars
  BY <1>10, <1>12 DEF vars
<1> QED
  BY <1>3, <1>4, <1>5, <1>6, <1>7, <1>8, <1>9, <1>10, <1>11, <1>12 DEF Next

(* A Worker session never runs two requests at once, however many requests *)
(* are written to its pipe.                                                *)
THEOREM OneRequestPerSession == Spec => []SessionRunsOne
<1>1. Init => SessionInv
  BY DEF Init, WorkerInit, SessionInv, SessionRunsOne, BusyExec
<1>2. SessionInv => SessionRunsOne
  BY DEF SessionInv
<1> QED
  BY InitTypeInv, NextTypeInv, NextSessionInv, <1>1, <1>2, PTL DEF Spec


(* No cancellation mark outlives its handler, in any number of sessions    *)
(* that share the dispatcher (exchange's finally clause and cancel).       *)
THEOREM MarksHaveHandlers == Spec => []NoStaleCancellation
<1>1. Init => NoStaleCancellation
  BY DEF Init, WorkerInit, NoStaleCancellation
<1>2. NoStaleCancellation /\ [Next]_vars => NoStaleCancellation'
  <2> SUFFICES ASSUME NoStaleCancellation, [Next]_vars PROVE NoStaleCancellation'
    OBVIOUS
  <2>1. ASSUME UNCHANGED workerVars PROVE NoStaleCancellation'
    BY <2>1 DEF workerVars, NoStaleCancellation
  <2>2. ASSUME NEW c \in Calls, ExecStep(c) PROVE NoStaleCancellation'
    BY <2>2 DEF ExecStep, ExecReject, ExecBegin, ExecFinish, ExecWrite, ExecRelease,
                NoStaleCancellation
  <2>3. ASSUME NEW k \in Conns, ReadRequest(k) \/ ReadCancel(k) \/ SessionStop(k) \/ SessionClose(k)
        PROVE  NoStaleCancellation'
    BY <2>3 DEF ReadRequest, ReadCancel, SessionStop, SessionClose, Cancelling, workerVars,
                NoStaleCancellation
  <2>4. ASSUME NEW k \in Conns, Connect(k) PROVE NoStaleCancellation'
    BY <2>1, <2>4 DEF Connect
  <2>5. CASE UNCHANGED vars
    BY <2>1, <2>5 DEF vars
  <2> QED
    BY <2>1, <2>2, <2>3, <2>4, <2>5 DEF Next, ExecStep
<1> QED
  BY <1>1, <1>2, PTL DEF Spec
-----------------------------------------------------------------------------
(* Requests and request threads name the operation of the call they stem   *)
(* from.                                                                   *)
ToWorkerInv ==
    \A k \in Conns : \A i \in 1..Len(toWorker[k]) :
        LET m == toWorker[k][i] IN th[m.call] # "none" /\ call[m.call].op = m.id

ExecInv ==
    \A c \in Calls : exec[c].st # "none" => th[c] # "none" /\ call[c].op = exec[c].op

FrameInv == ToWorkerInv /\ ToGatewayInv /\ ExecInv

(* The dispatcher moves, or it only sees its pipe change.                  *)
LEMMA NextMoves ==
  [Next]_vars =>
    \/ GatewayMove /\ UNCHANGED workerVars
    \/ UNCHANGED <<call, co, outcome, th, res, lock, cache, active, response>>
  BY DEF Next, GatewayMove, ThreadStep, Connect, vars, gatewayVars

(* A dispatched call is never forgotten or altered.                        *)
LEMMA NextCallsStable ==
  ASSUME TypeInv, [Next]_vars, NEW c \in Calls, th[c] # "none"
  PROVE  th'[c] # "none" /\ call'[c] = call[c]
<1>1. CASE GatewayMove
  BY <1>1, CallsStable DEF TypeInv, TypeOK, DispatchTypes
<1> QED
  BY <1>1, NextMoves

LEMMA NextRespStable ==
  ASSUME TypeInv, [Next]_vars, NEW m, RespOK(m)
  PROVE  RespOK(m)'
  BY NextCallsStable DEF RespOK, Response

LEMMA NextToWorkerInv == TypeInv /\ FrameInv /\ [Next]_vars => ToWorkerInv'
<1> SUFFICES ASSUME TypeInv, DispatchTypes, FrameInv, [Next]_vars PROVE ToWorkerInv'
  BY DEF TypeInv, TypeOK, DispatchTypes
<1> DEFINE Named(m) == th[m.call] # "none" /\ call[m.call].op = m.id
<1>0. ChannelTypeOK /\ DispatchStruct /\ ToWorkerInv
  BY DEF TypeInv, TypeOK, FrameInv
<1>1. ASSUME NEW m \in Request, Named(m) PROVE Named(m)'
  BY <1>1, NextCallsStable DEF Request
<1>2. \A k \in Conns : \A i \in 1..Len(toWorker[k]) :
        toWorker[k][i] \in Request /\ Named(toWorker[k][i])
  BY <1>0 DEF ToWorkerInv, ChannelTypeOK
<1>3. ASSUME \A k \in Conns : \A i \in 1..Len(toWorker'[k]) :
               toWorker'[k][i] \in Request /\ Named(toWorker'[k][i])
      PROVE  ToWorkerInv'
  BY <1>1, <1>3 DEF ToWorkerInv
<1> HIDE DEF Named
<1>4. ASSUME UNCHANGED toWorker PROVE ToWorkerInv'
  BY <1>2, <1>3, <1>4
<1>5. ASSUME NEW k \in Conns, NEW m \in Request, Named(m),
             toWorker' = [toWorker EXCEPT ![k] = Append(@, m)]
      PROVE  ToWorkerInv'
  <2>1. toWorker'[k] = Append(toWorker[k], m) /\ toWorker[k] \in Seq(Request)
    BY <1>0, <1>5 DEF ChannelTypeOK
  <2>2. \A j \in Conns \ {k} : toWorker'[j] = toWorker[j]
    BY <1>0, <1>5 DEF ChannelTypeOK
  <2>3. \A i \in 1..Len(toWorker'[k]) : toWorker'[k][i] = m \/
           (i \in 1..Len(toWorker[k]) /\ toWorker'[k][i] = toWorker[k][i])
    BY <2>1
  <2> QED
    BY <1>2, <1>3, <1>5, <2>2, <2>3
<1>6. ASSUME NEW k \in Conns, toWorker[k] # <<>>, toWorker' = [toWorker EXCEPT ![k] = Tail(@)]
      PROVE  ToWorkerInv'
  <2>1. toWorker'[k] = Tail(toWorker[k]) /\ toWorker[k] \in Seq(Request)
    BY <1>0, <1>6 DEF ChannelTypeOK
  <2>2. \A j \in Conns \ {k} : toWorker'[j] = toWorker[j]
    BY <1>0, <1>6 DEF ChannelTypeOK
  <2>3. \A i \in 1..Len(toWorker'[k]) :
          i + 1 \in 1..Len(toWorker[k]) /\ toWorker'[k][i] = toWorker[k][i + 1]
    BY <1>6, <2>1, TailElements
  <2> QED
    BY <1>2, <1>3, <2>2, <2>3
<1>7. ASSUME NEW k \in Conns, toWorker' = [toWorker EXCEPT ![k] = <<>>]
      PROVE  ToWorkerInv'
  <2>1. toWorker'[k] = <<>> /\ \A j \in Conns \ {k} : toWorker'[j] = toWorker[j]
    BY <1>0, <1>7 DEF ChannelTypeOK
  <2> QED
    BY <1>2, <1>3, <2>1
<1>8. ASSUME NEW c \in Calls, Write(c) PROVE ToWorkerInv'
  <2> DEFINE m == [kind |-> "request", id |-> call[c].op, call |-> c]
  <2>1. call[c].conn \in Conns /\ m \in Request /\ Named(m)
    BY <1>0, <1>8 DEF Write, DispatchStruct, ExecStruct, Call, Request, Named
  <2>2. \/ UNCHANGED toWorker
        \/ toWorker' = [toWorker EXCEPT ![call[c].conn] = Append(@, m)]
    BY <1>8 DEF Write, channelVars
  <2> HIDE DEF m
  <2> QED
    BY <1>4, <1>5, <2>1, <2>2
<1>9. ASSUME NEW c \in Calls, CancelWrite(c) PROVE ToWorkerInv'
  <2> DEFINE m == [kind |-> "cancel", id |-> call[c].op, call |-> c]
  <2>1. call[c].conn \in Conns /\ m \in Request /\ Named(m)
    BY <1>0, <1>9 DEF CancelWrite, DispatchStruct, ExecStruct, Call, Request, Named
  <2>2. \/ UNCHANGED toWorker
        \/ toWorker' = [toWorker EXCEPT ![call[c].conn] = Append(@, m)]
    BY <1>9 DEF CancelWrite
  <2> HIDE DEF m
  <2> QED
    BY <1>4, <1>5, <2>1, <2>2
<1>10. ASSUME NEW k \in Conns, ReadRequest(k) \/ ReadCancel(k) PROVE ToWorkerInv'
  BY <1>6, <1>10 DEF ReadRequest, ReadCancel
<1>11. ASSUME NEW k \in Conns, SessionClose(k) PROVE ToWorkerInv'
  BY <1>7, <1>11 DEF SessionClose, CloseWorkerEnd
<1>12. ASSUME NEW k \in Conns, Connect(k) \/ Deliver(k) \/ ReadFail(k) \/ SessionStop(k)
       PROVE  ToWorkerInv'
  BY <1>4, <1>12 DEF Connect, Deliver, ReadFail, SessionStop
<1>13. ASSUME NEW c \in Calls, ExecStep(c) PROVE ToWorkerInv'
  BY <1>4, <1>13 DEF ExecStep, ExecReject, ExecBegin, ExecFinish, ExecWrite, ExecRelease,
     channelVars
<1>14. ASSUME NEW c \in Calls,
              DispatchUnavailable(c) \/ Timeout(c) \/ Present(c) \/ Lookup(c) \/ Claim(c) \/ Take(c)
              \/ EndpointTimeout(c) \/ WaitClosed(c) \/ Store(c) \/ CancelCheck(c)
       PROVE  ToWorkerInv'
  BY <1>4, <1>14 DEF DispatchUnavailable, Timeout, Present, Lookup, Claim, Take, EndpointTimeout,
     WaitClosed, Store, CancelCheck, channelVars
<1>15. ASSUME NEW c \in Calls, NEW op \in Ops, NEW p \in Payloads, NEW t \in 0..MaxTime,
              Dispatch(c, op, p, t)
       PROVE  ToWorkerInv'
  BY <1>4, <1>15 DEF Dispatch, channelVars
<1>16. CASE UNCHANGED vars
  BY <1>4, <1>16 DEF vars, channelVars
<1> QED
  BY <1>8, <1>9, <1>10, <1>11, <1>12, <1>13, <1>14, <1>15, <1>16 DEF Next, ExecStep

LEMMA NextToGatewayInv == TypeInv /\ FrameInv /\ [Next]_vars => ToGatewayInv'
<1> SUFFICES ASSUME TypeInv, DispatchTypes, FrameInv, [Next]_vars PROVE ToGatewayInv'
  BY DEF TypeInv, TypeOK, DispatchTypes
<1>0. ChannelTypeOK /\ WorkerTypeOK /\ DispatchStruct /\ ExecStruct /\ ToWorkerInv /\ ToGatewayInv /\ ExecInv
  BY DEF TypeInv, TypeOK, FrameInv
<1>1. ASSUME \A k \in Conns : \A i \in 1..Len(toGateway'[k]) : RespOK(toGateway'[k][i])
      PROVE  ToGatewayInv'
  BY <1>1, NextRespStable DEF ToGatewayInv
<1>2. ASSUME UNCHANGED toGateway PROVE ToGatewayInv'
  BY <1>0, <1>1, <1>2 DEF ToGatewayInv
<1>3. ASSUME NEW k \in Conns, NEW m, RespOK(m), toGateway' = [toGateway EXCEPT ![k] = Append(@, m)]
      PROVE  ToGatewayInv'
  <2>1. /\ toGateway'[k] = Append(toGateway[k], m) /\ toGateway[k] \in Seq(Response)
        /\ m \in Response
    BY <1>0, <1>3 DEF ChannelTypeOK, RespOK
  <2>2. \A j \in Conns \ {k} : toGateway'[j] = toGateway[j]
    BY <1>0, <1>3 DEF ChannelTypeOK
  <2>3. \A i \in 1..Len(toGateway'[k]) : toGateway'[k][i] = m \/
           (i \in 1..Len(toGateway[k]) /\ toGateway'[k][i] = toGateway[k][i])
    BY <2>1
  <2> QED
    BY <1>0, <1>1, <1>3, <2>2, <2>3 DEF ToGatewayInv
<1>4. ASSUME NEW k \in Conns, toGateway[k] # <<>>, toGateway' = [toGateway EXCEPT ![k] = Tail(@)]
      PROVE  ToGatewayInv'
  <2>1. toGateway'[k] = Tail(toGateway[k]) /\ toGateway[k] \in Seq(Response)
    BY <1>0, <1>4 DEF ChannelTypeOK
  <2>2. \A j \in Conns \ {k} : toGateway'[j] = toGateway[j]
    BY <1>0, <1>4 DEF ChannelTypeOK
  <2>3. \A i \in 1..Len(toGateway'[k]) :
          i + 1 \in 1..Len(toGateway[k]) /\ toGateway'[k][i] = toGateway[k][i + 1]
    BY <1>4, <2>1, TailElements
  <2> QED
    BY <1>0, <1>1, <2>2, <2>3 DEF ToGatewayInv
<1>5. ASSUME NEW k \in Conns, toGateway' = [toGateway EXCEPT ![k] = <<>>]
      PROVE  ToGatewayInv'
  <2>1. toGateway'[k] = <<>> /\ \A j \in Conns \ {k} : toGateway'[j] = toGateway[j]
    BY <1>0, <1>5 DEF ChannelTypeOK
  <2> QED
    BY <1>0, <1>1, <2>1 DEF ToGatewayInv
<1>6. ASSUME NEW c \in Calls, Write(c) \/ CancelWrite(c) PROVE ToGatewayInv'
  <2>1. call[c].conn \in Conns
    BY <1>0, <1>6 DEF Write, CancelWrite, DispatchStruct, ExecStruct, Call
  <2>2. UNCHANGED toGateway \/ toGateway' = [toGateway EXCEPT ![call[c].conn] = <<>>]
    BY <1>6 DEF Write, CancelWrite, CloseGatewayEnd, channelVars
  <2> QED
    BY <1>2, <1>5, <2>1, <2>2
<1>7. ASSUME NEW c \in Calls, ExecWrite(c) PROVE ToGatewayInv'
  <2> DEFINE m == [id |-> exec[c].op, code |-> exec[c].code, by |-> c]
  <2>1. exec[c].conn \in Conns /\ RespOK(m)
    BY <1>0, <1>7 DEF ExecWrite, DispatchStruct, ExecStruct, ExecInv, RespOK, Response
  <2>2. \/ UNCHANGED toGateway
        \/ toGateway' = [toGateway EXCEPT ![exec[c].conn] = Append(@, m)]
    BY <1>7 DEF ExecWrite, SendToGateway
  <2> HIDE DEF m
  <2> QED
    BY <1>2, <1>3, <2>1, <2>2
<1>8. ASSUME NEW k \in Conns, ReadRequest(k) PROVE ToGatewayInv'
  <2> DEFINE r == Head(toWorker[k])
             m == [id |-> r.id, code |-> "busy", by |-> r.call]
  <2>1. toWorker[k] # <<>> /\ toWorker[k] \in Seq(Request) /\ r \in Request
    BY <1>0, <1>8, FrameTypes DEF ReadRequest, ChannelTypeOK
  <2>2. r = toWorker[k][1] /\ 1 \in 1..Len(toWorker[k])
    BY <2>1
  <2>3. RespOK(m)
    BY <1>0, <2>1, <2>2 DEF ToWorkerInv, RespOK, Response, Request, ResponseCodes
  <2>4. UNCHANGED toGateway \/ toGateway' = [toGateway EXCEPT ![k] = Append(@, m)]
    BY <1>8 DEF ReadRequest, SendToGateway
  <2> HIDE DEF m, r
  <2> QED
    BY <1>2, <1>3, <2>3, <2>4
<1>9. ASSUME NEW k \in Conns, Deliver(k) \/ ReadFail(k) PROVE ToGatewayInv'
  <2>1. \/ toGateway[k] # <<>> /\ toGateway' = [toGateway EXCEPT ![k] = Tail(@)]
        \/ toGateway' = [toGateway EXCEPT ![k] = <<>>]
    BY <1>9 DEF Deliver, ReadFail, TearDown, CloseGatewayEnd
  <2> QED
    BY <1>4, <1>5, <2>1
<1>10. ASSUME NEW k \in Conns, ReadCancel(k) \/ SessionClose(k) \/ Connect(k) \/ SessionStop(k)
       PROVE  ToGatewayInv'
  BY <1>2, <1>10 DEF Connect, ReadCancel, SessionClose, SessionStop
<1>11. ASSUME NEW c \in Calls, ExecReject(c) \/ ExecBegin(c) \/ ExecFinish(c) \/ ExecRelease(c)
       PROVE  ToGatewayInv'
  BY <1>2, <1>11 DEF ExecReject, ExecBegin, ExecFinish, ExecRelease, channelVars
<1>12. ASSUME NEW c \in Calls,
              DispatchUnavailable(c) \/ Timeout(c) \/ Present(c) \/ Lookup(c) \/ Claim(c) \/ Take(c)
              \/ EndpointTimeout(c) \/ WaitClosed(c) \/ Store(c) \/ CancelCheck(c)
       PROVE  ToGatewayInv'
  BY <1>2, <1>12 DEF DispatchUnavailable, Timeout, Present, Lookup, Claim, Take, EndpointTimeout,
     WaitClosed, Store, CancelCheck, channelVars
<1>13. ASSUME NEW c \in Calls, NEW op \in Ops, NEW p \in Payloads, NEW t \in 0..MaxTime,
              Dispatch(c, op, p, t)
       PROVE  ToGatewayInv'
  BY <1>2, <1>13 DEF Dispatch, channelVars
<1>14. CASE UNCHANGED vars
  BY <1>2, <1>14 DEF vars, channelVars
<1> QED
  BY <1>6, <1>7, <1>8, <1>9, <1>10, <1>11, <1>12, <1>13, <1>14 DEF Next

LEMMA NextExecInv == TypeInv /\ FrameInv /\ [Next]_vars => ExecInv'
<1> SUFFICES ASSUME TypeInv, DispatchTypes, FrameInv, [Next]_vars PROVE ExecInv'
  BY DEF TypeInv, TypeOK, DispatchTypes
<1>0. ChannelTypeOK /\ WorkerTypeOK /\ ToWorkerInv /\ ExecInv
  BY DEF TypeInv, TypeOK, FrameInv
<1>1. ASSUME \A c \in Calls : exec'[c].st # "none" => th[c] # "none" /\ call[c].op = exec'[c].op
      PROVE  ExecInv'
  BY <1>1, NextCallsStable DEF ExecInv
<1>2. ASSUME UNCHANGED exec PROVE ExecInv'
  BY <1>0, <1>1, <1>2 DEF ExecInv
<1>3. ASSUME NEW c \in Calls, NEW e, exec[c].st # "none", exec' = [exec EXCEPT ![c] = e],
             e.op = exec[c].op
      PROVE  ExecInv'
  <2>1. exec'[c] = e /\ \A d \in Calls \ {c} : exec'[d] = exec[d]
    BY <1>0, <1>3 DEF WorkerTypeOK
  <2> QED
    BY <1>0, <1>1, <1>3, <2>1 DEF ExecInv
<1>4. ASSUME NEW c \in Calls, ExecStep(c) PROVE ExecInv'
  <2>0. exec[c] \in Exec
    BY <1>0 DEF WorkerTypeOK
  <2>1. CASE ExecReject(c)
    <3> DEFINE e == [exec[c] EXCEPT !.st = "finished", !.code = "failed"]
    <3>1. e.op = exec[c].op
      BY <2>0 DEF Exec
    <3> QED
      BY <1>3, <2>1, <3>1 DEF ExecReject
  <2>2. CASE ExecBegin(c)
    <3> DEFINE e == [exec[c] EXCEPT !.st = "running"]
    <3>1. e.op = exec[c].op
      BY <2>0 DEF Exec
    <3> QED
      BY <1>3, <2>2, <3>1 DEF ExecBegin
  <2>3. CASE ExecFinish(c)
    <3>1. PICK e \in Exec : exec' = [exec EXCEPT ![c] = e] /\ e.op = exec[c].op
      BY <1>0, <2>3, FinishedExec
    <3>2. exec[c].st # "none"
      BY <2>3 DEF ExecFinish
    <3> QED
      BY <1>3, <3>1, <3>2
  <2>4. CASE ExecWrite(c)
    <3> DEFINE e == [exec[c] EXCEPT !.st = "written", !.code = None]
    <3>1. e.op = exec[c].op
      BY <2>0 DEF Exec
    <3> QED
      BY <1>3, <2>4, <3>1 DEF ExecWrite
  <2>5. CASE ExecRelease(c)
    <3> DEFINE e == [exec[c] EXCEPT !.st = "done"]
    <3>1. e.op = exec[c].op
      BY <2>0 DEF Exec
    <3> QED
      BY <1>3, <2>5, <3>1 DEF ExecRelease
  <2> QED
    BY <1>4, <2>1, <2>2, <2>3, <2>4, <2>5 DEF ExecStep
<1>5. ASSUME NEW k \in Conns, ReadRequest(k) PROVE ExecInv'
  <2> DEFINE m == Head(toWorker[k])
             e == [st |-> "starting", op |-> m.id, conn |-> k, code |-> None]
  <2>1. toWorker[k] # <<>> /\ toWorker[k] \in Seq(Request) /\ m \in Request /\ m.call \in Calls
    BY <1>0, <1>5, FrameTypes DEF ReadRequest, ChannelTypeOK, Request
  <2>2. m = toWorker[k][1] /\ 1 \in 1..Len(toWorker[k])
    BY <2>1
  <2>3. th[m.call] # "none" /\ call[m.call].op = m.id
    BY <1>0, <2>2 DEF ToWorkerInv
  <2>4. CASE exec' = [exec EXCEPT ![m.call] = e]
    <3>1. exec'[m.call] = e /\ e.op = m.id /\ \A d \in Calls \ {m.call} : exec'[d] = exec[d]
      BY <1>0, <2>1, <2>4 DEF WorkerTypeOK
    <3> HIDE DEF m, e
    <3> QED
      BY <1>0, <1>1, <2>1, <2>3, <3>1 DEF ExecInv
  <2> QED
    BY <1>2, <1>5, <2>4 DEF ReadRequest
<1>6. ASSUME NEW k \in Conns, ReadCancel(k) \/ SessionStop(k) \/ SessionClose(k) \/ Connect(k)
      PROVE  ExecInv'
  BY <1>2, <1>6 DEF ReadCancel, SessionStop, SessionClose, Connect, workerVars
<1>7. ASSUME UNCHANGED workerVars PROVE ExecInv'
  BY <1>2, <1>7 DEF workerVars
<1>8. CASE UNCHANGED vars
  BY <1>7, <1>8 DEF vars
<1> QED
  BY <1>4, <1>5, <1>6, <1>7, <1>8 DEF Next, ExecStep

LEMMA NextCorrInv == TypeInv /\ CorrInv /\ FrameInv /\ [Next]_vars => CorrInv'
<1> SUFFICES ASSUME TypeInv, DispatchTypes, CorrInv, FrameInv, [Next]_vars PROVE CorrInv'
  BY DEF TypeInv, TypeOK, DispatchTypes
<1>1. CASE GatewayMove
  BY <1>1, MoveCorr DEF TypeInv, TypeOK, DispatchTypes
<1>2. CASE UNCHANGED <<call, co, outcome, th, res, lock, cache, active, response>>
  BY <1>2, PeerCorr, NextToGatewayInv
<1> QED
  BY <1>1, <1>2, NextMoves

(* Together with the types, the inductive invariant of the exchange.       *)
LEMMA ExchangeInvariant == Spec => [](TypeInv /\ CorrInv /\ FrameInv)
<1>1. Init => CorrInv
  BY InitCorrInv DEF Init
<1>2. Init => FrameInv
  BY DEF Init, ChannelInit, WorkerInit, FrameInv, ToWorkerInv, ToGatewayInv, ExecInv
<1>3. TypeInv /\ FrameInv /\ [Next]_vars => FrameInv'
  BY NextToWorkerInv, NextToGatewayInv, NextExecInv DEF FrameInv
<1> QED
  BY <1>1, <1>2, <1>3, InitTypeInv, NextTypeInv, NextCorrInv, PTL DEF Spec

(* A cached operation is never sent again and no two dispatches are on the *)
(* wire together, for any number of concurrent calls: the mutual exclusion *)
(* IdempotencyStore.execute gets from holding its lock across the callback.*)
THEOREM Exclusive == Spec => []ExchangeExclusive
<1>1. CorrInv => ExchangeExclusive
  BY DEF CorrInv, ExclInv, ExchangeExclusive
<1> QED
  BY <1>1, ExchangeInvariant, PTL

(* At both ends one exchange follows the other, for any number of calls,   *)
(* connections and threads.                                                *)
THEOREM NeverTwoAtOnce == Spec => []OneAtATime
<1>1. ExchangeExclusive /\ SessionRunsOne => OneAtATime
  BY DEF OneAtATime
<1> QED
  BY Exclusive, OneRequestPerSession, <1>1, PTL

(* A caller is only ever given a result of its own operation id and        *)
(* payload, for any interleaving of timeouts, retries, late frames,        *)
(* replays and reconnects: the responses are correlated (deliver) and the  *)
(* digest is checked before a replay (execute).                            *)
THEOREM ResultsCorrelate == Spec => []ResultCorrelates
<1>1. CorrInv => ResultCorrelates
  BY DEF CorrInv, AnsweredInv, Good, RespOK, ResultCorrelates
<1> QED
  BY <1>1, ExchangeInvariant, PTL
-----------------------------------------------------------------------------
(* A request thread that was never started has no id.                      *)
IdleExec == \A c \in Calls : exec[c].st = "none" => exec[c].op = None

LEMMA NextIdleExec == TypeInv /\ IdleExec /\ [Next]_vars => IdleExec'
<1> SUFFICES ASSUME TypeInv, DispatchTypes, IdleExec, [Next]_vars PROVE IdleExec'
  BY DEF TypeInv, TypeOK, DispatchTypes
<1>0. WorkerTypeOK
  BY DEF TypeInv, TypeOK
<1>1. ASSUME UNCHANGED exec PROVE IdleExec'
  BY <1>1 DEF IdleExec
<1>2. ASSUME NEW c \in Calls, ExecStep(c) PROVE IdleExec'
  <2>1. exec'[c].st # "none" /\ \A d \in Calls \ {c} : exec'[d] = exec[d]
    BY <1>0, <1>2
    DEF ExecStep, ExecReject, ExecBegin, ExecFinish, ExecWrite, ExecRelease, WorkerTypeOK, Exec
  <2> QED
    BY <2>1 DEF IdleExec
<1>3. ASSUME NEW k \in Conns, ReadRequest(k) PROVE IdleExec'
  <2> DEFINE m == Head(toWorker[k])
             e == [st |-> "starting", op |-> m.id, conn |-> k, code |-> None]
  <2>1. UNCHANGED exec \/ exec' = [exec EXCEPT ![m.call] = e]
    BY <1>3 DEF ReadRequest
  <2>2. e.st # "none"
    OBVIOUS
  <2> HIDE DEF e
  <2> QED
    BY <1>0, <2>1, <2>2 DEF IdleExec, WorkerTypeOK
<1>4. ASSUME NEW k \in Conns, ReadCancel(k) \/ SessionStop(k) \/ SessionClose(k) PROVE IdleExec'
  BY <1>1, <1>4 DEF ReadCancel, SessionStop, SessionClose, workerVars
<1>5. ASSUME UNCHANGED workerVars PROVE IdleExec'
  BY <1>1, <1>5 DEF workerVars
<1>6. CASE \E k \in Conns : Connect(k)
  BY <1>5, <1>6 DEF Connect
<1>7. CASE UNCHANGED vars
  BY <1>5, <1>7 DEF vars
<1> QED
  BY <1>2, <1>3, <1>4, <1>5, <1>6, <1>7 DEF Next, ExecStep

(* A step of one request thread, or of a session that starts one, leaves   *)
(* the handlers of the others registered.                                  *)
LEMMA NextCancellable ==
  TypeInv /\ FrameInv /\ SessionInv /\ IdleExec /\ RunningCancellable /\ [Next]_vars
  => RunningCancellable'
<1> SUFFICES ASSUME TypeInv, DispatchTypes, FrameInv, SessionInv, IdleExec, RunningCancellable, [Next]_vars
             PROVE  RunningCancellable'
  BY DEF TypeInv, TypeOK, DispatchTypes
<1>0. ChannelTypeOK /\ WorkerTypeOK /\ DispatchStruct /\ ExecStruct /\ ToWorkerInv /\ ExecInv
  BY DEF TypeInv, TypeOK, FrameInv
<1>1. ASSUME UNCHANGED <<exec, handlers>> PROVE RunningCancellable'
  BY <1>1 DEF RunningCancellable
<1>2. ASSUME NEW c \in Calls, NEW e, exec' = [exec EXCEPT ![c] = e],
             e.conn = exec[c].conn, e.op = exec[c].op, e.st # "running", UNCHANGED handlers
      PROVE  RunningCancellable'
  <2>1. exec'[c] = e /\ \A d \in Calls \ {c} : exec'[d] = exec[d]
    BY <1>0, <1>2 DEF WorkerTypeOK
  <2> QED
    BY <1>2, <2>1 DEF RunningCancellable
<1>3. ASSUME NEW c \in Calls, ExecReject(c) PROVE RunningCancellable'
  <2> DEFINE e == [exec[c] EXCEPT !.st = "finished", !.code = "failed"]
  <2>1. e.conn = exec[c].conn /\ e.op = exec[c].op /\ e.st # "running"
    BY <1>0 DEF WorkerTypeOK, Exec
  <2>2. UNCHANGED handlers /\ exec' = [exec EXCEPT ![c] = e]
    BY <1>3 DEF ExecReject
  <2> QED
    BY <1>2, <2>1, <2>2
<1>4. ASSUME NEW c \in Calls, ExecBegin(c) PROVE RunningCancellable'
  <2> DEFINE e == [exec[c] EXCEPT !.st = "running"]
  <2>1. e.conn = exec[c].conn /\ e.op = exec[c].op
    BY <1>0 DEF WorkerTypeOK, Exec
  <2>2. exec'[c] = e /\ \A d \in Calls \ {c} : exec'[d] = exec[d]
    BY <1>0, <1>4 DEF ExecBegin, WorkerTypeOK
  <2>3. handlers' = handlers \cup {exec[c].op}
    BY <1>4 DEF ExecBegin
  <2> HIDE DEF e
  <2> QED
    BY <2>1, <2>2, <2>3 DEF RunningCancellable
<1>5. ASSUME NEW c \in Calls, ExecFinish(c) PROVE RunningCancellable'
  <2>1. PICK e \in Exec : /\ exec' = [exec EXCEPT ![c] = e]
                          /\ e.op = exec[c].op /\ e.conn = exec[c].conn
    BY <1>0, <1>5, FinishedExec
  <2>2. exec'[c] = e /\ \A d \in Calls \ {c} : exec'[d] = exec[d]
    BY <1>0, <2>1 DEF WorkerTypeOK
  <2>3. exec'[c].st # "running"
    BY <1>0, <1>5 DEF ExecFinish, WorkerTypeOK, Exec
  <2>4. exec[c].st = "running" /\ handlers' = handlers \ {exec[c].op}
    BY <1>5 DEF ExecFinish
  <2>5. \A d \in Calls \ {c} : exec[d].st = "running" => exec[d].conn # exec[c].conn
    BY <2>4 DEF SessionInv, SessionRunsOne, BusyExec
  <2> QED
    BY <2>1, <2>2, <2>3, <2>4, <2>5 DEF RunningCancellable
<1>6. ASSUME NEW c \in Calls, ExecWrite(c) PROVE RunningCancellable'
  <2> DEFINE e == [exec[c] EXCEPT !.st = "written", !.code = None]
  <2>1. e.conn = exec[c].conn /\ e.op = exec[c].op /\ e.st # "running"
    BY <1>0 DEF WorkerTypeOK, Exec
  <2>2. UNCHANGED handlers /\ exec' = [exec EXCEPT ![c] = e]
    BY <1>6 DEF ExecWrite
  <2> QED
    BY <1>2, <2>1, <2>2
<1>7. ASSUME NEW c \in Calls, ExecRelease(c) PROVE RunningCancellable'
  <2> DEFINE e == [exec[c] EXCEPT !.st = "done"]
  <2>1. e.conn = exec[c].conn /\ e.op = exec[c].op /\ e.st # "running"
    BY <1>0 DEF WorkerTypeOK, Exec
  <2>2. UNCHANGED handlers /\ exec' = [exec EXCEPT ![c] = e]
    BY <1>7 DEF ExecRelease
  <2> QED
    BY <1>2, <2>1, <2>2
<1>8. ASSUME NEW k \in Conns, ReadRequest(k) PROVE RunningCancellable'
  <2> DEFINE m == Head(toWorker[k])
             e == [st |-> "starting", op |-> m.id, conn |-> k, code |-> None]
  <2>1. CASE UNCHANGED <<exec, handlers>>
    BY <1>1, <2>1
  <2>2. CASE /\ sactive[k] = None
             /\ exec' = [exec EXCEPT ![m.call] = e]
             /\ UNCHANGED handlers
    <3>1. m \in Request /\ m.call \in Calls /\ m.id \in Ops
      BY <1>8, FrameTypes DEF ReadRequest, Request
    <3>2. \A d \in Calls : exec[d].st = "running" => exec[d].conn \in Conns \ {k}
      BY <1>0, <2>2, ExchangeAssumption DEF DispatchStruct, ExecStruct, SessionInv, BusyExec
    <3>3. 1 \in 1..Len(toWorker[k]) /\ m = toWorker[k][1]
      BY <1>0, <1>8 DEF ReadRequest, ChannelTypeOK
    <3>4. exec[m.call].st # "none" => exec[m.call].op = m.id
      BY <1>0, <3>1, <3>3 DEF ToWorkerInv, ExecInv
    <3>5. /\ exec'[m.call] = e /\ e.conn = k /\ e.op = m.id /\ e.st = "starting"
          /\ \A d \in Calls \ {m.call} : exec'[d] = exec[d]
      BY <1>0, <2>2, <3>1 DEF WorkerTypeOK
    <3>6. ASSUME NEW d \in Calls, exec'[d].st = "running",
                 \A x \in Calls : exec'[x].op = exec'[d].op => exec'[x].conn = exec'[d].conn
          PROVE  exec[d].op \in handlers /\ exec'[d].op = exec[d].op
      <4>1. d # m.call /\ exec'[d] = exec[d]
        BY <3>5, <3>6
      <4>2. exec[d].conn # k /\ exec[d].op # m.id
        BY <3>1, <3>2, <3>5, <3>6, <4>1
      <4>3. \A x \in Calls : exec[x].op = exec[d].op => exec[x].conn = exec[d].conn
        <5>1. exec[m.call].op # exec[d].op
          <6>1. exec[m.call].st = "none" => exec[m.call].op = None
            BY <3>1 DEF IdleExec
          <6>2. exec[d].op \in Ops
            BY <1>0, <3>6, <4>1 DEF DispatchStruct, ExecStruct
          <6> QED
            BY <3>4, <4>2, <6>1, <6>2, ExchangeAssumption
        <5> QED
          BY <3>5, <3>6, <4>1, <5>1
      <4> QED
        BY <4>1, <4>3, <3>6 DEF RunningCancellable
    <3> QED
      BY <2>2, <3>6 DEF RunningCancellable
  <2> QED
    BY <1>8, <2>1, <2>2 DEF ReadRequest
<1>9. ASSUME NEW k \in Conns, ReadCancel(k) \/ SessionStop(k) \/ SessionClose(k)
      PROVE  RunningCancellable'
  BY <1>1, <1>9 DEF ReadCancel, SessionStop, SessionClose, workerVars
<1>10. ASSUME UNCHANGED workerVars PROVE RunningCancellable'
  BY <1>1, <1>10 DEF workerVars
<1>11. CASE \E k \in Conns : Connect(k)
  BY <1>10, <1>11 DEF Connect
<1>12. CASE UNCHANGED vars
  BY <1>10, <1>12 DEF vars
<1> QED
  BY <1>3, <1>4, <1>5, <1>6, <1>7, <1>8, <1>9, <1>10, <1>11, <1>12 DEF Next

(* A running handler is found by cancel, for any number of sessions and    *)
(* left-over request threads (exchange's registration and finally clause). *)
THEOREM HandlersAreFound == Spec => []RunningCancellable
<1>1. Init => SessionInv /\ IdleExec /\ RunningCancellable
  BY DEF Init, WorkerInit, SessionInv, IdleExec, SessionRunsOne, BusyExec, RunningCancellable
<1> QED
  BY InitTypeInv, NextTypeInv, ExchangeInvariant, NextSessionInv, NextIdleExec, NextCancellable,
     <1>1, PTL DEF Spec
=============================================================================
