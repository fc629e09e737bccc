---------------------- MODULE GatewayDispatchProofs ------------------------
(***************************************************************************)
(* What the proofs about the Worker's and the helper's exchange share: the *)
(* types of the dispatcher's variables, and the steps of the Gateway.      *)
(***************************************************************************)
EXTENDS GatewayDispatch, TLAPS

(* What the states of the threads say about the records they work on; the  *)
(* type invariant is inductive only together with it.                      *)
DispatchStruct ==
    \A c \in Calls :
        /\ co[c] = "idle" => th[c] = "none" /\ ~abandoned[c]
        /\ co[c] = "awaiting" => th[c] # "none" /\ ~abandoned[c]
        /\ cx[c] \in {"check", "write"} => th[c] # "none"
        /\ th[c] # "none" => call[c] \in Call
        /\ th[c] = "got" => res[c] \in Result /\ res[c].resp \in Response
        /\ co[c] = "awaiting" /\ th[c] = "done" =>
             /\ res[c] \in Result
             /\ res[c].kind = "response" =>
                  res[c].resp \in Response /\ res[c].owner \in Calls

DispatchTypes == ChannelTypeOK /\ GatewayTypeOK /\ DispatchStruct

LEMMA InitDispatchTypes == ChannelInit /\ GatewayInit => DispatchTypes
  BY ExchangeAssumption
  DEF ChannelInit, GatewayInit, DispatchTypes, DispatchStruct, ChannelTypeOK, GatewayTypeOK,
      ThreadStates, Conns

LEMMA RaisedType == \A kind \in Failures : Raised(kind) \in Result
  BY DEF Raised, Result

LEMMA ErrorOutcomeType == \A code \in OutcomeCodes : ErrorOutcome(code) \in Outcome
  BY DEF ErrorOutcome, Outcome

(* The effect of leaving IdempotencyStore.execute on the thread of c.      *)
LEMMA FinishStep ==
  ASSUME DispatchTypes, NEW c \in Calls, NEW r \in Result, Finish(c, r)
  PROVE  /\ th' \in [Calls -> ThreadStates]
         /\ res' \in [Calls -> Result \cup {None}]
         /\ lock' = None
         /\ th'[c] = "done"
         /\ ~abandoned[c] => res'[c] = r
         /\ \A d \in Calls \ {c} : th'[d] = th[d] /\ res'[d] = res[d]
  BY DEF Finish, DispatchTypes, GatewayTypeOK, ThreadStates

(* Frames appended to and taken from the pipe keep their type.             *)
LEMMA FrameTypes ==
  ASSUME DispatchTypes, NEW k \in Conns
  PROVE  /\ \A m \in Request : [toWorker EXCEPT ![k] = Append(@, m)] \in [Conns -> Seq(Request)]
         /\ \A m \in Response : [toGateway EXCEPT ![k] = Append(@, m)] \in [Conns -> Seq(Response)]
         /\ toWorker[k] # <<>> =>
              /\ Head(toWorker[k]) \in Request
              /\ [toWorker EXCEPT ![k] = Tail(@)] \in [Conns -> Seq(Request)]
         /\ toGateway[k] # <<>> =>
              /\ Head(toGateway[k]) \in Response
              /\ [toGateway EXCEPT ![k] = Tail(@)] \in [Conns -> Seq(Response)]
         /\ [toWorker EXCEPT ![k] = <<>>] \in [Conns -> Seq(Request)]
         /\ [toGateway EXCEPT ![k] = <<>>] \in [Conns -> Seq(Response)]
<1>1. /\ toWorker \in [Conns -> Seq(Request)] /\ toWorker[k] \in Seq(Request)
      /\ toGateway \in [Conns -> Seq(Response)] /\ toGateway[k] \in Seq(Response)
  BY DEF DispatchTypes, ChannelTypeOK
<1>2. /\ \A m \in Request : Append(toWorker[k], m) \in Seq(Request)
      /\ \A m \in Response : Append(toGateway[k], m) \in Seq(Response)
  BY <1>1
<1>3. /\ toWorker[k] # <<>> => Head(toWorker[k]) \in Request /\ Tail(toWorker[k]) \in Seq(Request)
      /\ toGateway[k] # <<>> => Head(toGateway[k]) \in Response /\ Tail(toGateway[k]) \in Seq(Response)
  BY <1>1
<1>4. <<>> \in Seq(Request) /\ <<>> \in Seq(Response)
  OBVIOUS
<1> QED
  BY <1>1, <1>2, <1>3, <1>4

(* What is left of a queue once its first frame is read.                   *)
LEMMA TailElements ==
  ASSUME NEW S, NEW s \in Seq(S), s # <<>>
  PROVE  \A i \in 1..Len(Tail(s)) : i + 1 \in 1..Len(s) /\ Tail(s)[i] = s[i + 1]
<1>1. Len(s) \in Nat /\ Len(s) # 0
  OBVIOUS
<1>2. Len(Tail(s)) = Len(s) - 1
  BY <1>1
<1>3. \A i \in 1..Len(s) - 1 : Tail(s)[i] = s[i + 1]
  BY <1>1
<1> QED
  BY <1>1, <1>2, <1>3

(* A step of the dispatcher, of its threads or of the watcher.             *)
GatewayMove ==
    \/ \E c \in Calls :
         \/ \E op \in Ops, p \in Payloads, t \in 0..MaxTime : Dispatch(c, op, p, t)
         \/ DispatchUnavailable(c) \/ Timeout(c) \/ Present(c) \/ ThreadStep(c)
         \/ CancelCheck(c) \/ CancelWrite(c)
    \/ \E k \in Conns : Deliver(k) \/ ReadFail(k)

LEMMA MoveTypes == DispatchTypes /\ GatewayMove => DispatchTypes'
<1> SUFFICES ASSUME DispatchTypes, GatewayMove PROVE DispatchTypes'
  OBVIOUS
<1>0. ChannelTypeOK /\ GatewayTypeOK /\ DispatchStruct
  BY DEF DispatchTypes
<1>1. ASSUME NEW c \in Calls, DispatchUnavailable(c)
      PROVE  DispatchTypes'
  <2>0. ErrorOutcome("worker_unavailable") \in Outcome
    BY ErrorOutcomeType DEF OutcomeCodes
  <2>1. ChannelTypeOK'
    BY <1>0, <1>1, <2>0 DEF DispatchUnavailable, ChannelTypeOK, channelVars
  <2>2. GatewayTypeOK'
    BY <1>0, <1>1, <2>0 DEF DispatchUnavailable, GatewayTypeOK, Answer
  <2>4. DispatchStruct'
    BY <1>0, <1>1, <2>0 DEF DispatchUnavailable, DispatchStruct, GatewayTypeOK, Answer
  <2> QED
    BY <2>1, <2>2, <2>4 DEF DispatchTypes
<1>2. ASSUME NEW c \in Calls, NEW op \in Ops, NEW p \in Payloads, NEW t \in 0..MaxTime,
             Dispatch(c, op, p, t)
      PROVE  DispatchTypes'
  <2>0. [op |-> op, payload |-> p, at |-> t, conn |-> current] \in Call
    BY <1>0, <1>2 DEF Dispatch, Call, GatewayTypeOK
  <2>1. ChannelTypeOK'
    BY <1>0, <1>2, <2>0 DEF Dispatch, ChannelTypeOK, channelVars
  <2>2. GatewayTypeOK'
    BY <1>0, <1>2, <2>0 DEF Dispatch, GatewayTypeOK, ThreadStates
  <2>4. DispatchStruct'
    <3>1. /\ co'[c] = "awaiting" /\ th'[c] = "lock" /\ call'[c] \in Call
          /\ ~abandoned'[c] /\ UNCHANGED <<cx, res>>
      BY <1>0, <1>2, <2>0 DEF Dispatch, DispatchStruct, GatewayTypeOK
    <3>2. \A d \in Calls \ {c} : co'[d] = co[d] /\ th'[d] = th[d] /\ call'[d] = call[d]
      BY <1>0, <1>2 DEF Dispatch, GatewayTypeOK
    <3> QED
      BY <1>0, <1>2, <3>1, <3>2 DEF Dispatch, DispatchStruct
  <2> QED
    BY <2>1, <2>2, <2>4 DEF DispatchTypes
<1>3. ASSUME NEW c \in Calls, Timeout(c)
      PROVE  DispatchTypes'
  <2>0. ErrorOutcome("abandoned") \in Outcome
    BY ErrorOutcomeType DEF OutcomeCodes
  <2>1. ChannelTypeOK'
    BY <1>0, <1>3, <2>0 DEF Timeout, ChannelTypeOK, channelVars
  <2>2. GatewayTypeOK'
    BY <1>0, <1>3, <2>0 DEF Timeout, GatewayTypeOK, Abandon, Answer
  <2>4. DispatchStruct'
    BY <1>0, <1>3, <2>0 DEF Timeout, DispatchStruct, GatewayTypeOK, Abandon, Answer
  <2> QED
    BY <2>1, <2>2, <2>4 DEF DispatchTypes
<1>4. ASSUME NEW c \in Calls, Present(c)
      PROVE  DispatchTypes'
  <2>a. \A code \in {"abandoned", "worker_unavailable", "peer_error", "raised"} :
            ErrorOutcome(code) \in Outcome
    BY ErrorOutcomeType DEF OutcomeCodes
  <2>b. res[c].kind = "response" =>
          [code |-> "ok", resp |-> res[c].resp, owner |-> res[c].owner,
           replayed |-> res[c].replayed] \in Outcome
    BY <1>0, <1>4 DEF Present, DispatchStruct, Outcome, OutcomeCodes, Result
  <2>1. ChannelTypeOK'
    BY <1>0, <1>4, <2>a, <2>b DEF Present, ChannelTypeOK, channelVars
  <2>2. GatewayTypeOK'
    <3>1. /\ co' = [co EXCEPT ![c] = "done"]
          /\ res' = [res EXCEPT ![c] = None]
          /\ cx' = cx \/ cx' = [cx EXCEPT ![c] = "check"]
          /\ abandoned' = abandoned \/ abandoned' = [abandoned EXCEPT ![c] = TRUE]
          /\ current' = current \/ current' = None
          /\ UNCHANGED <<call, th, lock, cache, opened, active, response>>
      BY <1>4 DEF Present, Abandon, Answer
    <3>2. PICK o \in Outcome : outcome' = [outcome EXCEPT ![c] = o]
      BY <1>4, <2>a, <2>b DEF Present, Abandon, Answer
    <3> QED
      BY <1>0, <3>1, <3>2 DEF GatewayTypeOK
  <2>4. DispatchStruct'
    BY <1>0, <1>4, <2>a, <2>b DEF Present, DispatchStruct, GatewayTypeOK, Abandon, Answer
  <2> QED
    BY <2>1, <2>2, <2>4 DEF DispatchTypes
<1>5. ASSUME NEW c \in Calls, Lookup(c)
      PROVE  DispatchTypes'
  <2> DEFINE o == call[c].op
  <2>0. call[c] \in Call /\ o \in Ops
    BY <1>0, <1>5 DEF Lookup, Call, DispatchStruct
  <2>1. ChannelTypeOK'
    BY <1>0, <1>5 DEF Lookup, ChannelTypeOK, channelVars
  <2>2. GatewayTypeOK' /\ DispatchStruct'
    <3>1. CASE Live(c) /\ cache[o].digest = call[c].payload
      <4> DEFINE r == [kind |-> "response", resp |-> cache[o].result,
                       owner |-> cache[o].owner, replayed |-> TRUE]
      <4>1. cache[o] \in Entry
        BY <1>0, <2>0, <3>1 DEF Live, GatewayTypeOK
      <4>2. r \in Result /\ r.resp \in Response /\ r.owner \in Calls
        BY <4>1 DEF Result, Entry
      <4>3. Finish(c, r) /\ cache' = cache
        BY <1>5, <3>1 DEF Lookup
      <4> HIDE DEF r
      <4>4. GatewayTypeOK'
        BY <1>0, <1>5, <4>2, <4>3, FinishStep DEF Lookup, GatewayTypeOK
      <4>5. DispatchStruct'
        BY <1>0, <1>5, <4>2, <4>3, FinishStep DEF Lookup, DispatchStruct
      <4> QED
        BY <4>4, <4>5
    <3>2. CASE Live(c) /\ cache[o].digest # call[c].payload
      <4>1. Finish(c, Raised("conflict")) /\ cache' = cache
        BY <1>5, <3>2 DEF Lookup
      <4>2. Raised("conflict") \in Result /\ Raised("conflict").kind # "response"
        BY RaisedType DEF Failures, Raised
      <4>3. GatewayTypeOK'
        BY <1>0, <1>5, <4>1, <4>2, FinishStep DEF Lookup, GatewayTypeOK
      <4>4. DispatchStruct'
        BY <1>0, <1>5, <4>1, <4>2, FinishStep DEF Lookup, DispatchStruct
      <4> QED
        BY <4>3, <4>4
    <3>3. CASE ~Live(c)
      <4>1. /\ cache' = [cache EXCEPT ![o] = None]
            /\ lock' = c
            /\ th' = [th EXCEPT ![c] = "run"]
            /\ UNCHANGED <<res, call, co, outcome, abandoned, cx, current, opened, active, response>>
        BY <1>5, <3>3 DEF Lookup
      <4>2. GatewayTypeOK'
        BY <1>0, <2>0, <4>1 DEF GatewayTypeOK, ThreadStates
      <4>3. DispatchStruct'
        <5>1. th'[c] = "run" /\ \A d \in Calls \ {c} : th'[d] = th[d]
          BY <1>0, <4>1 DEF GatewayTypeOK
        <5> QED
          BY <1>0, <1>5, <2>0, <4>1, <5>1 DEF Lookup, DispatchStruct
      <4> QED
        BY <4>2, <4>3
    <3> QED
      BY <3>1, <3>2, <3>3
  <2> QED
    BY <2>1, <2>2 DEF DispatchTypes
<1>6. ASSUME NEW c \in Calls, Claim(c)
      PROVE  DispatchTypes'
  <2>0. call[c] \in Call /\ call[c].conn \in Conns /\ call[c].op \in Ops
    BY <1>0, <1>6 DEF Claim, Call, DispatchStruct
  <2>1. ChannelTypeOK'
    BY <1>0, <1>6 DEF Claim, ChannelTypeOK, channelVars
  <2>2. GatewayTypeOK' /\ DispatchStruct'
    <3>1. ASSUME NEW kind \in {"abandoned", "disconnected"}, Finish(c, Raised(kind)),
                 UNCHANGED <<active, response>>
          PROVE  GatewayTypeOK' /\ DispatchStruct'
      <4>1. Raised(kind) \in Result /\ Raised(kind).kind # "response"
        BY <3>1, RaisedType DEF Failures, Raised
      <4>2. GatewayTypeOK'
        BY <1>0, <1>6, <3>1, <4>1, FinishStep DEF Claim, GatewayTypeOK
      <4>3. DispatchStruct'
        BY <1>0, <1>6, <3>1, <4>1, FinishStep DEF Claim, DispatchStruct
      <4> QED
        BY <4>2, <4>3
    <3>2. CASE ~abandoned[c] /\ ~closed[call[c].conn]
      <4>1. /\ active' = [active EXCEPT ![call[c].conn] = call[c].op]
            /\ response' = [response EXCEPT ![call[c].conn] = None]
            /\ th' = [th EXCEPT ![c] = "claimed"]
            /\ UNCHANGED <<res, lock, call, co, outcome, abandoned, cx, cache, current, opened>>
        BY <1>6, <3>2 DEF Claim
      <4>2. GatewayTypeOK'
        BY <1>0, <2>0, <4>1 DEF GatewayTypeOK, ThreadStates
      <4>3. DispatchStruct'
        BY <1>0, <1>6, <2>0, <4>1 DEF Claim, DispatchStruct, GatewayTypeOK
      <4> QED
        BY <4>2, <4>3
    <3> QED
      BY <1>6, <3>1, <3>2 DEF Claim
  <2> QED
    BY <2>1, <2>2 DEF DispatchTypes
<1>7. ASSUME NEW c \in Calls, Write(c)
      PROVE  DispatchTypes'
  <2> DEFINE k == call[c].conn
             m == [kind |-> "request", id |-> call[c].op, call |-> c]
  <2>0. call[c] \in Call /\ k \in Conns /\ m \in Request
    BY <1>0, <1>7 DEF Write, Call, Request, DispatchStruct
  <2>1. ChannelTypeOK'
    <3>1. toWorker' = toWorker \/ toWorker' = [toWorker EXCEPT ![k] = Append(@, m)]
      BY <1>7 DEF Write, channelVars
    <3>2. /\ toGateway' = toGateway \/ toGateway' = [toGateway EXCEPT ![k] = <<>>]
          /\ closed' = closed \/ closed' = [closed EXCEPT ![k] = TRUE]
          /\ session' = session
      BY <1>7 DEF Write, channelVars, CloseGatewayEnd
    <3> HIDE DEF m
    <3> QED
      <4>1. toWorker' \in [Conns -> Seq(Request)]
        <5>1. CASE toWorker' = toWorker
          BY <1>0, <2>0, <5>1 DEF ChannelTypeOK
        <5>2. CASE toWorker' = [toWorker EXCEPT ![k] = Append(@, m)]
          BY <1>0, <2>0, <5>2 DEF ChannelTypeOK
        <5> QED
          BY <3>1, <5>1, <5>2
      <4>2. toGateway' \in [Conns -> Seq(Response)]
        <5>1. CASE toGateway' = toGateway
          BY <1>0, <2>0, <5>1 DEF ChannelTypeOK
        <5>2. CASE toGateway' = [toGateway EXCEPT ![k] = <<>>]
          BY <1>0, <2>0, <5>2 DEF ChannelTypeOK
        <5> QED
          BY <3>2, <5>1, <5>2
      <4> QED
        BY <1>0, <2>0, <3>2, <4>1, <4>2 DEF ChannelTypeOK
  <2>2. GatewayTypeOK' /\ DispatchStruct'
    <3>1. ASSUME NEW kind \in {"abandoned", "disconnected", "oserror"}, Finish(c, Raised(kind)),
                 active' = active \/ active' = [active EXCEPT ![k] = None]
          PROVE  GatewayTypeOK' /\ DispatchStruct'
      <4>1. Raised(kind) \in Result /\ Raised(kind).kind # "response"
        BY <3>1, RaisedType DEF Failures, Raised
      <4>2. active' \in [Conns -> Ops \cup {None}]
        BY <1>0, <2>0, <3>1 DEF GatewayTypeOK
      <4>3. GatewayTypeOK'
        BY <1>0, <1>7, <3>1, <4>1, <4>2, FinishStep DEF Write, GatewayTypeOK
      <4>4. DispatchStruct'
        BY <1>0, <1>7, <3>1, <4>1, FinishStep DEF Write, DispatchStruct
      <4> QED
        BY <4>3, <4>4
    <3>2. CASE ~abandoned[c] /\ Writable(k)
      <4>1. /\ th' = [th EXCEPT ![c] = "waiting"]
            /\ UNCHANGED <<active, res, lock, call, co, outcome, abandoned, cx, cache, current,
                           opened, response>>
        BY <1>7, <3>2 DEF Write
      <4>2. GatewayTypeOK'
        BY <1>0, <4>1 DEF GatewayTypeOK, ThreadStates
      <4>3. DispatchStruct'
        BY <1>0, <1>7, <2>0, <4>1 DEF Write, DispatchStruct, GatewayTypeOK
      <4> QED
        BY <4>2, <4>3
    <3> QED
      BY <1>7, <3>1, <3>2 DEF Write
  <2> QED
    BY <2>1, <2>2 DEF DispatchTypes
<1>8. ASSUME NEW c \in Calls, Take(c)
      PROVE  DispatchTypes'
  <2>a. call[c].conn \in Conns /\ response[call[c].conn] \in Response
    BY <1>0, <1>8 DEF Take, Call, DispatchStruct, GatewayTypeOK
  <2>b. /\ [kind |-> "taken", resp |-> response[call[c].conn], owner |-> None,
            replayed |-> FALSE] \in Result
    BY <2>a DEF Result
  <2>1. ChannelTypeOK'
    BY <1>0, <1>8, <2>a, <2>b DEF Take, ChannelTypeOK, channelVars
  <2>2. GatewayTypeOK'
    BY <1>0, <1>8, <2>a, <2>b DEF Take, GatewayTypeOK, ThreadStates
  <2>4. DispatchStruct'
    BY <1>0, <1>8, <2>a, <2>b DEF Take, DispatchStruct, GatewayTypeOK
  <2> QED
    BY <2>1, <2>2, <2>4 DEF DispatchTypes
<1>9. ASSUME NEW c \in Calls, EndpointTimeout(c)
      PROVE  DispatchTypes'
  <2>0. /\ call[c].conn \in Conns
        /\ Raised("timeout") \in Result /\ Raised("timeout").kind # "response"
    BY <1>0, <1>9, RaisedType DEF EndpointTimeout, Failures, Raised, Call, DispatchStruct
  <2>1. ChannelTypeOK'
    BY <1>0, <1>9 DEF EndpointTimeout, ChannelTypeOK, channelVars
  <2>2. GatewayTypeOK'
    BY <1>0, <1>9, <2>0, FinishStep DEF EndpointTimeout, GatewayTypeOK
  <2>4. DispatchStruct'
    BY <1>0, <1>9, <2>0, FinishStep DEF EndpointTimeout, DispatchStruct
  <2> QED
    BY <2>1, <2>2, <2>4 DEF DispatchTypes
<1>10. ASSUME NEW c \in Calls, WaitClosed(c)
       PROVE  DispatchTypes'
  <2>0. /\ call[c].conn \in Conns
        /\ Raised("disconnected") \in Result /\ Raised("disconnected").kind # "response"
    BY <1>0, <1>10, RaisedType DEF WaitClosed, Failures, Raised, Call, DispatchStruct
  <2>1. ChannelTypeOK'
    BY <1>0, <1>10 DEF WaitClosed, ChannelTypeOK, channelVars
  <2>2. GatewayTypeOK'
    BY <1>0, <1>10, <2>0, FinishStep DEF WaitClosed, GatewayTypeOK
  <2>4. DispatchStruct'
    BY <1>0, <1>10, <2>0, FinishStep DEF WaitClosed, DispatchStruct
  <2> QED
    BY <2>1, <2>2, <2>4 DEF DispatchTypes
<1>11. ASSUME NEW c \in Calls, Store(c)
       PROVE  DispatchTypes'
  <2> DEFINE e == [digest |-> call[c].payload, result |-> res[c].resp,
                   expires |-> call[c].at + TTL, owner |-> c]
             r == [kind |-> "response", resp |-> res[c].resp, owner |-> c, replayed |-> FALSE]
  <2>0. call[c] \in Call /\ call[c].op \in Ops /\ res[c].resp \in Response
    BY <1>0, <1>11 DEF Store, Call, DispatchStruct
  <2>1. ChannelTypeOK'
    BY <1>0, <1>11 DEF Store, ChannelTypeOK, channelVars
  <2>2. GatewayTypeOK' /\ DispatchStruct'
    <3>1. CASE abandoned[c]
      <4>1. Finish(c, Raised("abandoned")) /\ cache' = cache
        BY <1>11, <3>1 DEF Store
      <4>2. Raised("abandoned") \in Result /\ Raised("abandoned").kind # "response"
        BY RaisedType DEF Failures, Raised
      <4>3. GatewayTypeOK'
        BY <1>0, <1>11, <4>1, <4>2, FinishStep DEF Store, GatewayTypeOK
      <4>4. DispatchStruct'
        BY <1>0, <1>11, <4>1, <4>2, FinishStep DEF Store, DispatchStruct
      <4> QED
        BY <4>3, <4>4
    <3>2. CASE ~abandoned[c]
      <4>1. r \in Result /\ r.resp \in Response /\ r.owner \in Calls
        BY <2>0 DEF Result
      <4>2. e \in Entry
        BY <2>0, ExchangeAssumption DEF Entry, Call
      <4>3. Finish(c, r) /\ cache' = [cache EXCEPT ![call[c].op] = e]
        BY <1>11, <3>2 DEF Store
      <4> HIDE DEF e, r
      <4>4. GatewayTypeOK'
        BY <1>0, <1>11, <2>0, <4>1, <4>2, <4>3, FinishStep DEF Store, GatewayTypeOK
      <4>5. DispatchStruct'
        BY <1>0, <1>11, <4>1, <4>3, FinishStep DEF Store, DispatchStruct
      <4> QED
        BY <4>4, <4>5
    <3> QED
      BY <3>1, <3>2
  <2> QED
    BY <2>1, <2>2 DEF DispatchTypes
<1>12. ASSUME NEW c \in Calls, CancelCheck(c)
       PROVE  DispatchTypes'
  <2>1. ChannelTypeOK'
    BY <1>0, <1>12 DEF CancelCheck, ChannelTypeOK, channelVars
  <2>2. GatewayTypeOK'
    BY <1>0, <1>12 DEF CancelCheck, GatewayTypeOK
  <2>4. DispatchStruct'
    BY <1>0, <1>12 DEF CancelCheck, DispatchStruct, GatewayTypeOK
  <2> QED
    BY <2>1, <2>2, <2>4 DEF DispatchTypes
<1>13. ASSUME NEW c \in Calls, CancelWrite(c)
       PROVE  DispatchTypes'
  <2> DEFINE k == call[c].conn
             m == [kind |-> "cancel", id |-> call[c].op, call |-> c]
  <2>0. k \in Conns /\ m \in Request
    BY <1>0, <1>13 DEF CancelWrite, Call, Request, DispatchStruct
  <2>1. ChannelTypeOK'
    <3>1. /\ toWorker' = toWorker \/ toWorker' = [toWorker EXCEPT ![k] = Append(@, m)]
          /\ toGateway' = toGateway \/ toGateway' = [toGateway EXCEPT ![k] = <<>>]
          /\ closed' = closed \/ closed' = [closed EXCEPT ![k] = TRUE]
          /\ session' = session
      BY <1>13 DEF CancelWrite, CloseGatewayEnd
    <3> HIDE DEF m
    <3> QED
      <4>1. toWorker' \in [Conns -> Seq(Request)]
        <5>1. CASE toWorker' = toWorker
          BY <1>0, <2>0, <5>1 DEF ChannelTypeOK
        <5>2. CASE toWorker' = [toWorker EXCEPT ![k] = Append(@, m)]
          BY <1>0, <2>0, <5>2 DEF ChannelTypeOK
        <5> QED
          BY <3>1, <5>1, <5>2
      <4>2. toGateway' \in [Conns -> Seq(Response)]
        <5>1. CASE toGateway' = toGateway
          BY <1>0, <2>0, <5>1 DEF ChannelTypeOK
        <5>2. CASE toGateway' = [toGateway EXCEPT ![k] = <<>>]
          BY <1>0, <2>0, <5>2 DEF ChannelTypeOK
        <5> QED
          BY <3>1, <5>1, <5>2
      <4> QED
        BY <1>0, <2>0, <3>1, <4>1, <4>2 DEF ChannelTypeOK
  <2>2. GatewayTypeOK'
    BY <1>0, <1>13 DEF CancelWrite, GatewayTypeOK
  <2>4. DispatchStruct'
    BY <1>0, <1>13 DEF CancelWrite, DispatchStruct, GatewayTypeOK
  <2> QED
    BY <2>1, <2>2, <2>4 DEF DispatchTypes
<1>14. ASSUME NEW k \in Conns, Deliver(k)
       PROVE  DispatchTypes'
  <2>0. toGateway[k] # <<>> /\ Head(toGateway[k]) \in Response
    BY <1>14, FrameTypes DEF Deliver
  <2>1. ChannelTypeOK'
    <3>1. /\ toGateway' \in {[toGateway EXCEPT ![k] = Tail(@)], [toGateway EXCEPT ![k] = <<>>]}
          /\ closed' = closed \/ closed' = [closed EXCEPT ![k] = TRUE]
          /\ UNCHANGED <<toWorker, session>>
      BY <1>14 DEF Deliver, TearDown, CloseGatewayEnd
    <3> QED
      <4>1. toWorker' \in [Conns -> Seq(Request)]
        BY <1>0, <2>0, <3>1 DEF ChannelTypeOK
      <4>2. toGateway' \in [Conns -> Seq(Response)]
        <5>1. CASE toGateway' = [toGateway EXCEPT ![k] = Tail(@)]
          BY <1>0, <2>0, <5>1 DEF ChannelTypeOK
        <5>2. CASE toGateway' = [toGateway EXCEPT ![k] = <<>>]
          BY <1>0, <2>0, <5>2 DEF ChannelTypeOK
        <5> QED
          BY <3>1, <5>1, <5>2
      <4> QED
        BY <1>0, <2>0, <3>1, <4>1, <4>2 DEF ChannelTypeOK
  <2>2. GatewayTypeOK'
    <3>1. /\ response' = response \/ response' = [response EXCEPT ![k] = Head(toGateway[k])]
          /\ current' = current \/ current' = None
          /\ UNCHANGED <<call, co, outcome, abandoned, th, res, cx, lock, cache, opened, active>>
      BY <1>14 DEF Deliver, TearDown
    <3> QED
      BY <1>0, <2>0, <3>1 DEF GatewayTypeOK
  <2>4. DispatchStruct'
    BY <1>0, <1>14 DEF Deliver, DispatchStruct
  <2> QED
    BY <2>1, <2>2, <2>4 DEF DispatchTypes
<1>15. ASSUME NEW k \in Conns, ReadFail(k)
       PROVE  DispatchTypes'
  <2>1. ChannelTypeOK'
    BY <1>0, <1>15, FrameTypes DEF ReadFail, ChannelTypeOK, channelVars, TearDown, CloseGatewayEnd
  <2>2. GatewayTypeOK'
    BY <1>0, <1>15, FrameTypes DEF ReadFail, GatewayTypeOK, TearDown
  <2>4. DispatchStruct'
    BY <1>0, <1>15, FrameTypes DEF ReadFail, DispatchStruct, GatewayTypeOK
  <2> QED
    BY <2>1, <2>2, <2>4 DEF DispatchTypes
<1> QED
  BY <1>1, <1>2, <1>3, <1>4, <1>5, <1>6, <1>7, <1>8, <1>9, <1>10, <1>11, <1>12, <1>13, <1>14, <1>15
  DEF GatewayMove, ThreadStep
-----------------------------------------------------------------------------
(* The idempotency lock: its holder is the only call in an exchange.       *)
ExclInv ==
    \A c \in Calls : th[c] \in InExchange =>
        lock = c /\ cache[call[c].op] = None
LEMMA MoveExclInv == DispatchTypes /\ ExclInv /\ GatewayMove => ExclInv'
<1> SUFFICES ASSUME DispatchTypes, ExclInv, GatewayMove PROVE ExclInv'
  OBVIOUS
<1>0. GatewayTypeOK /\ DispatchStruct
  BY DEF DispatchTypes
<1>1. ASSUME UNCHANGED <<th, lock, cache, call>> PROVE ExclInv'
  BY <1>1 DEF ExclInv
<1>2. ASSUME NEW c \in Calls, th[c] \in InExchange, th'[c] = "done", UNCHANGED call,
             \A d \in Calls \ {c} : th'[d] = th[d]
      PROVE  ExclInv'
  BY <1>2 DEF ExclInv, InExchange
<1>3. ASSUME NEW c \in Calls, NEW op \in Ops, NEW p \in Payloads, NEW t \in 0..MaxTime,
             Dispatch(c, op, p, t)
      PROVE  ExclInv'
  <2>1. th'[c] = "lock" /\ \A d \in Calls \ {c} : th'[d] = th[d] /\ call'[d] = call[d]
    BY <1>0, <1>3 DEF Dispatch, GatewayTypeOK
  <2> QED
    BY <1>3, <2>1 DEF Dispatch, ExclInv, InExchange
<1>4. ASSUME NEW c \in Calls, Lookup(c) PROVE ExclInv'
  <2>1. \A d \in Calls \ {c} : th'[d] = th[d] /\ th[d] \notin InExchange
    BY <1>0, <1>4, ExchangeAssumption DEF Lookup, Finish, GatewayTypeOK, ExclInv
  <2>2. \/ th'[c] = "done"
        \/ lock' = c /\ cache' = [cache EXCEPT ![call[c].op] = None]
    BY <1>0, <1>4 DEF Lookup, Finish, GatewayTypeOK
  <2>3. call' = call /\ call[c].op \in Ops
    BY <1>0, <1>4 DEF Lookup, DispatchStruct, Call
  <2> QED
    BY <1>0, <2>1, <2>2, <2>3 DEF ExclInv, InExchange, GatewayTypeOK
<1>5. ASSUME NEW c \in Calls, Claim(c) PROVE ExclInv'
  <2>1. CASE th' = [th EXCEPT ![c] = "claimed"] /\ UNCHANGED lock
    BY <1>0, <1>5, <2>1 DEF Claim, ExclInv, InExchange, GatewayTypeOK
  <2>2. CASE th' = [th EXCEPT ![c] = "done"]
    BY <1>0, <1>2, <1>5, <2>2 DEF Claim, InExchange, GatewayTypeOK
  <2> QED
    BY <1>5, <2>1, <2>2 DEF Claim, Finish
<1>6. ASSUME NEW c \in Calls, Write(c) PROVE ExclInv'
  <2>1. CASE th' = [th EXCEPT ![c] = "waiting"] /\ UNCHANGED lock
    BY <1>0, <1>6, <2>1 DEF Write, ExclInv, InExchange, GatewayTypeOK
  <2>2. CASE th' = [th EXCEPT ![c] = "done"]
    BY <1>0, <1>2, <1>6, <2>2 DEF Write, InExchange, GatewayTypeOK
  <2> QED
    BY <1>6, <2>1, <2>2 DEF Write, Finish
<1>7. ASSUME NEW c \in Calls, Take(c) PROVE ExclInv'
  BY <1>0, <1>7 DEF Take, ExclInv, InExchange, GatewayTypeOK
<1>8. ASSUME NEW c \in Calls, EndpointTimeout(c) \/ WaitClosed(c) \/ Store(c) PROVE ExclInv'
  <2>1. th' = [th EXCEPT ![c] = "done"] /\ th[c] \in InExchange /\ UNCHANGED call
    BY <1>8 DEF EndpointTimeout, WaitClosed, Store, Finish, InExchange
  <2> QED
    BY <1>0, <1>2, <2>1 DEF GatewayTypeOK
<1>9. ASSUME NEW c \in Calls,
             DispatchUnavailable(c) \/ Timeout(c) \/ Present(c) \/ CancelCheck(c) \/ CancelWrite(c)
      PROVE  ExclInv'
  BY <1>1, <1>9 DEF DispatchUnavailable, Timeout, Present, CancelCheck, CancelWrite
<1>10. ASSUME NEW k \in Conns, Deliver(k) \/ ReadFail(k) PROVE ExclInv'
  BY <1>1, <1>10 DEF Deliver, ReadFail
<1> QED
  BY <1>3, <1>4, <1>5, <1>6, <1>7, <1>8, <1>9, <1>10 DEF GatewayMove, ThreadStep

(* The response m was produced for a call dispatched under its id.         *)
RespOK(m) == m \in Response /\ th[m.by] # "none" /\ call[m.by].op = m.id

(* Responses in the pipe and in the response slot stem from a dispatched   *)
(* call of their id.                                                       *)
ToGatewayInv == \A k \in Conns : \A i \in 1..Len(toGateway[k]) : RespOK(toGateway[k][i])

SlotRespInv == \A k \in Conns : response[k] # None => RespOK(response[k])

(* A waiting thread owns its connection: what is in the response slot is   *)
(* meant for its operation.                                                *)
SlotInv ==
    \A c \in Calls : th[c] \in {"claimed", "waiting"} =>
        LET k == call[c].conn IN
        /\ active[k] = call[c].op
        /\ response[k] # None => response[k].id = call[c].op

(* Call c may be given response m, cached by call w.                       *)
Good(c, m, w) ==
    /\ RespOK(m) /\ m.id = call[c].op
    /\ w \in Calls /\ th[w] # "none" /\ th[c] # "none"
    /\ call[w].op = call[c].op /\ call[w].payload = call[c].payload

(* The result of an operation, on its way from the response slot to the    *)
(* caller: taken, cached, returned by the thread, answered.                *)
TakenInv ==
    \A c \in Calls : th[c] = "got" => RespOK(res[c].resp) /\ res[c].resp.id = call[c].op

CacheInv ==
    \A o \in Ops : cache[o] # None =>
        /\ RespOK(cache[o].result) /\ cache[o].result.id = o
        /\ cache[o].owner \in Calls /\ th[cache[o].owner] # "none"
        /\ call[cache[o].owner].op = o /\ call[cache[o].owner].payload = cache[o].digest

ReturnedInv ==
    \A c \in Calls :
        (co[c] = "awaiting" /\ th[c] = "done" /\ res[c].kind = "response")
        => Good(c, res[c].resp, res[c].owner)

AnsweredInv ==
    \A c \in Calls : (outcome[c] # None /\ outcome[c].code = "ok")
        => Good(c, outcome[c].resp, outcome[c].owner)

CorrInv ==
    /\ ExclInv /\ ToGatewayInv /\ SlotRespInv /\ SlotInv
    /\ TakenInv /\ CacheInv /\ ReturnedInv /\ AnsweredInv

(* A dispatched call is never forgotten or altered.                        *)
LEMMA CallsStable ==
  ASSUME DispatchTypes, GatewayMove, NEW c \in Calls, th[c] # "none"
  PROVE  th'[c] # "none" /\ call'[c] = call[c]
<1>0. GatewayTypeOK /\ DispatchStruct
  BY DEF DispatchTypes
<1>1. ASSUME NEW d \in Calls, NEW op \in Ops, NEW p \in Payloads, NEW t \in 0..MaxTime,
             Dispatch(d, op, p, t)
      PROVE  th'[c] # "none" /\ call'[c] = call[c]
  BY <1>0, <1>1 DEF Dispatch, GatewayTypeOK, DispatchStruct
<1>2. ASSUME NEW d \in Calls, ThreadStep(d) PROVE th'[c] # "none" /\ call'[c] = call[c]
  BY <1>0, <1>2 DEF ThreadStep, Lookup, Claim, Write, Take, EndpointTimeout, WaitClosed, Store,
     Finish, GatewayTypeOK
<1>3. ASSUME UNCHANGED <<th, call>> PROVE th'[c] # "none" /\ call'[c] = call[c]
  BY <1>3
<1>4. ASSUME NEW d \in Calls,
             DispatchUnavailable(d) \/ Timeout(d) \/ Present(d) \/ CancelCheck(d) \/ CancelWrite(d)
      PROVE  UNCHANGED <<th, call>>
  BY <1>4 DEF DispatchUnavailable, Timeout, Present, CancelCheck, CancelWrite
<1>5. ASSUME NEW k \in Conns, Deliver(k) \/ ReadFail(k) PROVE UNCHANGED <<th, call>>
  BY <1>5 DEF Deliver, ReadFail
<1> QED
  BY <1>1, <1>2, <1>3, <1>4, <1>5 DEF GatewayMove, ThreadStep, ThreadStep

LEMMA RespStable ==
  ASSUME DispatchTypes, GatewayMove, NEW m, RespOK(m)
  PROVE  RespOK(m)'
  BY CallsStable DEF RespOK, Response

LEMMA MoveToGatewayInv == DispatchTypes /\ CorrInv /\ GatewayMove => ToGatewayInv'
<1> SUFFICES ASSUME DispatchTypes, CorrInv, GatewayMove PROVE ToGatewayInv'
  OBVIOUS
<1>0. ChannelTypeOK /\ DispatchStruct /\ ToGatewayInv
  BY DEF DispatchTypes, CorrInv
<1>1. ASSUME \A k \in Conns : \A i \in 1..Len(toGateway'[k]) : RespOK(toGateway'[k][i])
      PROVE  ToGatewayInv'
  BY <1>1, RespStable DEF ToGatewayInv
<1>2. ASSUME UNCHANGED toGateway PROVE ToGatewayInv'
  BY <1>0, <1>1, <1>2 DEF ToGatewayInv
<1>4. ASSUME NEW k \in Conns, toGateway[k] # <<>>, toGateway' = [toGateway EXCEPT ![k] = Tail(@)]
      PROVE  ToGatewayInv'
  <2>1. toGateway'[k] = Tail(toGateway[k]) /\ toGateway[k] \in Seq(Response)
    BY <1>0, <1>4 DEF ChannelTypeOK
  <2>2. \A j \in Conns \ {k} : toGateway'[j] = toGateway[j]
    BY <1>0, <1>4 DEF ChannelTypeOK
  <2>3. \A i \in 1..Len(toGateway'[k]) :
          i + 1 \in 1..Len(toGateway[k]) /\ toGateway'[k][i] = toGateway[k][i + 1]
    BY <1>4, <2>1, TailElements
  <2> QED
    BY <1>0, <1>1, <2>2, <2>3 DEF ToGatewayInv
<1>5. ASSUME NEW k \in Conns, toGateway' = [toGateway EXCEPT ![k] = <<>>]
      PROVE  ToGatewayInv'
  <2>1. toGateway'[k] = <<>> /\ \A j \in Conns \ {k} : toGateway'[j] = toGateway[j]
    BY <1>0, <1>5 DEF ChannelTypeOK
  <2> QED
    BY <1>0, <1>1, <2>1 DEF ToGatewayInv
<1>6. ASSUME NEW c \in Calls, Write(c) \/ CancelWrite(c) PROVE ToGatewayInv'
  <2>1. call[c].conn \in Conns
    BY <1>0, <1>6 DEF Write, CancelWrite, DispatchStruct, Call
  <2>2. UNCHANGED toGateway \/ toGateway' = [toGateway EXCEPT ![call[c].conn] = <<>>]
    BY <1>6 DEF Write, CancelWrite, CloseGatewayEnd, channelVars
  <2> QED
    BY <1>2, <1>5, <2>1, <2>2
<1>9. ASSUME NEW k \in Conns, Deliver(k) \/ ReadFail(k) PROVE ToGatewayInv'
  <2>1. \/ toGateway[k] # <<>> /\ toGateway' = [toGateway EXCEPT ![k] = Tail(@)]
        \/ toGateway' = [toGateway EXCEPT ![k] = <<>>]
    BY <1>9 DEF Deliver, ReadFail, TearDown, CloseGatewayEnd
  <2> QED
    BY <1>4, <1>5, <2>1
<1>12. ASSUME NEW c \in Calls,
              DispatchUnavailable(c) \/ Timeout(c) \/ Present(c) \/ Lookup(c) \/ Claim(c) \/ Take(c)
              \/ EndpointTimeout(c) \/ WaitClosed(c) \/ Store(c) \/ CancelCheck(c)
       PROVE  ToGatewayInv'
  BY <1>2, <1>12 DEF DispatchUnavailable, Timeout, Present, Lookup, Claim, Take, EndpointTimeout,
     WaitClosed, Store, CancelCheck, channelVars
<1>13. ASSUME NEW c \in Calls, NEW op \in Ops, NEW p \in Payloads, NEW t \in 0..MaxTime,
              Dispatch(c, op, p, t)
       PROVE  ToGatewayInv'
  BY <1>2, <1>13 DEF Dispatch, channelVars
<1> QED
  BY <1>6, <1>9, <1>12, <1>13 DEF GatewayMove, ThreadStep

LEMMA MoveSlotRespInv == DispatchTypes /\ CorrInv /\ GatewayMove => SlotRespInv'
<1> SUFFICES ASSUME DispatchTypes, CorrInv, GatewayMove PROVE SlotRespInv'
  OBVIOUS
<1>0. ChannelTypeOK /\ GatewayTypeOK /\ DispatchStruct /\ ToGatewayInv /\ SlotRespInv
  BY DEF DispatchTypes, CorrInv
<1>1. ASSUME \A k \in Conns : response'[k] # None => RespOK(response'[k]) PROVE SlotRespInv'
  BY <1>1, RespStable DEF SlotRespInv
<1>2. ASSUME UNCHANGED response PROVE SlotRespInv'
  BY <1>0, <1>1, <1>2 DEF SlotRespInv
<1>3. ASSUME NEW k \in Conns, response' = [response EXCEPT ![k] = None] PROVE SlotRespInv'
  BY <1>0, <1>1, <1>3 DEF SlotRespInv, GatewayTypeOK
<1>4. ASSUME NEW c \in Calls, Claim(c) \/ Take(c) PROVE SlotRespInv'
  <2>1. call[c].conn \in Conns
    BY <1>0, <1>4 DEF Claim, Take, DispatchStruct, Call
  <2>2. UNCHANGED response \/ response' = [response EXCEPT ![call[c].conn] = None]
    BY <1>4 DEF Claim, Take
  <2> QED
    BY <1>2, <1>3, <2>1, <2>2
<1>5. ASSUME NEW k \in Conns, Deliver(k) PROVE SlotRespInv'
  <2> DEFINE m == Head(toGateway[k])
  <2>1. toGateway[k] # <<>> /\ toGateway[k] \in Seq(Response)
    BY <1>0, <1>5 DEF Deliver, ChannelTypeOK
  <2>2. m = toGateway[k][1] /\ 1 \in 1..Len(toGateway[k])
    BY <2>1
  <2>3. RespOK(m)
    BY <1>0, <2>2 DEF ToGatewayInv
  <2>4. UNCHANGED response \/ response' = [response EXCEPT ![k] = m]
    BY <1>5 DEF Deliver
  <2> HIDE DEF m
  <2> QED
    BY <1>0, <1>1, <1>2, <2>3, <2>4 DEF SlotRespInv, GatewayTypeOK
<1>6. ASSUME NEW k \in Conns, ReadFail(k) PROVE SlotRespInv'
  BY <1>2, <1>6 DEF ReadFail
<1>8. ASSUME NEW c \in Calls,
             DispatchUnavailable(c) \/ Timeout(c) \/ Present(c) \/ Lookup(c) \/ Write(c)
             \/ EndpointTimeout(c) \/ WaitClosed(c) \/ Store(c) \/ CancelCheck(c) \/ CancelWrite(c)
      PROVE  SlotRespInv'
  BY <1>2, <1>8 DEF DispatchUnavailable, Timeout, Present, Lookup, Write, EndpointTimeout,
     WaitClosed, Store, CancelCheck, CancelWrite
<1>9. ASSUME NEW c \in Calls, NEW op \in Ops, NEW p \in Payloads, NEW t \in 0..MaxTime,
             Dispatch(c, op, p, t)
      PROVE  SlotRespInv'
  BY <1>2, <1>9 DEF Dispatch
<1> QED
  BY <1>4, <1>5, <1>6, <1>8, <1>9 DEF GatewayMove, ThreadStep

LEMMA MoveSlotInv == DispatchTypes /\ ExclInv /\ SlotInv /\ GatewayMove => SlotInv'
<1> SUFFICES ASSUME DispatchTypes, ExclInv, SlotInv, GatewayMove PROVE SlotInv'
  OBVIOUS
<1>0. GatewayTypeOK /\ DispatchStruct
  BY DEF DispatchTypes
<1>1. ASSUME UNCHANGED <<th, call, active, response>> PROVE SlotInv'
  BY <1>1 DEF SlotInv
<1>2. \A c, d \in Calls : th[c] \in InExchange /\ th[d] \in InExchange => c = d
  BY DEF ExclInv
<1>3. ASSUME NEW c \in Calls, th[c] \in InExchange, th'[c] \notin {"claimed", "waiting"},
             \A d \in Calls \ {c} : th'[d] = th[d]
      PROVE  SlotInv'
  BY <1>2, <1>3 DEF SlotInv, InExchange
<1>4. ASSUME NEW c \in Calls, Lookup(c) PROVE SlotInv'
  <2>1. th'[c] \in {"done", "run"} /\ \A d \in Calls \ {c} : th'[d] = th[d]
    BY <1>0, <1>4 DEF Lookup, Finish, GatewayTypeOK
  <2> QED
    BY <1>4, <2>1 DEF Lookup, SlotInv
<1>5. ASSUME NEW c \in Calls, Claim(c) PROVE SlotInv'
  <2>0. th[c] \in InExchange /\ call[c].conn \in Conns /\ UNCHANGED call
    BY <1>0, <1>5 DEF Claim, InExchange, DispatchStruct, Call
  <2>1. CASE th' = [th EXCEPT ![c] = "claimed"]
    <3>1. \A d \in Calls \ {c} : th'[d] \notin InExchange
      BY <1>0, <1>2, <2>0, <2>1 DEF GatewayTypeOK
    <3>2. active'[call[c].conn] = call[c].op /\ response'[call[c].conn] = None
      BY <1>0, <1>5, <2>0, <2>1 DEF Claim, Finish, GatewayTypeOK
    <3> QED
      BY <2>0, <3>1, <3>2 DEF SlotInv, InExchange
  <2>2. CASE th' = [th EXCEPT ![c] = "done"]
    <3>1. th'[c] = "done" /\ \A d \in Calls \ {c} : th'[d] = th[d]
      BY <1>0, <2>2 DEF GatewayTypeOK
    <3> QED
      BY <1>3, <2>0, <3>1
  <2> QED
    BY <1>5, <2>1, <2>2 DEF Claim, Finish
<1>6. ASSUME NEW c \in Calls, Write(c) PROVE SlotInv'
  <2>0. th[c] = "claimed" /\ th[c] \in InExchange
    BY <1>6 DEF Write, InExchange
  <2>1. CASE th' = [th EXCEPT ![c] = "waiting"] /\ UNCHANGED active
    BY <1>0, <1>6, <2>0, <2>1 DEF Write, SlotInv, GatewayTypeOK
  <2>2. CASE th' = [th EXCEPT ![c] = "done"]
    <3>1. th'[c] = "done" /\ \A d \in Calls \ {c} : th'[d] = th[d]
      BY <1>0, <2>2 DEF GatewayTypeOK
    <3> QED
      BY <1>3, <2>0, <3>1
  <2> QED
    BY <1>6, <2>1, <2>2 DEF Write, Finish
<1>7. ASSUME NEW c \in Calls, Take(c) \/ EndpointTimeout(c) \/ WaitClosed(c) \/ Store(c)
      PROVE  SlotInv'
  <2>1. th[c] \in InExchange /\ (th' = [th EXCEPT ![c] = "got"] \/ th' = [th EXCEPT ![c] = "done"])
    BY <1>7 DEF Take, EndpointTimeout, WaitClosed, Store, Finish, InExchange
  <2>2. th'[c] \in {"got", "done"} /\ \A d \in Calls \ {c} : th'[d] = th[d]
    BY <1>0, <2>1 DEF GatewayTypeOK
  <2> QED
    BY <1>3, <2>1, <2>2
<1>8. ASSUME NEW k \in Conns, Deliver(k) PROVE SlotInv'
  <2> DEFINE m == Head(toGateway[k])
  <2>1. UNCHANGED <<th, call, active>>
    BY <1>8 DEF Deliver
  <2>2. \/ UNCHANGED response
        \/ active[k] = m.id /\ response' = [response EXCEPT ![k] = m]
    BY <1>8 DEF Deliver
  <2> HIDE DEF m
  <2>3. \A j \in Conns : response'[j] = response[j] \/ active[j] = response'[j].id
    BY <1>0, <2>2 DEF GatewayTypeOK
  <2>4. \A c \in Calls : th[c] \in {"claimed", "waiting"} => call[c].conn \in Conns
    BY <1>0 DEF DispatchStruct, Call
  <2> QED
    BY <2>1, <2>3, <2>4 DEF SlotInv
<1>9. ASSUME NEW c \in Calls, NEW op \in Ops, NEW p \in Payloads, NEW t \in 0..MaxTime,
             Dispatch(c, op, p, t)
      PROVE  SlotInv'
  <2>1. th'[c] = "lock" /\ \A d \in Calls \ {c} : th'[d] = th[d] /\ call'[d] = call[d]
    BY <1>0, <1>9 DEF Dispatch, GatewayTypeOK
  <2> QED
    BY <1>9, <2>1 DEF Dispatch, SlotInv
<1>10. ASSUME NEW c \in Calls,
              DispatchUnavailable(c) \/ Timeout(c) \/ Present(c) \/ CancelCheck(c) \/ CancelWrite(c)
       PROVE  SlotInv'
  BY <1>1, <1>10 DEF DispatchUnavailable, Timeout, Present, CancelCheck, CancelWrite
<1>11. ASSUME NEW k \in Conns, ReadFail(k) PROVE SlotInv'
  BY <1>1, <1>11 DEF ReadFail
<1> QED
  BY <1>4, <1>5, <1>6, <1>7, <1>8, <1>9, <1>10, <1>11 DEF GatewayMove, ThreadStep

LEMMA GoodStable ==
  ASSUME DispatchTypes, GatewayMove, NEW c \in Calls, NEW m, NEW w, Good(c, m, w)
  PROVE  Good(c, m, w)'
<1>1. RespOK(m)'
  BY RespStable DEF Good
<1>2. call'[c] = call[c] /\ th'[c] # "none" /\ w \in Calls /\ call'[w] = call[w] /\ th'[w] # "none"
  BY CallsStable DEF Good
<1> QED
  BY <1>1, <1>2 DEF Good

LEMMA MoveTakenInv == DispatchTypes /\ CorrInv /\ GatewayMove => TakenInv'
<1> SUFFICES ASSUME DispatchTypes, CorrInv, GatewayMove PROVE TakenInv'
  OBVIOUS
<1>0. GatewayTypeOK /\ DispatchStruct /\ ExclInv /\ SlotInv /\ SlotRespInv /\ TakenInv
  BY DEF DispatchTypes, CorrInv
<1>1. ASSUME \A c \in Calls : th'[c] = "got" =>
               th[c] # "none" /\ RespOK(res'[c].resp) /\ res'[c].resp.id = call[c].op
      PROVE  TakenInv'
  BY <1>1, CallsStable, RespStable DEF TakenInv
<1>2. ASSUME \A c \in Calls : th'[c] = "got" => th[c] = "got" /\ res'[c] = res[c]
      PROVE  TakenInv'
  BY <1>0, <1>1, <1>2 DEF TakenInv
<1>3. ASSUME NEW c \in Calls, Take(c) PROVE TakenInv'
  <2>1. call[c].conn \in Conns
    BY <1>0, <1>3 DEF Take, DispatchStruct, Call
  <2>2. /\ RespOK(response[call[c].conn])
        /\ response[call[c].conn].id = call[c].op
    BY <1>0, <1>3, <2>1 DEF Take, SlotInv, SlotRespInv
  <2>3. /\ res'[c].resp = response[call[c].conn] /\ th[c] = "waiting"
        /\ \A d \in Calls \ {c} : th'[d] = th[d] /\ res'[d] = res[d]
    BY <1>0, <1>3 DEF Take, GatewayTypeOK
  <2> QED
    BY <1>0, <1>1, <2>2, <2>3 DEF TakenInv
<1>4. ASSUME NEW c \in Calls, Lookup(c) \/ Claim(c) \/ Write(c) PROVE TakenInv'
  <2>1. th'[c] # "got" /\ \A d \in Calls \ {c} : th'[d] = th[d] /\ res'[d] = res[d]
    BY <1>0, <1>4 DEF Lookup, Claim, Write, Finish, GatewayTypeOK
  <2> QED
    BY <1>2, <2>1
<1>5. ASSUME NEW c \in Calls, EndpointTimeout(c) \/ WaitClosed(c) \/ Store(c) PROVE TakenInv'
  <2>1. th'[c] # "got" /\ \A d \in Calls \ {c} : th'[d] = th[d] /\ res'[d] = res[d]
    BY <1>0, <1>5 DEF EndpointTimeout, WaitClosed, Store, Finish, GatewayTypeOK
  <2> QED
    BY <1>2, <2>1
<1>6. ASSUME NEW c \in Calls, Present(c) PROVE TakenInv'
  <2>1. th' = th /\ th[c] = "done" /\ \A d \in Calls \ {c} : res'[d] = res[d]
    BY <1>0, <1>6 DEF Present, GatewayTypeOK
  <2> QED
    BY <1>2, <2>1
<1>7. ASSUME NEW c \in Calls, NEW op \in Ops, NEW p \in Payloads, NEW t \in 0..MaxTime,
             Dispatch(c, op, p, t)
      PROVE  TakenInv'
  <2>1. th'[c] = "lock" /\ (\A d \in Calls \ {c} : th'[d] = th[d]) /\ res' = res
    BY <1>0, <1>7 DEF Dispatch, GatewayTypeOK
  <2> QED
    BY <1>2, <2>1
<1>8. ASSUME UNCHANGED <<th, res>> PROVE TakenInv'
  BY <1>2, <1>8
<1>9. ASSUME NEW c \in Calls,
             DispatchUnavailable(c) \/ Timeout(c) \/ CancelCheck(c) \/ CancelWrite(c)
      PROVE  TakenInv'
  BY <1>8, <1>9 DEF DispatchUnavailable, Timeout, CancelCheck, CancelWrite
<1>10. ASSUME NEW k \in Conns, Deliver(k) \/ ReadFail(k) PROVE TakenInv'
  BY <1>8, <1>10 DEF Deliver, ReadFail
<1> QED
  BY <1>3, <1>4, <1>5, <1>6, <1>7, <1>9, <1>10 DEF GatewayMove, ThreadStep

LEMMA MoveCacheInv == DispatchTypes /\ CorrInv /\ GatewayMove => CacheInv'
<1> SUFFICES ASSUME DispatchTypes, CorrInv, GatewayMove PROVE CacheInv'
  OBVIOUS
<1>0. GatewayTypeOK /\ DispatchStruct /\ CacheInv /\ TakenInv
  BY DEF DispatchTypes, CorrInv
<1> DEFINE EntryOK(o, e) ==
      /\ RespOK(e.result) /\ e.result.id = o
      /\ e.owner \in Calls /\ th[e.owner] # "none"
      /\ call[e.owner].op = o /\ call[e.owner].payload = e.digest
<1>1. ASSUME NEW o, NEW e, EntryOK(o, e) PROVE EntryOK(o, e)'
  BY <1>1, RespStable, CallsStable
<1>2. ASSUME \A o \in Ops : cache'[o] # None => EntryOK(o, cache'[o]) PROVE CacheInv'
  BY <1>1, <1>2 DEF CacheInv
<1>3. \A o \in Ops : cache[o] # None => EntryOK(o, cache[o])
  BY <1>0 DEF CacheInv
<1>4. ASSUME NEW c \in Calls, Store(c) PROVE CacheInv'
  <2> DEFINE e == [digest |-> call[c].payload, result |-> res[c].resp,
                   expires |-> call[c].at + TTL, owner |-> c]
  <2>1. call[c].op \in Ops
    BY <1>0, <1>4 DEF Store, DispatchStruct, Call
  <2>2. EntryOK(call[c].op, e)
    BY <1>0, <1>4 DEF Store, TakenInv
  <2>3. UNCHANGED cache \/ cache' = [cache EXCEPT ![call[c].op] = e]
    BY <1>4 DEF Store
  <2> HIDE DEF e, EntryOK
  <2>4. \A o \in Ops : cache'[o] = cache[o] \/ (o = call[c].op /\ cache'[o] = e)
    BY <1>0, <2>1, <2>3 DEF GatewayTypeOK
  <2> QED
    BY <1>2, <1>3, <2>2, <2>4
<1> HIDE DEF EntryOK
<1>5. ASSUME NEW c \in Calls, Lookup(c) PROVE CacheInv'
  <2>1. UNCHANGED cache \/ cache' = [cache EXCEPT ![call[c].op] = None]
    BY <1>5 DEF Lookup
  <2>2. \A o \in Ops : cache'[o] = cache[o] \/ cache'[o] = None
    BY <1>0, <2>1 DEF GatewayTypeOK
  <2> QED
    BY <1>2, <1>3, <2>2
<1>6. ASSUME UNCHANGED cache PROVE CacheInv'
  BY <1>2, <1>3, <1>6
<1>7. ASSUME NEW c \in Calls,
             DispatchUnavailable(c) \/ Timeout(c) \/ Present(c) \/ Claim(c) \/ Write(c) \/ Take(c)
             \/ EndpointTimeout(c) \/ WaitClosed(c) \/ CancelCheck(c) \/ CancelWrite(c)
      PROVE  CacheInv'
  BY <1>6, <1>7 DEF DispatchUnavailable, Timeout, Present, Claim, Write, Take, EndpointTimeout,
     WaitClosed, CancelCheck, CancelWrite
<1>8. ASSUME NEW c \in Calls, NEW op \in Ops, NEW p \in Payloads, NEW t \in 0..MaxTime,
             Dispatch(c, op, p, t)
      PROVE  CacheInv'
  BY <1>6, <1>8 DEF Dispatch
<1>9. ASSUME NEW k \in Conns, Deliver(k) \/ ReadFail(k) PROVE CacheInv'
  BY <1>6, <1>9 DEF Deliver, ReadFail
<1> QED
  BY <1>4, <1>5, <1>7, <1>8, <1>9 DEF GatewayMove, ThreadStep

LEMMA MoveReturnedInv == DispatchTypes /\ CorrInv /\ GatewayMove => ReturnedInv'
<1> SUFFICES ASSUME DispatchTypes, CorrInv, GatewayMove PROVE ReturnedInv'
  OBVIOUS
<1>0. GatewayTypeOK /\ DispatchStruct /\ CacheInv /\ TakenInv /\ ReturnedInv
  BY DEF DispatchTypes, CorrInv
<1>1. ASSUME \A c \in Calls :
               (co'[c] = "awaiting" /\ th'[c] = "done" /\ res'[c].kind = "response")
               => Good(c, res'[c].resp, res'[c].owner)
      PROVE  ReturnedInv'
  BY <1>1, GoodStable DEF ReturnedInv
<1>2. ASSUME NEW c \in Calls,
             \A d \in Calls \ {c} : co'[d] = co[d] /\ th'[d] = th[d] /\ res'[d] = res[d],
             (co'[c] = "awaiting" /\ th'[c] = "done" /\ res'[c].kind = "response")
             => Good(c, res'[c].resp, res'[c].owner)
      PROVE  ReturnedInv'
  BY <1>0, <1>1, <1>2 DEF ReturnedInv
<1>3. ASSUME NEW c \in Calls, NEW r, Finish(c, r), UNCHANGED co,
             co[c] = "awaiting" /\ r.kind = "response" => Good(c, r.resp, r.owner)
      PROVE  ReturnedInv'
  <2>1. \A d \in Calls \ {c} : co'[d] = co[d] /\ th'[d] = th[d] /\ res'[d] = res[d]
    BY <1>0, <1>3 DEF Finish, GatewayTypeOK
  <2>2. co[c] = "awaiting" => res'[c] = r
    BY <1>0, <1>3 DEF Finish, DispatchStruct, GatewayTypeOK
  <2> QED
    BY <1>2, <1>3, <2>1, <2>2
<1>4. ASSUME NEW c \in Calls, NEW kind \in Failures, Finish(c, Raised(kind)), UNCHANGED co
      PROVE  ReturnedInv'
  <2>1. Raised(kind).kind # "response"
    BY <1>4 DEF Raised, Failures
  <2> QED
    BY <1>3, <1>4, <2>1
<1>5. ASSUME NEW c \in Calls, th'[c] # "done", UNCHANGED co,
             \A d \in Calls \ {c} : th'[d] = th[d] /\ res'[d] = res[d]
      PROVE  ReturnedInv'
  BY <1>2, <1>5
<1>6. ASSUME NEW c \in Calls, Lookup(c) PROVE ReturnedInv'
  <2> DEFINE o == call[c].op
             r == [kind |-> "response", resp |-> cache[o].result,
                   owner |-> cache[o].owner, replayed |-> TRUE]
  <2>0. th[c] # "none" /\ o \in Ops /\ UNCHANGED co
    BY <1>0, <1>6 DEF Lookup, DispatchStruct, Call
  <2>1. CASE Live(c) /\ cache[o].digest = call[c].payload /\ Finish(c, r)
    <3>1. r.resp = cache[o].result /\ r.owner = cache[o].owner
      OBVIOUS
    <3>2. Good(c, r.resp, r.owner)
      BY <1>0, <2>0, <2>1, <3>1 DEF Live, CacheInv, Good
    <3> QED
      BY <1>3, <2>0, <2>1, <3>2
  <2>2. CASE Finish(c, Raised("conflict"))
    BY <1>4, <2>0, <2>2 DEF Failures
  <2>3. CASE th' = [th EXCEPT ![c] = "run"] /\ UNCHANGED res
    <3>1. th'[c] = "run" /\ \A d \in Calls \ {c} : th'[d] = th[d]
      BY <1>0, <2>3 DEF GatewayTypeOK
    <3> QED
      BY <1>5, <2>0, <2>3, <3>1
  <2> QED
    BY <1>6, <2>1, <2>2, <2>3 DEF Lookup
<1>7. ASSUME NEW c \in Calls, Claim(c) PROVE ReturnedInv'
  <2>1. CASE Finish(c, Raised("abandoned")) \/ Finish(c, Raised("disconnected"))
    BY <1>4, <1>7, <2>1 DEF Claim, Failures
  <2>2. CASE th' = [th EXCEPT ![c] = "claimed"] /\ UNCHANGED res
    <3>1. th'[c] = "claimed" /\ \A d \in Calls \ {c} : th'[d] = th[d]
      BY <1>0, <2>2 DEF GatewayTypeOK
    <3> QED
      BY <1>5, <1>7, <2>2, <3>1 DEF Claim
  <2> QED
    BY <1>7, <2>1, <2>2 DEF Claim
<1>8. ASSUME NEW c \in Calls, Write(c) PROVE ReturnedInv'
  <2>1. CASE \E kind \in {"abandoned", "disconnected", "oserror"} : Finish(c, Raised(kind))
    BY <1>4, <1>8, <2>1 DEF Write, Failures
  <2>2. CASE th' = [th EXCEPT ![c] = "waiting"] /\ UNCHANGED res
    <3>1. th'[c] = "waiting" /\ \A d \in Calls \ {c} : th'[d] = th[d]
      BY <1>0, <2>2 DEF GatewayTypeOK
    <3> QED
      BY <1>5, <1>8, <2>2, <3>1 DEF Write
  <2> QED
    BY <1>8, <2>1, <2>2 DEF Write
<1>9. ASSUME NEW c \in Calls, Take(c) PROVE ReturnedInv'
  <2>1. th'[c] = "got" /\ \A d \in Calls \ {c} : th'[d] = th[d] /\ res'[d] = res[d]
    BY <1>0, <1>9 DEF Take, GatewayTypeOK
  <2> QED
    BY <1>5, <1>9, <2>1 DEF Take
<1>10. ASSUME NEW c \in Calls, EndpointTimeout(c) \/ WaitClosed(c) PROVE ReturnedInv'
  <2>1. UNCHANGED co /\ \E kind \in {"timeout", "disconnected"} : Finish(c, Raised(kind))
    BY <1>10 DEF EndpointTimeout, WaitClosed
  <2> QED
    BY <1>4, <2>1 DEF Failures
<1>11. ASSUME NEW c \in Calls, Store(c) PROVE ReturnedInv'
  <2> DEFINE r == [kind |-> "response", resp |-> res[c].resp, owner |-> c, replayed |-> FALSE]
  <2>0. th[c] = "got" /\ UNCHANGED co
    BY <1>11 DEF Store
  <2>1. CASE Finish(c, Raised("abandoned"))
    BY <1>4, <2>0, <2>1 DEF Failures
  <2>2. CASE Finish(c, r)
    <3>1. r.resp = res[c].resp /\ r.owner = c
      OBVIOUS
    <3>2. Good(c, r.resp, r.owner)
      BY <1>0, <2>0, <3>1 DEF TakenInv, Good
    <3> QED
      BY <1>3, <2>0, <2>2, <3>2
  <2> QED
    BY <1>11, <2>1, <2>2 DEF Store
<1>12. ASSUME NEW c \in Calls, Present(c) \/ Timeout(c) \/ DispatchUnavailable(c)
       PROVE  ReturnedInv'
  <2>1. /\ co'[c] = "done" /\ UNCHANGED th
        /\ \A d \in Calls \ {c} : co'[d] = co[d] /\ res'[d] = res[d]
    BY <1>0, <1>12 DEF Present, Timeout, DispatchUnavailable, Abandon, Answer, GatewayTypeOK
  <2> QED
    BY <1>2, <2>1
<1>13. ASSUME NEW c \in Calls, NEW op \in Ops, NEW p \in Payloads, NEW t \in 0..MaxTime,
              Dispatch(c, op, p, t)
       PROVE  ReturnedInv'
  <2>1. th'[c] = "lock" /\ \A d \in Calls \ {c} : co'[d] = co[d] /\ th'[d] = th[d] /\ res'[d] = res[d]
    BY <1>0, <1>13 DEF Dispatch, GatewayTypeOK
  <2> QED
    BY <1>2, <2>1
<1>14. ASSUME UNCHANGED <<co, th, res>> PROVE ReturnedInv'
  BY <1>0, <1>1, <1>14 DEF ReturnedInv
<1>15. ASSUME NEW c \in Calls, CancelCheck(c) \/ CancelWrite(c) PROVE ReturnedInv'
  BY <1>14, <1>15 DEF CancelCheck, CancelWrite
<1>16. ASSUME NEW k \in Conns, Deliver(k) \/ ReadFail(k) PROVE ReturnedInv'
  BY <1>14, <1>16 DEF Deliver, ReadFail
<1> QED
  BY <1>6, <1>7, <1>8, <1>9, <1>10, <1>11, <1>12, <1>13, <1>15, <1>16 DEF GatewayMove, ThreadStep

LEMMA MoveAnsweredInv == DispatchTypes /\ CorrInv /\ GatewayMove => AnsweredInv'
<1> SUFFICES ASSUME DispatchTypes, CorrInv, GatewayMove PROVE AnsweredInv'
  OBVIOUS
<1>0. GatewayTypeOK /\ DispatchStruct /\ ReturnedInv /\ AnsweredInv
  BY DEF DispatchTypes, CorrInv
<1>1. ASSUME \A c \in Calls : (outcome'[c] # None /\ outcome'[c].code = "ok")
               => Good(c, outcome'[c].resp, outcome'[c].owner)
      PROVE  AnsweredInv'
  BY <1>1, GoodStable DEF AnsweredInv
<1>2. ASSUME UNCHANGED outcome PROVE AnsweredInv'
  BY <1>0, <1>1, <1>2 DEF AnsweredInv
<1>3. ASSUME NEW c \in Calls, NEW o, outcome' = [outcome EXCEPT ![c] = o],
             o.code = "ok" => Good(c, o.resp, o.owner)
      PROVE  AnsweredInv'
  <2>1. outcome'[c] = o /\ \A d \in Calls \ {c} : outcome'[d] = outcome[d]
    BY <1>0, <1>3 DEF GatewayTypeOK
  <2> QED
    BY <1>0, <1>1, <1>3, <2>1 DEF AnsweredInv
<1>4. ASSUME NEW c \in Calls, NEW code \in OutcomeCodes \ {"ok"}, Answer(c, ErrorOutcome(code))
      PROVE  AnsweredInv'
  <2>1. ErrorOutcome(code).code # "ok"
    BY <1>4 DEF ErrorOutcome
  <2> QED
    BY <1>3, <1>4, <2>1 DEF Answer
<1>5. ASSUME NEW c \in Calls, DispatchUnavailable(c) \/ Timeout(c) PROVE AnsweredInv'
  BY <1>4, <1>5 DEF DispatchUnavailable, Timeout, Abandon, OutcomeCodes
<1>6. ASSUME NEW c \in Calls, Present(c) PROVE AnsweredInv'
  <2> DEFINE o == [code |-> "ok", resp |-> res[c].resp, owner |-> res[c].owner,
                   replayed |-> res[c].replayed]
  <2>1. CASE res[c].kind = "response" /\ Answer(c, o)
    <3>1. Good(c, res[c].resp, res[c].owner)
      BY <1>0, <1>6, <2>1 DEF Present, ReturnedInv
    <3>2. o.resp = res[c].resp /\ o.owner = res[c].owner
      OBVIOUS
    <3> QED
      BY <1>3, <2>1, <3>1, <3>2 DEF Answer
  <2>2. CASE \E code \in OutcomeCodes \ {"ok"} : Answer(c, ErrorOutcome(code))
    BY <1>4, <2>2
  <2> QED
    BY <1>6, <2>1, <2>2 DEF Present, Abandon, OutcomeCodes
<1>7. ASSUME NEW c \in Calls,
             Lookup(c) \/ Claim(c) \/ Write(c) \/ Take(c) \/ EndpointTimeout(c) \/ WaitClosed(c)
             \/ Store(c) \/ CancelCheck(c) \/ CancelWrite(c)
      PROVE  AnsweredInv'
  BY <1>2, <1>7 DEF Lookup, Claim, Write, Take, EndpointTimeout, WaitClosed, Store, CancelCheck,
     CancelWrite
<1>8. ASSUME NEW c \in Calls, NEW op \in Ops, NEW p \in Payloads, NEW t \in 0..MaxTime,
             Dispatch(c, op, p, t)
      PROVE  AnsweredInv'
  BY <1>2, <1>8 DEF Dispatch
<1>9. ASSUME NEW k \in Conns, Deliver(k) \/ ReadFail(k) PROVE AnsweredInv'
  BY <1>2, <1>9 DEF Deliver, ReadFail
<1> QED
  BY <1>5, <1>6, <1>7, <1>8, <1>9 DEF GatewayMove, ThreadStep

LEMMA MoveCorr == DispatchTypes /\ CorrInv /\ GatewayMove => CorrInv'
  BY MoveExclInv, MoveToGatewayInv, MoveSlotRespInv, MoveSlotInv, MoveTakenInv, MoveCacheInv,
     MoveReturnedInv, MoveAnsweredInv DEF CorrInv

LEMMA InitCorrInv == ChannelInit /\ GatewayInit => CorrInv
<1> SUFFICES ASSUME ChannelInit, GatewayInit PROVE CorrInv
  OBVIOUS
<1>1. ExclInv /\ SlotInv /\ TakenInv /\ ReturnedInv
  BY DEF GatewayInit, ExclInv, SlotInv, TakenInv, ReturnedInv, InExchange
<1>2. CacheInv /\ AnsweredInv /\ SlotRespInv
  BY DEF GatewayInit, CacheInv, AnsweredInv, SlotRespInv
<1>3. ToGatewayInv
  BY DEF ChannelInit, ToGatewayInv
<1> QED
  BY <1>1, <1>2, <1>3 DEF CorrInv

(* A step of the other end may only add responses of dispatched calls.     *)
LEMMA PeerCorr ==
  ASSUME CorrInv, ToGatewayInv',
         UNCHANGED <<call, co, outcome, th, res, lock, cache, active, response>>
  PROVE  CorrInv'
<1>0. /\ ExclInv /\ SlotRespInv /\ SlotInv
      /\ TakenInv /\ CacheInv /\ ReturnedInv /\ AnsweredInv
  BY DEF CorrInv
<1>1. \A m : RespOK(m)' <=> RespOK(m)
  BY DEF RespOK
<1>2. ExclInv' /\ SlotInv'
  BY <1>0 DEF ExclInv, SlotInv
<1>3. SlotRespInv' /\ TakenInv' /\ CacheInv'
  BY <1>0, <1>1 DEF SlotRespInv, TakenInv, CacheInv
<1>4. ReturnedInv' /\ AnsweredInv'
  BY <1>0, <1>1 DEF ReturnedInv, AnsweredInv, Good
<1> QED
  BY <1>2, <1>3, <1>4 DEF CorrInv
-----------------------------------------------------------------------------
(* Every response in the pipe or anywhere in the dispatcher, on its way to *)
(* a caller or to the cache, belongs to S.                                 *)
HeldIn(S) ==
    /\ \A k \in Conns : \A i \in 1..Len(toGateway[k]) : toGateway[k][i] \in S
    /\ \A k \in Conns : response[k] # None => response[k] \in S
    /\ \A c \in Calls : th[c] = "got" => res[c].resp \in S
    /\ \A o \in Ops : cache[o] # None => cache[o].result \in S
    /\ \A c \in Calls :
         (co[c] = "awaiting" /\ th[c] = "done" /\ res[c].kind = "response") => res[c].resp \in S
    /\ \A c \in Calls : (outcome[c] # None /\ outcome[c].code = "ok") => outcome[c].resp \in S

(* The frames the Gateway has left to read were there before.              *)
LEMMA MoveFrames ==
  ASSUME DispatchTypes, GatewayMove
  PROVE  \A k \in Conns : \A i \in 1..Len(toGateway'[k]) :
           \E j \in 1..Len(toGateway[k]) : toGateway'[k][i] = toGateway[k][j]
<1> DEFINE Kept == \A k \in Conns : \A i \in 1..Len(toGateway'[k]) :
                     \E j \in 1..Len(toGateway[k]) : toGateway'[k][i] = toGateway[k][j]
<1>0. ChannelTypeOK /\ DispatchStruct
  BY DEF DispatchTypes
<1>1. ASSUME UNCHANGED toGateway PROVE Kept
  BY <1>1
<1>2. ASSUME NEW k \in Conns, toGateway' = [toGateway EXCEPT ![k] = <<>>] PROVE Kept
  <2>1. toGateway'[k] = <<>> /\ \A j \in Conns \ {k} : toGateway'[j] = toGateway[j]
    BY <1>0, <1>2 DEF ChannelTypeOK
  <2> QED
    BY <2>1
<1>3. ASSUME NEW k \in Conns, toGateway[k] # <<>>, toGateway' = [toGateway EXCEPT ![k] = Tail(@)]
      PROVE  Kept
  <2>1. /\ toGateway'[k] = Tail(toGateway[k]) /\ toGateway[k] \in Seq(Response)
        /\ \A j \in Conns \ {k} : toGateway'[j] = toGateway[j]
    BY <1>0, <1>3 DEF ChannelTypeOK
  <2>2. \A i \in 1..Len(Tail(toGateway[k])) :
          i + 1 \in 1..Len(toGateway[k]) /\ Tail(toGateway[k])[i] = toGateway[k][i + 1]
    <3> HIDE DEF Kept
    <3> QED
      BY <1>3, <2>1, TailElements
  <2> QED
    BY <2>1, <2>2
<1> HIDE DEF Kept
<1>4. ASSUME NEW c \in Calls, Write(c) \/ CancelWrite(c) PROVE Kept
  <2>1. call[c].conn \in Conns
    BY <1>0, <1>4 DEF Write, CancelWrite, DispatchStruct, Call
  <2>2. UNCHANGED toGateway \/ toGateway' = [toGateway EXCEPT ![call[c].conn] = <<>>]
    BY <1>4 DEF Write, CancelWrite, CloseGatewayEnd, channelVars
  <2> QED
    BY <1>1, <1>2, <2>1, <2>2
<1>5. ASSUME NEW k \in Conns, Deliver(k) \/ ReadFail(k) PROVE Kept
  <2>1. \/ toGateway[k] # <<>> /\ toGateway' = [toGateway EXCEPT ![k] = Tail(@)]
        \/ toGateway' = [toGateway EXCEPT ![k] = <<>>]
    BY <1>5 DEF Deliver, ReadFail, TearDown, CloseGatewayEnd
  <2> QED
    BY <1>2, <1>3, <2>1
<1>6. ASSUME NEW c \in Calls,
             DispatchUnavailable(c) \/ Timeout(c) \/ Present(c) \/ Lookup(c) \/ Claim(c) \/ Take(c)
             \/ EndpointTimeout(c) \/ WaitClosed(c) \/ Store(c) \/ CancelCheck(c)
      PROVE  Kept
  BY <1>1, <1>6 DEF DispatchUnavailable, Timeout, Present, Lookup, Claim, Take, EndpointTimeout,
     WaitClosed, Store, CancelCheck, channelVars
<1>7. ASSUME NEW c \in Calls, NEW op \in Ops, NEW p \in Payloads, NEW t \in 0..MaxTime,
             Dispatch(c, op, p, t)
      PROVE  Kept
  BY <1>1, <1>7 DEF Dispatch, channelVars
<1>8. Kept
  BY <1>4, <1>5, <1>6, <1>7 DEF GatewayMove, ThreadStep
<1> QED
  BY <1>8 DEF Kept

(* The Gateway invents no response: what it holds after a step it held or  *)
(* had in its pipe before.                                                 *)
LEMMA MoveHeld ==
  ASSUME DispatchTypes, NEW S, HeldIn(S), GatewayMove
  PROVE  HeldIn(S)'
<1> DEFINE Queued == \A k \in Conns : \A i \in 1..Len(toGateway[k]) : toGateway[k][i] \in S
           Slots == \A k \in Conns : response[k] # None => response[k] \in S
           Taken == \A c \in Calls : th[c] = "got" => res[c].resp \in S
           Cached == \A o \in Ops : cache[o] # None => cache[o].result \in S
           Back(c) == (co[c] = "awaiting" /\ th[c] = "done" /\ res[c].kind = "response")
                      => res[c].resp \in S
           Returned == \A c \in Calls : Back(c)
           Told == \A c \in Calls :
                     (outcome[c] # None /\ outcome[c].code = "ok") => outcome[c].resp \in S
<1>0. ChannelTypeOK /\ GatewayTypeOK /\ DispatchStruct
  BY DEF DispatchTypes
<1>1. Queued /\ Slots /\ Taken /\ Cached /\ Returned /\ Told
  BY DEF HeldIn
<1>2. Queued'
  BY <1>1, MoveFrames
<1>3. ASSUME UNCHANGED <<co, th, res, cache, outcome, response>>
      PROVE  (Slots /\ Taken /\ Cached /\ Returned /\ Told)'
  BY <1>1, <1>3
<1>4. ASSUME NEW c \in Calls, DispatchUnavailable(c) \/ Timeout(c) \/ Present(c)
      PROVE  (Slots /\ Taken /\ Cached /\ Returned /\ Told)'
  <2>1. /\ UNCHANGED <<th, cache, response>> /\ co'[c] = "done"
        /\ \A d \in Calls \ {c} : co'[d] = co[d] /\ res'[d] = res[d] /\ outcome'[d] = outcome[d]
        /\ res'[c] = res[c] \/ th[c] = "done"
    BY <1>0, <1>4 DEF DispatchUnavailable, Timeout, Present, Abandon, Answer, GatewayTypeOK
  <2>2. outcome'[c].code = "ok" => outcome'[c].resp \in S
    <3>1. CASE outcome'[c].code # "ok"
      BY <3>1
    <3>2. CASE Present(c) /\ outcome'[c].code = "ok"
      <4>1. \/ /\ res[c].kind = "response"
               /\ outcome'[c] = [code |-> "ok", resp |-> res[c].resp, owner |-> res[c].owner,
                                 replayed |-> res[c].replayed]
            \/ \E code \in OutcomeCodes \ {"ok"} : outcome'[c] = ErrorOutcome(code)
        BY <1>0, <3>2 DEF Present, Abandon, Answer, GatewayTypeOK, OutcomeCodes
      <4>a. \A code \in OutcomeCodes : ErrorOutcome(code).code = code
        BY DEF ErrorOutcome
      <4>2. res[c].kind = "response" /\ outcome'[c].resp = res[c].resp
        BY <3>2, <4>1, <4>a
      <4>3. co[c] = "awaiting" /\ th[c] = "done"
        BY <3>2 DEF Present
      <4> QED
        BY <1>1, <4>2, <4>3
    <3>3. CASE DispatchUnavailable(c) \/ Timeout(c)
      <4>1. \E code \in OutcomeCodes \ {"ok"} : outcome'[c] = ErrorOutcome(code)
        BY <1>0, <3>3 DEF DispatchUnavailable, Timeout, Abandon, Answer, GatewayTypeOK, OutcomeCodes
      <4> QED
        BY <4>1 DEF ErrorOutcome
    <3> QED
      BY <1>4, <3>1, <3>2, <3>3
  <2> QED
    BY <1>1, <2>1, <2>2
<1>5. ASSUME NEW c \in Calls, NEW r, Finish(c, r), UNCHANGED <<co, outcome>>,
             r.kind = "response" => r.resp \in S
      PROVE  Taken' /\ Returned' /\ Told'
  <2>1. /\ th'[c] = "done" /\ (~abandoned[c] => res'[c] = r)
        /\ \A d \in Calls \ {c} : th'[d] = th[d] /\ res'[d] = res[d]
    BY <1>0, <1>5 DEF Finish, GatewayTypeOK
  <2>2. co[c] = "awaiting" => ~abandoned[c]
    BY <1>0 DEF DispatchStruct
  <2> QED
    BY <1>1, <1>5, <2>1, <2>2
<1>6. ASSUME NEW c \in Calls, NEW kind \in Failures, Finish(c, Raised(kind)),
             UNCHANGED <<co, outcome>>
      PROVE  Taken' /\ Returned' /\ Told'
  <2>1. Raised(kind).kind # "response"
    BY <1>6 DEF Raised, Failures
  <2> HIDE DEF Taken, Returned, Told
  <2> QED
    BY <1>5, <1>6, <2>1
<1>7. ASSUME NEW c \in Calls, NEW s \in {"lock", "run", "claimed", "waiting"},
             th' = [th EXCEPT ![c] = s], UNCHANGED <<res, outcome>>,
             \A d \in Calls \ {c} : co'[d] = co[d]
      PROVE  Taken' /\ Returned' /\ Told'
  <2>1. th'[c] = s /\ \A d \in Calls \ {c} : th'[d] = th[d]
    BY <1>0, <1>7 DEF GatewayTypeOK
  <2> QED
    BY <1>1, <1>7, <2>1
<1>8. ASSUME UNCHANGED response PROVE Slots'
  BY <1>1, <1>8
<1>9. ASSUME UNCHANGED cache PROVE Cached'
  BY <1>1, <1>9
<1>10. ASSUME NEW k \in Conns, response' = [response EXCEPT ![k] = None] PROVE Slots'
  BY <1>0, <1>1, <1>10 DEF GatewayTypeOK
<1>11. ASSUME NEW c \in Calls, Lookup(c) PROVE (Slots /\ Taken /\ Cached /\ Returned /\ Told)'
  <2> DEFINE o == call[c].op
             r == [kind |-> "response", resp |-> cache[o].result,
                   owner |-> cache[o].owner, replayed |-> TRUE]
  <2>0. o \in Ops /\ UNCHANGED <<co, outcome, response>>
    BY <1>0, <1>11 DEF Lookup, DispatchStruct, Call
  <2>1. Cached'
    <3>1. UNCHANGED cache \/ cache' = [cache EXCEPT ![o] = None]
      BY <1>11 DEF Lookup
    <3> QED
      BY <1>0, <1>1, <2>0, <3>1 DEF GatewayTypeOK
  <2>2. CASE Live(c) /\ Finish(c, r)
    <3>1. r.resp \in S
      BY <1>1, <2>0, <2>2 DEF Live
    <3> HIDE DEF r, Taken, Returned, Told, Slots, Cached
    <3> QED
      BY <1>5, <1>8, <2>0, <2>1, <2>2, <3>1
  <2> HIDE DEF Taken, Returned, Told, Slots, Cached, r
  <2>3. CASE Finish(c, Raised("conflict"))
    BY <1>6, <1>8, <2>0, <2>1, <2>3 DEF Failures
  <2>4. CASE th' = [th EXCEPT ![c] = "run"] /\ UNCHANGED res
    BY <1>7, <1>8, <2>0, <2>1, <2>4
  <2> QED
    BY <1>11, <2>2, <2>3, <2>4 DEF Lookup, r
<1>12. ASSUME NEW c \in Calls, Take(c) PROVE (Slots /\ Taken /\ Cached /\ Returned /\ Told)'
  <2>1. /\ call[c].conn \in Conns /\ response[call[c].conn] # None
        /\ response' = [response EXCEPT ![call[c].conn] = None] /\ UNCHANGED <<co, outcome, cache>>
    BY <1>0, <1>12 DEF Take, DispatchStruct, Call
  <2>2. /\ th'[c] = "got" /\ res'[c].resp = response[call[c].conn]
        /\ \A d \in Calls \ {c} : th'[d] = th[d] /\ res'[d] = res[d]
    BY <1>0, <1>12 DEF Take, GatewayTypeOK
  <2>3. res'[c].resp \in S
    BY <1>1, <2>1, <2>2
  <2>4. Taken' /\ Returned' /\ Told' /\ Cached'
    BY <1>1, <2>1, <2>2, <2>3
  <2> QED
    BY <1>10, <2>1, <2>4
<1>13. ASSUME NEW c \in Calls, Store(c) PROVE (Slots /\ Taken /\ Cached /\ Returned /\ Told)'
  <2> DEFINE r == [kind |-> "response", resp |-> res[c].resp, owner |-> c, replayed |-> FALSE]
             e == [digest |-> call[c].payload, result |-> res[c].resp,
                   expires |-> call[c].at + TTL, owner |-> c]
  <2>0. call[c].op \in Ops /\ res[c].resp \in S /\ UNCHANGED <<co, outcome, response>>
    BY <1>0, <1>1, <1>13 DEF Store, DispatchStruct, Call
  <2>1. r.resp \in S /\ e.result \in S
    BY <2>0
  <2>2. \/ Finish(c, Raised("abandoned")) /\ UNCHANGED cache
        \/ Finish(c, r) /\ cache' = [cache EXCEPT ![call[c].op] = e]
    BY <1>13 DEF Store
  <2> HIDE DEF r, e
  <2>3. Cached'
    BY <1>0, <1>1, <2>0, <2>1, <2>2 DEF GatewayTypeOK
  <2> HIDE DEF Taken, Returned, Told, Slots, Cached
  <2> QED
    BY <1>5, <1>6, <1>8, <2>0, <2>1, <2>2, <2>3 DEF Failures
<1>14. ASSUME NEW k \in Conns, Deliver(k) PROVE (Slots /\ Taken /\ Cached /\ Returned /\ Told)'
  <2> DEFINE m == Head(toGateway[k])
  <2>1. toGateway[k] # <<>> /\ toGateway[k] \in Seq(Response)
    BY <1>0, <1>14 DEF Deliver, ChannelTypeOK
  <2>2. m = toGateway[k][1] /\ 1 \in 1..Len(toGateway[k])
    BY <2>1
  <2>3. m \in S
    BY <1>1, <2>2
  <2>4. /\ UNCHANGED response \/ response' = [response EXCEPT ![k] = m]
        /\ UNCHANGED <<co, th, res, cache, outcome>>
    BY <1>14 DEF Deliver
  <2> HIDE DEF m
  <2>5. Slots'
    BY <1>0, <1>1, <2>3, <2>4 DEF GatewayTypeOK
  <2> QED
    BY <1>1, <2>4, <2>5
<1> HIDE DEF Queued, Slots, Taken, Cached, Returned, Told
<1>15. ASSUME NEW c \in Calls, Claim(c) PROVE (Slots /\ Taken /\ Cached /\ Returned /\ Told)'
  <2>1. /\ call[c].conn \in Conns /\ UNCHANGED <<co, outcome, cache>>
        /\ UNCHANGED response \/ response' = [response EXCEPT ![call[c].conn] = None]
        /\ \/ \E kind \in {"abandoned", "disconnected"} : Finish(c, Raised(kind))
           \/ th' = [th EXCEPT ![c] = "claimed"] /\ UNCHANGED res
    BY <1>0, <1>15 DEF Claim, DispatchStruct, Call
  <2> QED
    BY <1>6, <1>7, <1>8, <1>9, <1>10, <2>1 DEF Failures
<1>16. ASSUME NEW c \in Calls, Write(c) PROVE (Slots /\ Taken /\ Cached /\ Returned /\ Told)'
  <2>1. /\ UNCHANGED <<co, outcome, cache, response>>
        /\ \/ \E kind \in {"abandoned", "disconnected", "oserror"} : Finish(c, Raised(kind))
           \/ th' = [th EXCEPT ![c] = "waiting"] /\ UNCHANGED res
    BY <1>16 DEF Write
  <2> QED
    BY <1>6, <1>7, <1>8, <1>9, <2>1 DEF Failures
<1>17. ASSUME NEW c \in Calls, EndpointTimeout(c) \/ WaitClosed(c)
       PROVE  (Slots /\ Taken /\ Cached /\ Returned /\ Told)'
  <2>1. /\ UNCHANGED <<co, outcome, cache, response>>
        /\ \E kind \in {"timeout", "disconnected"} : Finish(c, Raised(kind))
    BY <1>17 DEF EndpointTimeout, WaitClosed
  <2> QED
    BY <1>6, <1>8, <1>9, <2>1 DEF Failures
<1>18. ASSUME NEW c \in Calls, NEW op \in Ops, NEW p \in Payloads, NEW t \in 0..MaxTime,
              Dispatch(c, op, p, t)
       PROVE  (Slots /\ Taken /\ Cached /\ Returned /\ Told)'
  <2>1. /\ th' = [th EXCEPT ![c] = "lock"] /\ UNCHANGED <<res, outcome, cache, response>>
        /\ \A d \in Calls \ {c} : co'[d] = co[d]
    BY <1>0, <1>18 DEF Dispatch, GatewayTypeOK
  <2> QED
    BY <1>7, <1>8, <1>9, <2>1
<1>19. ASSUME NEW c \in Calls, CancelCheck(c) \/ CancelWrite(c)
       PROVE  (Slots /\ Taken /\ Cached /\ Returned /\ Told)'
  BY <1>3, <1>19 DEF CancelCheck, CancelWrite
<1>20. ASSUME NEW k \in Conns, ReadFail(k) PROVE (Slots /\ Taken /\ Cached /\ Returned /\ Told)'
  BY <1>3, <1>20 DEF ReadFail
<1>21. (Slots /\ Taken /\ Cached /\ Returned /\ Told)'
  BY <1>4, <1>11, <1>12, <1>13, <1>14, <1>15, <1>16, <1>17, <1>18, <1>19, <1>20
  DEF GatewayMove, ThreadStep
<1> QED
  BY <1>2, <1>21 DEF HeldIn, Queued, Slots, Taken, Cached, Returned, Told

(* What a larger set allows, and what a step of the other end leaves.      *)
LEMMA PeerHeld ==
  ASSUME NEW S, NEW T, HeldIn(S), S \subseteq T,
         \A k \in Conns : \A i \in 1..Len(toGateway'[k]) : toGateway'[k][i] \in T,
         UNCHANGED <<co, th, res, cache, outcome, response>>
  PROVE  HeldIn(T)'
  BY DEF HeldIn
=============================================================================
