-------------------------- MODULE GatewayDispatch --------------------------
(***************************************************************************)
(* The Gateway's side of a dispatched Worker operation:                    *)
(*   - the coroutine of GatewayDispatcher.dispatch/_send, one per call;    *)
(*   - the thread it runs _exchange_idempotently on, which takes the       *)
(*     IdempotencyStore lock, then runs ExchangeAttempt.run over           *)
(*     _GatewayConnection.exchange_with_abandon;                           *)
(*   - the thread that writes the CancelRequest of an abandoned call;      *)
(*   - the GatewayWorkerWatcher loop that reads the pipe.                  *)
(* Authorization precedes all of this and is the subject of                *)
(* ApprovalManager; a timeout may fire at any time it is armed.            *)
(***************************************************************************)
EXTENDS ExchangeChannel

VARIABLES
    call,       \* [Calls -> the DispatchCall and the client it is routed to]
    co,         \* [Calls -> state of the dispatch coroutine]
    outcome,    \* [Calls -> what the coroutine answered]
    abandoned,  \* [Calls -> ExchangeAttempt.abandoned is set]
    th,         \* [Calls -> state of the exchange thread]
    res,        \* [Calls -> what the exchange thread returned or raised]
    cx,         \* [Calls -> state of the cancel thread]
    lock,       \* holder of IdempotencyStore._lock
    cache,      \* IdempotencyStore._entries
    current,    \* connection held by the WorkerRegistry
    opened,     \* number of connections the watcher has made
    active,     \* [Conns -> _GatewayConnection._active_id]
    response    \* [Conns -> _GatewayConnection._response]

gatewayVars == <<call, co, outcome, abandoned, th, res, cx, lock, cache,
                 current, opened, active, response>>

Call  == [op : Ops, payload : Payloads, at : 0..MaxTime, conn : Conns]
Entry == [digest : Payloads, result : Response, expires : Nat, owner : Calls]

ThreadStates == {"none", "lock", "run", "claimed", "waiting", "got", "done"}
(* The thread is inside the callback of IdempotencyStore.execute.          *)
InExchange == {"run", "claimed", "waiting", "got"}
(* The exceptions _exchange_idempotently lets out.                         *)
Failures == {"conflict", "timeout", "disconnected", "abandoned", "oserror"}
(* What the thread holds: the response it took from the connection, then   *)
(* what it returned ("response": the bytes of the call owner) or raised.   *)
Result == [kind : {"taken", "response"} \cup Failures, resp : Response \cup {None},
           owner : Calls \cup {None}, replayed : BOOLEAN]

OutcomeCodes == {"ok", "abandoned", "approval_required", "worker_unavailable",
                 "peer_error", "raised"}
Outcome == [code : OutcomeCodes, resp : Response \cup {None},
            owner : Calls \cup {None}, replayed : BOOLEAN]

Raised(kind) == [kind |-> kind, resp |-> None, owner |-> None, replayed |-> FALSE]
ErrorOutcome(code) ==
    [code |-> code, resp |-> None, owner |-> None, replayed |-> FALSE]

GatewayTypeOK ==
    /\ call \in [Calls -> Call \cup {None}]
    /\ co \in [Calls -> {"idle", "awaiting", "done"}]
    /\ outcome \in [Calls -> Outcome \cup {None}]
    /\ abandoned \in [Calls -> BOOLEAN]
    /\ th \in [Calls -> ThreadStates]
    /\ res \in [Calls -> Result \cup {None}]
    /\ cx \in [Calls -> {"none", "check", "write", "done"}]
    /\ lock \in Calls \cup {None}
    /\ cache \in [Ops -> Entry \cup {None}]
    /\ current \in Conns \cup {None}
    /\ opened \in 0..MaxConns
    /\ active \in [Conns -> Ops \cup {None}]
    /\ response \in [Conns -> Response \cup {None}]

GatewayInit ==
    /\ call = [c \in Calls |-> None]
    /\ co = [c \in Calls |-> "idle"]
    /\ outcome = [c \in Calls |-> None]
    /\ abandoned = [c \in Calls |-> FALSE]
    /\ th = [c \in Calls |-> "none"]
    /\ res = [c \in Calls |-> None]
    /\ cx = [c \in Calls |-> "none"]
    /\ lock = None
    /\ cache = [o \in Ops |-> None]
    /\ current = None
    /\ opened = 0
    /\ active = [k \in Conns |-> None]
    /\ response = [k \in Conns |-> None]
-----------------------------------------------------------------------------

(* The coroutine answers: _error/_present with this code.                  *)
Answer(c, o) ==
    /\ co' = [co EXCEPT ![c] = "done"]
    /\ outcome' = [outcome EXCEPT ![c] = o]

(* dispatch, no Worker registered: WorkerRegistry.current raises.  It also *)
(* does, and forgets the connection, after 15 s without a heartbeat, which *)
(* may be at any time.                                                     *)
DispatchUnavailable(c) ==
    /\ co[c] = "idle"
    /\ current' = None
    /\ Answer(c, ErrorOutcome("worker_unavailable"))
    /\ UNCHANGED <<call, abandoned, th, res, cx, lock, cache,
                   opened, active, response, channelVars>>

(* dispatch: _route binds the current client, _send starts the thread.     *)
(* requested_at is a wall clock reading, so calls carry times in any order.*)
Dispatch(c, op, p, t) ==
    /\ co[c] = "idle"
    /\ current # None
    /\ call' = [call EXCEPT ![c] =
                  [op |-> op, payload |-> p, at |-> t, conn |-> current]]
    /\ co' = [co EXCEPT ![c] = "awaiting"]
    /\ th' = [th EXCEPT ![c] = "lock"]
    /\ UNCHANGED <<outcome, abandoned, res, cx, lock, cache, current,
                   opened, active, response, channelVars>>

(* The call is abandoned and a cancel thread starts.  The coroutine waits  *)
(* for that thread at most 0.25 s and answers in any case.                 *)
Abandon(c) ==
    /\ abandoned' = [abandoned EXCEPT ![c] = TRUE]
    /\ cx' = [cx EXCEPT ![c] = "check"]
    /\ Answer(c, ErrorOutcome("abandoned"))

(* fail_after expires, or the MCP caller cancels the request: nothing the  *)
(* thread did or does reaches the caller.  Outcome "abandoned" stands for  *)
(* dispatch_timeout and for dispatch_cancelled.                            *)
Timeout(c) ==
    /\ co[c] = "awaiting"
    /\ Abandon(c)
    /\ UNCHANGED <<call, th, res, lock, cache, current, opened, active,
                   response, channelVars>>

(* The thread ended in time: _send maps its result.  IdempotencyConflict,  *)
(* and a pywin32 error are not caught by _send.                            *)
Present(c) ==
    /\ co[c] = "awaiting"
    /\ th[c] = "done"
    /\ LET r == res[c] IN
       \/ /\ r.kind = "response"
          /\ Answer(c, IF r.resp.code = "ok"
                       THEN [code |-> "ok", resp |-> r.resp, owner |-> r.owner,
                             replayed |-> r.replayed]
                       ELSE ErrorOutcome("peer_error"))
          /\ UNCHANGED <<abandoned, cx, current>>
       \/ /\ r.kind = "timeout"
          /\ Abandon(c)
          /\ UNCHANGED current
       \/ /\ r.kind = "disconnected"
          /\ current' = IF current = call[c].conn THEN None ELSE current
          /\ Answer(c, ErrorOutcome("worker_unavailable"))
          /\ UNCHANGED <<abandoned, cx>>
       \/ /\ r.kind \in {"conflict", "oserror"}
          /\ Answer(c, ErrorOutcome("raised"))
          /\ UNCHANGED <<abandoned, cx, current>>
    /\ res' = [res EXCEPT ![c] = None]
    /\ UNCHANGED <<call, th, lock, cache, opened, active, response,
                   channelVars>>
-----------------------------------------------------------------------------
(* The exchange thread leaves IdempotencyStore.execute.  What a thread     *)
(* abandoned by its coroutine returns or raises is discarded.              *)
Finish(c, r) ==
    /\ th' = [th EXCEPT ![c] = "done"]
    /\ res' = [res EXCEPT ![c] = IF abandoned[c] THEN None ELSE r]
    /\ lock' = None

(* The entry execute may replay to call c: present and not expired.        *)
Live(c) ==
    /\ cache[call[c].op] # None
    /\ call[c].at < cache[call[c].op].expires

(* Mutant: execute does not take the lock.                                 *)
LookupUnlocked(c) ==
    /\ th[c] = "lock"
    /\ ~Live(c)
    /\ cache' = [cache EXCEPT ![call[c].op] = None]
    /\ lock' = c
    /\ th' = [th EXCEPT ![c] = "run"]
    /\ UNCHANGED <<res, call, co, outcome, abandoned, cx, current, opened,
                   active, response, channelVars>>

(* execute up to the callback, under the lock.                             *)
Lookup(c) ==
    /\ th[c] = "lock"
    /\ lock = None
    /\ LET o == call[c].op IN
       \/ /\ Live(c)
          /\ cache[o].digest = call[c].payload
          /\ Finish(c, [kind |-> "response", resp |-> cache[o].result,
                        owner |-> cache[o].owner, replayed |-> TRUE])
          /\ UNCHANGED cache
       \/ /\ Live(c)
          /\ cache[o].digest # call[c].payload
          /\ Finish(c, Raised("conflict"))
          /\ UNCHANGED cache
       \/ /\ ~Live(c)
          /\ cache' = [cache EXCEPT ![o] = None]
          /\ lock' = c
          /\ th' = [th EXCEPT ![c] = "run"]
          /\ UNCHANGED res
    /\ UNCHANGED <<call, co, outcome, abandoned, cx, current, opened,
                   active, response, channelVars>>

(* ExchangeAttempt.run, then the head of exchange_with_abandon: the        *)
(* request becomes the connection's active one.                            *)
Claim(c) ==
    /\ th[c] = "run"
    /\ LET k == call[c].conn IN
       \/ /\ abandoned[c]
          /\ Finish(c, Raised("abandoned"))
          /\ UNCHANGED <<active, response>>
       \/ /\ ~abandoned[c]
          /\ closed[k]
          /\ Finish(c, Raised("disconnected"))
          /\ UNCHANGED <<active, response>>
       \/ /\ ~abandoned[c]
          /\ ~closed[k]
          /\ active' = [active EXCEPT ![k] = call[c].op]
          /\ response' = [response EXCEPT ![k] = None]
          /\ th' = [th EXCEPT ![c] = "claimed"]
          /\ UNCHANGED <<res, lock>>
    /\ UNCHANGED <<call, co, outcome, abandoned, cx, cache, current,
                   opened, channelVars>>

(* _write of the request: refused once the call is abandoned; a failed     *)
(* write closes the connection if it is an OSError, and escapes if it is a *)
(* pywin32 error.                                                          *)
Write(c) ==
    /\ th[c] = "claimed"
    /\ LET k == call[c].conn
           m == [kind |-> "request", id |-> call[c].op, call |-> c] IN
       \/ /\ abandoned[c]
          /\ active' = [active EXCEPT ![k] = None]
          /\ Finish(c, Raised("abandoned"))
          /\ UNCHANGED channelVars
       \/ /\ ~abandoned[c]
          /\ Writable(k)
          /\ toWorker' = [toWorker EXCEPT ![k] = Append(@, m)]
          /\ th' = [th EXCEPT ![c] = "waiting"]
          /\ UNCHANGED <<active, res, lock, toGateway, closed, session>>
       \/ /\ ~abandoned[c]
          /\ ~Writable(k)
          /\ CloseGatewayEnd(k)
          /\ Finish(c, Raised("disconnected"))
          /\ UNCHANGED <<active, toWorker, session>>
       \/ /\ ~abandoned[c]
          /\ ~Writable(k)
          /\ Finish(c, Raised("oserror"))
          /\ UNCHANGED <<active, channelVars>>
    /\ UNCHANGED <<call, co, outcome, abandoned, cx, cache, current,
                   opened, response>>

(* The wait ends with a response.                                          *)
Take(c) ==
    /\ th[c] = "waiting"
    /\ LET k == call[c].conn IN
       /\ ~closed[k]
       /\ response[k] # None
       /\ res' = [res EXCEPT ![c] = [kind |-> "taken", resp |-> response[k],
                                    owner |-> None, replayed |-> FALSE]]
       /\ active' = [active EXCEPT ![k] = None]
       /\ response' = [response EXCEPT ![k] = None]
    /\ th' = [th EXCEPT ![c] = "got"]
    /\ UNCHANGED <<call, co, outcome, abandoned, cx, lock, cache, current,
                   opened, channelVars>>

(* Mutant: the deadline is only armed while the caller waits.              *)
EndpointTimeoutAwaited(c) ==
    /\ th[c] = "waiting"
    /\ co[c] = "awaiting"
    /\ active' = [active EXCEPT ![call[c].conn] = None]
    /\ Finish(c, Raised("timeout"))
    /\ UNCHANGED <<call, co, outcome, abandoned, cx, cache, current,
                   opened, response, channelVars>>

(* The wait ends at its deadline.  Condition.wait reports a timeout even   *)
(* if a response, or the close, slipped in before it reacquired the lock.  *)
EndpointTimeout(c) ==
    /\ th[c] = "waiting"
    /\ active' = [active EXCEPT ![call[c].conn] = None]
    /\ Finish(c, Raised("timeout"))
    /\ UNCHANGED <<call, co, outcome, abandoned, cx, cache, current,
                   opened, response, channelVars>>

(* The wait ends because the connection was closed.                        *)
WaitClosed(c) ==
    /\ th[c] = "waiting"
    /\ closed[call[c].conn]
    /\ Finish(c, Raised("disconnected"))
    /\ UNCHANGED <<call, co, outcome, abandoned, cx, cache, current,
                   opened, active, response, channelVars>>

(* The tail of ExchangeAttempt.run and of execute: a late response is      *)
(* refused, any other response is cached, whatever its error_code.         *)
Store(c) ==
    /\ th[c] = "got"
    /\ \/ /\ abandoned[c]
          /\ Finish(c, Raised("abandoned"))
          /\ UNCHANGED cache
       \/ /\ ~abandoned[c]
          /\ cache' = [cache EXCEPT ![call[c].op] =
                         [digest |-> call[c].payload, result |-> res[c].resp,
                          expires |-> call[c].at + TTL, owner |-> c]]
          /\ Finish(c, [kind |-> "response", resp |-> res[c].resp, owner |-> c,
                        replayed |-> FALSE])
    /\ UNCHANGED <<call, co, outcome, abandoned, cx, current, opened,
                   active, response, channelVars>>
-----------------------------------------------------------------------------
(* _GatewayConnection.cancel: the check and the write are two steps.       *)
CancelCheck(c) ==
    /\ cx[c] = "check"
    /\ LET k == call[c].conn
           hit == ~closed[k] /\ active[k] = call[c].op IN
       cx' = [cx EXCEPT ![c] = IF hit THEN "write" ELSE "done"]
    /\ UNCHANGED <<call, co, outcome, abandoned, th, res, lock, cache,
                   current, opened, active, response, channelVars>>

CancelWrite(c) ==
    /\ cx[c] = "write"
    /\ cx' = [cx EXCEPT ![c] = "done"]
    /\ LET k == call[c].conn
           m == [kind |-> "cancel", id |-> call[c].op, call |-> c] IN
       \/ /\ Writable(k)
          /\ toWorker' = [toWorker EXCEPT ![k] = Append(@, m)]
          /\ UNCHANGED <<toGateway, closed, session>>
       \/ /\ ~Writable(k)
          /\ CloseGatewayEnd(k) \/ UNCHANGED <<toGateway, closed>>
          /\ UNCHANGED <<toWorker, session>>
    /\ UNCHANGED <<call, co, outcome, abandoned, th, res, lock, cache,
                   current, opened, active, response>>
-----------------------------------------------------------------------------
(* run's finally clause: the registry forgets the connection, which closes.*)
TearDown(k) ==
    /\ CloseGatewayEnd(k)
    /\ current' = IF current = k THEN None ELSE current

(* Mutant: a response is taken for the active request whatever its id.     *)
DeliverUnchecked(k) ==
    /\ ~closed[k]
    /\ toGateway[k] # <<>>
    /\ response' = [response EXCEPT ![k] = Head(toGateway[k])]
    /\ toGateway' = [toGateway EXCEPT ![k] = Tail(@)]
    /\ UNCHANGED <<call, co, outcome, abandoned, th, res, cx, lock, cache,
                   current, opened, active, toWorker, closed, session>>

(* The watcher reads an IpcResponse: deliver stores it for the active      *)
(* request of the same id, and any other response ends the connection.     *)
Deliver(k) ==
    /\ ~closed[k]
    /\ toGateway[k] # <<>>
    /\ LET m == Head(toGateway[k]) IN
       \/ /\ active[k] = m.id
          /\ response' = [response EXCEPT ![k] = m]
          /\ toGateway' = [toGateway EXCEPT ![k] = Tail(@)]
          /\ UNCHANGED <<closed, current>>
       \/ /\ active[k] # m.id
          /\ TearDown(k)
          /\ UNCHANGED response
    /\ UNCHANGED <<call, co, outcome, abandoned, th, res, cx, lock, cache,
                   opened, active, toWorker, session>>

(* Any other end of the read loop: broken pipe, 15 s without a frame, a    *)
(* stale heartbeat, GatewayWorkerWatcher.disconnect, a connection closed   *)
(* by a failed write.                                                      *)
ReadFail(k) ==
    /\ ~closed[k] \/ current = k
    /\ TearDown(k)
    /\ UNCHANGED <<call, co, outcome, abandoned, th, res, cx, lock, cache,
                   opened, active, response, toWorker, session>>

(* A step of the exchange thread of call c.                                *)
ThreadStep(c) ==
    \/ Lookup(c) \/ Claim(c) \/ Write(c) \/ Take(c)
    \/ EndpointTimeout(c) \/ WaitClosed(c) \/ Store(c)
=============================================================================
