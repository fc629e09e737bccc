-------------------------- MODULE WorkerExchange ---------------------------
(***************************************************************************)
(* The Gateway's dispatcher and the Worker, composed over the named pipe.  *)
(***************************************************************************)
EXTENDS GatewayDispatch, WorkerService

vars == <<gatewayVars, workerVars, channelVars>>

(* GatewayWorkerWatcher._serve_connection_unchecked meets serve_worker_pipe*)
(* (hello, registration, register): a new pipe instance comes up.  Both    *)
(* ends serve one instance at a time, and the watcher has disconnected the *)
(* previous one from the registry.                                         *)
Connect(k) ==
    /\ k = opened + 1
    /\ current = None
    /\ \A j \in Conns : closed[j] /\ session[j] \in {"none", "ended"}
    /\ opened' = k
    /\ current' = k
    /\ closed' = [closed EXCEPT ![k] = FALSE]
    /\ session' = [session EXCEPT ![k] = "up"]
    /\ UNCHANGED <<call, co, outcome, abandoned, th, res, cx, lock, cache,
                   active, response, workerVars, toWorker, toGateway>>

Init == ChannelInit /\ GatewayInit /\ WorkerInit

Next ==
    \/ \E c \in Calls :
         \/ DispatchUnavailable(c) /\ UNCHANGED workerVars
         \/ \E op \in Ops, p \in Payloads, t \in 0..MaxTime :
              Dispatch(c, op, p, t) /\ UNCHANGED workerVars
         \/ Timeout(c) /\ UNCHANGED workerVars
         \/ Present(c) /\ UNCHANGED workerVars
         \/ Lookup(c) /\ UNCHANGED workerVars
         \/ Claim(c) /\ UNCHANGED workerVars
         \/ Write(c) /\ UNCHANGED workerVars
         \/ Take(c) /\ UNCHANGED workerVars
         \/ EndpointTimeout(c) /\ UNCHANGED workerVars
         \/ WaitClosed(c) /\ UNCHANGED workerVars
         \/ Store(c) /\ UNCHANGED workerVars
         \/ CancelCheck(c) /\ UNCHANGED workerVars
         \/ CancelWrite(c) /\ UNCHANGED workerVars
         \/ ExecReject(c) /\ UNCHANGED gatewayVars
         \/ ExecBegin(c) /\ UNCHANGED gatewayVars
         \/ ExecFinish(c) /\ UNCHANGED gatewayVars
         \/ ExecWrite(c) /\ UNCHANGED gatewayVars
         \/ ExecRelease(c) /\ UNCHANGED gatewayVars
    \/ \E k \in Conns :
         \/ Connect(k)
         \/ Deliver(k) /\ UNCHANGED workerVars
         \/ ReadFail(k) /\ UNCHANGED workerVars
         \/ ReadRequest(k) /\ UNCHANGED gatewayVars
         \/ ReadCancel(k) /\ UNCHANGED gatewayVars
         \/ SessionStop(k) /\ UNCHANGED gatewayVars
         \/ SessionClose(k) /\ UNCHANGED gatewayVars

Spec == Init /\ [][Next]_vars

(* The threads are scheduled by the operating system: an exchange thread   *)
(* that can move does (its wait carries a deadline), and so does a request *)
(* thread of the Worker (a handler returns or raises in the end).  Nothing *)
(* is assumed of the client, of the watcher or of the session loop.        *)
Fairness ==
    \A c \in Calls : /\ WF_vars(ThreadStep(c) /\ UNCHANGED workerVars)
                     /\ WF_vars(ExecStep(c) /\ UNCHANGED gatewayVars)

FairSpec == Spec /\ Fairness
-----------------------------------------------------------------------------
(* Every variable has its type.                                            *)
TypeOK == ChannelTypeOK /\ GatewayTypeOK /\ WorkerTypeOK

(* While a call is anywhere between the idempotency lookup and the store,  *)
(* it is the only one, and no result is cached under its operation id: a   *)
(* cached operation is never sent again, and no two dispatches of one id   *)
(* are on the wire together (IdempotencyStore.execute holds its lock       *)
(* across the callback).                                                   *)
ExchangeExclusive ==
    \A c \in Calls : th[c] \in InExchange =>
        /\ \A d \in Calls : th[d] \in InExchange => d = c
        /\ cache[call[c].op] = None

(* A caller that gets a result gets one produced for its own operation id, *)
(* cached by a call of the same id and the same payload: neither a late    *)
(* frame nor a replay can hand it the result of another operation          *)
(* (deliver, correlate_response and the digest check of execute).          *)
ResultCorrelates ==
    \A c \in Calls : outcome[c] # None /\ outcome[c].code = "ok" =>
        LET o == outcome[c] IN
        /\ o.resp.id = call[c].op
        /\ call[o.resp.by].op = call[c].op
        /\ call[o.owner].op = call[c].op
        /\ call[o.owner].payload = call[c].payload

BusyExec == {"starting", "running", "finished", "written"}

(* A Worker session never runs two requests at once, from the frame that   *)
(* starts a request thread to the lock section that frees the session      *)
(* (_WorkerSession._start_request, _exchange).                             *)
SessionRunsOne ==
    \A c, d \in Calls :
        (/\ exec[c].st \in BusyExec
         /\ exec[d].st \in BusyExec
         /\ exec[c].conn = exec[d].conn) => c = d

(* Exchanges go one at a time at both ends: on the Gateway across every    *)
(* connection and thread, an abandoned one included, and on the Worker     *)
(* within a session (IdempotencyStore.execute, _WorkerSession).            *)
OneAtATime == ExchangeExclusive /\ SessionRunsOne

(* A cancellation mark never outlives the handler it was meant for, so a   *)
(* retry of a cancelled id is not reported as cancelled without a new      *)
(* CancelRequest (WorkerOperationDispatcher.exchange, finally clause).     *)
NoStaleCancellation == cancelled \subseteq handlers

(* A running handler can be found by cancel, unless the same id also ran   *)
(* in another session: its finally clause unregisters both.                *)
RunningCancellable ==
    \A c \in Calls :
        (/\ exec[c].st = "running"
         /\ \A d \in Calls : exec[d].op = exec[c].op => exec[d].conn = exec[c].conn)
        => exec[c].op \in handlers

(* Every exchange thread ends, and so frees the idempotency lock for the   *)
(* calls behind it, even if its caller is gone and the Worker never        *)
(* answers (the deadline of exchange_with_abandon).                        *)
ThreadsTerminate == \A c \in Calls : th[c] = "lock" ~> th[c] = "done"

(* A session that started a request becomes free again, whichever way the  *)
(* request ends (_WorkerSession._exchange, finally clause).                *)
SessionFreed == \A k \in Conns : sactive[k] # None ~> sactive[k] = None
-----------------------------------------------------------------------------
(* AbandonedExchangeError: "a response that arrives after a timeout or a   *)
(* cancel is not a completed result".  A result that was produced for an   *)
(* abandoned call is not cached.                                           *)
LateResponseNotCompleted ==
    \A o \in Ops : cache[o] # None =>
        cache[o].result.by = cache[o].owner
=============================================================================
