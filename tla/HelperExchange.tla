--------------------------- MODULE HelperExchange --------------------------
(***************************************************************************)
(* The privileged helper: the session loop of HelperSession inside         *)
(* PrivilegedHelperRuntime.run_pipe_loop, and the Gateway's end of its     *)
(* pipe (_HelperConnection, GatewayHelperWatcher, HelperRegistry), which   *)
(* repeats the protocol of the Worker's end except for cancel.  The        *)
(* dispatcher and its threads are those of GatewayDispatch; toWorker and   *)
(* session are here the helper's queue and the helper's session.           *)
(*                                                                         *)
(* A session reads, executes and answers one message after the other, so   *)
(* nothing interrupts a power action that has begun.                       *)
(***************************************************************************)
EXTENDS GatewayDispatch

VARIABLES
    busy,       \* [Conns -> call whose request the session has read]
    phase,      \* [Conns -> what the session does with it]
    performed   \* calls whose power action Windows accepted, in order

helperVars == <<busy, phase, performed>>

HelperTypeOK ==
    /\ busy \in [Conns -> Calls \cup {None}]
    /\ phase \in [Conns -> {"read", "execute", "respond"}]
    /\ performed \in Seq(Calls)

HelperInit ==
    /\ busy = [k \in Conns |-> None]
    /\ phase = [k \in Conns |-> "read"]
    /\ performed = <<>>
-----------------------------------------------------------------------------
(* accept_registration: the helper registers with generation 0 each time,  *)
(* so only a registry that has forgotten the previous connection takes it. *)
Registrable == current = None

RegisterTransport(k) ==
    /\ Registrable
    /\ current' = k
    /\ opened' = k

(* run_pipe_loop: a new pipe instance once the previous session is over,   *)
(* the Gateway's hello, the check of its identity, the registration, the   *)
(* session.  A refused peer leaves nothing behind.                         *)
AcceptGateway(k) ==
    /\ \A j \in Conns : session[j] \in {"none", "ended"}
    /\ session' = [session EXCEPT ![k] = "up"]

(* The Gateway's watcher connects, verifies the pipe, says hello and gets  *)
(* the registration.  A failure of any of these closes the pipe.           *)
HelperConnect(k) ==
    /\ k = opened + 1
    /\ \A j \in Conns : closed[j]
    /\ closed' = [closed EXCEPT ![k] = FALSE]
    /\ RegisterTransport(k)
    /\ AcceptGateway(k)
    /\ UNCHANGED <<call, co, outcome, abandoned, th, res, cx, lock, cache,
                   active, response, helperVars, toWorker, toGateway>>

(* The session is over: an exception run_pipe_loop swallows, a stop of the *)
(* service, or the end of the process.                                     *)
EndSession(k) ==
    /\ CloseWorkerEnd(k)
    /\ busy' = [busy EXCEPT ![k] = None]
    /\ phase' = [phase EXCEPT ![k] = "read"]

(* HelperSession._dispatch of the next message; a CancelRequest is not a   *)
(* message the helper expects.                                             *)
HelperRead(k) ==
    /\ session[k] = "up"
    /\ phase[k] = "read"
    /\ toWorker[k] # <<>>
    /\ LET m == Head(toWorker[k]) IN
       \/ /\ m.kind = "request"
          /\ busy' = [busy EXCEPT ![k] = m.call]
          /\ phase' = [phase EXCEPT ![k] = "execute"]
          /\ toWorker' = [toWorker EXCEPT ![k] = Tail(@)]
          /\ UNCHANGED session
       \/ /\ m.kind = "cancel"
          /\ EndSession(k)
    /\ UNCHANGED <<gatewayVars, toGateway, closed, performed>>

(* WindowsPowerActionExecutor._initiate: Windows accepts the action, or    *)
(* the call fails.                                                         *)
Initiate(c) == {performed, Append(performed, c)}

(* Mutant: a failure is answered like a success.                           *)
HelperExecuteSilent(k) ==
    /\ phase[k] = "execute"
    /\ performed' \in Initiate(busy[k])
    /\ phase' = [phase EXCEPT ![k] = "respond"]
    /\ UNCHANGED <<busy, channelVars, gatewayVars>>

(* PowerActionService.execute in the session: it answers, or the error     *)
(* ends the session, also one that comes from restoring the privilege      *)
(* after Windows has accepted the action.                                  *)
HelperExecute(k) ==
    /\ phase[k] = "execute"
    /\ performed' \in Initiate(busy[k])
    /\ \/ /\ performed' # performed
          /\ phase' = [phase EXCEPT ![k] = "respond"]
          /\ UNCHANGED <<busy, channelVars>>
       \/ /\ EndSession(k)
          /\ UNCHANGED <<toGateway, closed>>
    /\ UNCHANGED gatewayVars

(* The answer is written, or the write fails and ends the session.         *)
HelperRespond(k) ==
    /\ phase[k] = "respond"
    /\ SendToGateway(k, [id |-> call[busy[k]].op, code |-> "ok", by |-> busy[k]])
    /\ \/ /\ Writable(k)
          /\ busy' = [busy EXCEPT ![k] = None]
          /\ phase' = [phase EXCEPT ![k] = "read"]
          /\ UNCHANGED <<toWorker, session>>
       \/ /\ ~Writable(k)
          /\ EndSession(k)
    /\ UNCHANGED <<gatewayVars, closed, performed>>

(* request_stop, a failed heartbeat or read, or the end of the process.    *)
HelperEnd(k) ==
    /\ session[k] = "up"
    /\ EndSession(k)
    /\ UNCHANGED <<gatewayVars, toGateway, closed, performed>>
-----------------------------------------------------------------------------
(* _HelperConnection.cancel after its check: the CancelRequest is written  *)
(* and the connection closed, as the power action may have begun.          *)
HelperCancelWrite(c) ==
    /\ cx[c] = "write"
    /\ cx' = [cx EXCEPT ![c] = "done"]
    /\ LET k == call[c].conn
           m == [kind |-> "cancel", id |-> call[c].op, call |-> c] IN
       \/ /\ Writable(k)
          /\ toWorker' = [toWorker EXCEPT ![k] = Append(@, m)]
          /\ CloseGatewayEnd(k)
       \/ /\ ~Writable(k)
          /\ CloseGatewayEnd(k) \/ UNCHANGED <<toGateway, closed>>
          /\ UNCHANGED toWorker
    /\ UNCHANGED <<call, co, outcome, abandoned, th, res, lock, cache,
                   current, opened, active, response, session>>

(* _HelperConnection.exchange_with_abandon.                                *)
HelperExchangeStep(c) ==
    Claim(c) \/ Write(c) \/ Take(c) \/ EndpointTimeout(c) \/ WaitClosed(c)

(* _HelperConnection.deliver, in the watcher's read loop.                  *)
HelperDeliver(k) == Deliver(k)

(* The other ends of the loop, and the finally clause of the watcher.      *)
HelperReadFail(k) == ReadFail(k)
=============================================================================
