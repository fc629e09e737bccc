--------------------------- MODULE WorkerService ---------------------------
(***************************************************************************)
(* The Worker's side: one _WorkerSession per pipe instance, whose reader   *)
(* loop starts at most one request thread at a time, and the               *)
(* WorkerOperationDispatcher all sessions share.  A request thread that    *)
(* outlives its session (the join is bounded by 1 s) keeps running next to *)
(* the requests of the following session.                                  *)
(***************************************************************************)
EXTENDS ExchangeChannel

VARIABLES
    sactive,    \* [Conns -> _WorkerSession._active_id]
    exec,       \* [Calls -> the request thread started for the call]
    handlers,   \* WorkerOperationDispatcher._active: ids with a handler
    cancelled   \* WorkerOperationDispatcher._cancelled

workerVars == <<sactive, exec, handlers, cancelled>>

ExecStates == {"none", "starting", "running", "finished", "written", "done"}
Exec == [st : ExecStates, op : Ops \cup {None}, conn : Conns \cup {None},
         code : ResponseCodes \cup {None}]

WorkerTypeOK ==
    /\ sactive \in [Conns -> Ops \cup {None}]
    /\ exec \in [Calls -> Exec]
    /\ handlers \subseteq Ops
    /\ cancelled \subseteq Ops

WorkerInit ==
    /\ sactive = [k \in Conns |-> None]
    /\ exec = [c \in Calls |->
                 [st |-> "none", op |-> None, conn |-> None, code |-> None]]
    /\ handlers = {}
    /\ cancelled = {}
-----------------------------------------------------------------------------
(* Mutant: an id is marked whether or not it has a handler.                *)
CancellingAny(id) == cancelled \cup {id}

(* WorkerOperationDispatcher.cancel: only an id with a handler is marked.  *)
Cancelling(id) == IF id \in handlers THEN cancelled \cup {id} ELSE cancelled

(* run/_start_request: an IpcRequest starts a thread, or is answered busy  *)
(* while the session still holds an active id.                             *)
ReadRequest(k) ==
    /\ session[k] = "up"
    /\ toWorker[k] # <<>>
    /\ LET m == Head(toWorker[k]) IN
       /\ m.kind = "request"
       /\ \/ /\ sactive[k] # None
             /\ SendToGateway(k, [id |-> m.id, code |-> "busy", by |-> m.call])
             /\ UNCHANGED <<sactive, exec>>
          \/ /\ sactive[k] = None
             /\ sactive' = [sactive EXCEPT ![k] = m.id]
             /\ exec' = [exec EXCEPT ![m.call] =
                           [st |-> "starting", op |-> m.id, conn |-> k,
                            code |-> None]]
             /\ UNCHANGED toGateway
    /\ toWorker' = [toWorker EXCEPT ![k] = Tail(@)]
    /\ UNCHANGED <<handlers, cancelled, closed, session>>

(* run: a CancelRequest goes to the shared dispatcher.                     *)
ReadCancel(k) ==
    /\ session[k] = "up"
    /\ toWorker[k] # <<>>
    /\ Head(toWorker[k]).kind = "cancel"
    /\ cancelled' = Cancelling(Head(toWorker[k]).id)
    /\ toWorker' = [toWorker EXCEPT ![k] = Tail(@)]
    /\ UNCHANGED <<sactive, exec, handlers, toGateway,
                   closed, session>>

(* run's finally clause: the loop ended (broken pipe, failed write, frame  *)
(* of another kind, stop event); the active request is cancelled and its   *)
(* thread joined for at most 1 s.                                          *)
SessionStop(k) ==
    /\ session[k] = "up"
    /\ session' = [session EXCEPT ![k] = "ending"]
    /\ cancelled' = IF sactive[k] = None THEN cancelled ELSE Cancelling(sactive[k])
    /\ UNCHANGED <<sactive, exec, handlers, toWorker,
                   toGateway, closed>>

(* The with block of serve_worker_pipe ends: the pipe handle is closed.    *)
SessionClose(k) ==
    /\ session[k] = "ending"
    /\ CloseWorkerEnd(k)
    /\ UNCHANGED <<workerVars, toGateway, closed>>

-----------------------------------------------------------------------------
(* exchange returns an error before a handler is registered: the operation *)
(* is not in the table, or the dispatcher is closed.                       *)
ExecReject(c) ==
    /\ exec[c].st = "starting"
    /\ exec' = [exec EXCEPT ![c] = [@ EXCEPT !.st = "finished", !.code = "failed"]]
    /\ UNCHANGED <<sactive, handlers, cancelled, channelVars>>

(* Mutant: the handler runs before it is registered.                       *)
ExecBeginUnregistered(c) ==
    /\ exec[c].st = "starting"
    /\ exec' = [exec EXCEPT ![c] = [@ EXCEPT !.st = "running"]]
    /\ UNCHANGED <<sactive, handlers, cancelled, channelVars>>

(* exchange registers the handler under the dispatcher's lock.             *)
ExecBegin(c) ==
    /\ exec[c].st = "starting"
    /\ handlers' = handlers \cup {exec[c].op}
    /\ exec' = [exec EXCEPT ![c] = [@ EXCEPT !.st = "running"]]
    /\ UNCHANGED <<sactive, cancelled, channelVars>>

(* The handler returns or raises; a result is replaced by                  *)
(* operation_cancelled if the id is marked; the id is then forgotten.  An  *)
(* exception exchange does not catch (a pywin32 error) ends the thread     *)
(* with no response to write.                                              *)
ExecFinish(c) ==
    /\ exec[c].st = "running"
    /\ \/ \E code \in {"failed", IF exec[c].op \in cancelled
                                 THEN "operation_cancelled" ELSE "ok"} :
            exec' = [exec EXCEPT ![c] = [@ EXCEPT !.st = "finished", !.code = code]]
       \/ exec' = [exec EXCEPT ![c] = [@ EXCEPT !.st = "written"]]
    /\ handlers' = handlers \ {exec[c].op}
    /\ cancelled' = cancelled \ {exec[c].op}
    /\ UNCHANGED <<sactive, channelVars>>

(* _exchange writes the response ...                                       *)
ExecWrite(c) ==
    /\ exec[c].st = "finished"
    /\ SendToGateway(exec[c].conn,
                     [id |-> exec[c].op, code |-> exec[c].code, by |-> c])
    /\ exec' = [exec EXCEPT ![c] = [@ EXCEPT !.st = "written", !.code = None]]
    /\ UNCHANGED <<sactive, handlers, cancelled, toWorker,
                   closed, session>>

(* Mutant: the session is only freed if its response could be written.     *)
ExecReleaseWritten(c) ==
    /\ exec[c].st = "written"
    /\ LET k == exec[c].conn IN
       sactive' = [sactive EXCEPT ![k] =
                     IF @ = exec[c].op /\ Writable(k) THEN None ELSE @]
    /\ exec' = [exec EXCEPT ![c] = [@ EXCEPT !.st = "done"]]
    /\ UNCHANGED <<handlers, cancelled, channelVars>>

(* ... and only then, under the state lock, frees the session.             *)
ExecRelease(c) ==
    /\ exec[c].st = "written"
    /\ LET k == exec[c].conn IN
       sactive' = [sactive EXCEPT ![k] = IF @ = exec[c].op THEN None ELSE @]
    /\ exec' = [exec EXCEPT ![c] = [@ EXCEPT !.st = "done"]]
    /\ UNCHANGED <<handlers, cancelled, channelVars>>

(* A step of the request thread of call c.                                 *)
ExecStep(c) ==
    \/ ExecReject(c) \/ ExecBegin(c) \/ ExecFinish(c)
    \/ ExecWrite(c) \/ ExecRelease(c)
=============================================================================
