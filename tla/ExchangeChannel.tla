-------------------------- MODULE ExchangeChannel --------------------------
(***************************************************************************)
(* The named pipe between the Gateway and the Worker of the session user:  *)
(* what both ends share.  A pipe instance k carries one frame queue in     *)
(* each direction; closed[k] is the Gateway's end (_GatewayConnection),    *)
(* session[k] the Worker's end (_WorkerSession).                           *)
(*                                                                         *)
(* A frame names its operation id (request_id, chosen by the MCP client,   *)
(* hence shared by a call and its retries).  The fields call and by are    *)
(* not on the wire: they record which dispatch wrote a request and which   *)
(* execution produced a response, so that properties can tell them apart.  *)
(***************************************************************************)
EXTENDS Naturals, Sequences, FiniteSets

CONSTANTS
    Calls,      \* DispatchCalls: one element per tools/call the Gateway gets
    Ops,        \* operation ids (UUIDs chosen by the client)
    Payloads,   \* canonical payload digests
    MaxConns,   \* bound: number of pipe instances opened in a behaviour
    TTL,        \* idempotency time to live
    MaxTime,    \* bound: last wall clock value
    None

ASSUME ExchangeAssumption ==
    /\ MaxConns \in Nat
    /\ MaxTime \in Nat
    /\ TTL \in Nat \ {0}
    /\ None \notin Calls \cup Ops \cup Payloads \cup Nat

Conns == 1..MaxConns

VARIABLES
    toWorker,   \* [Conns -> frames on their way to the Worker]
    toGateway,  \* [Conns -> frames on their way to the Gateway]
    closed,     \* [Conns -> the Gateway closed (or never opened) its end]
    session     \* [Conns -> state of the Worker's end]

channelVars == <<toWorker, toGateway, closed, session>>

(* error_code of an IpcResponse; "ok" stands for ok=True and "failed" for  *)
(* every error a finished execution reports but its cancellation.          *)
ResponseCodes == {"ok", "failed", "operation_cancelled", "busy"}

Request  == [kind : {"request", "cancel"}, id : Ops, call : Calls]
Response == [id : Ops, code : ResponseCodes, by : Calls]

ChannelTypeOK ==
    /\ toWorker \in [Conns -> Seq(Request)]
    /\ toGateway \in [Conns -> Seq(Response)]
    /\ closed \in [Conns -> BOOLEAN]
    /\ session \in [Conns -> {"none", "up", "ending", "ended"}]

ChannelInit ==
    /\ toWorker = [k \in Conns |-> <<>>]
    /\ toGateway = [k \in Conns |-> <<>>]
    /\ closed = [k \in Conns |-> TRUE]
    /\ session = [k \in Conns |-> "none"]

(* write_pipe_message succeeds only while both handles are open.           *)
Writable(k) == ~closed[k] /\ session[k] \in {"up", "ending"}

(* NamedPipeServer.write_message: the frame is queued, or the write raises *)
(* and the session stops (which closed[k] already forces it to do).        *)
SendToGateway(k, m) ==
    toGateway' = IF Writable(k) THEN [toGateway EXCEPT ![k] = Append(@, m)]
                                ELSE toGateway

(* _GatewayConnection.close: frames not read yet are lost with the handle. *)
CloseGatewayEnd(k) ==
    /\ closed' = [closed EXCEPT ![k] = TRUE]
    /\ toGateway' = [toGateway EXCEPT ![k] = <<>>]

(* NamedPipeServer.__exit__.                                               *)
CloseWorkerEnd(k) ==
    /\ session' = [session EXCEPT ![k] = "ended"]
    /\ toWorker' = [toWorker EXCEPT ![k] = <<>>]
=============================================================================
