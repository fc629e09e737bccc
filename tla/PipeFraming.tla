---------------------------- MODULE PipeFraming ----------------------------
(***************************************************************************)
(* One connection of the Gateway to the Worker at the level of bytes: the  *)
(* length-prefixed frames that write_pipe_message puts on the pipe, piece  *)
(* by piece, and that the Worker's session loop reads back, piece by       *)
(* piece, while the connection may be closed by other threads.             *)
(*                                                                         *)
(* The Gateway's threads are the writers of _GatewayConnection (an         *)
(* exchange, a cancel), each with one message; the closer is the first     *)
(* thread to enter close(); the prober is a status read that looks at the  *)
(* DACL of the handle.  A cell <<m, i>> is byte i of the frame of m.       *)
(***************************************************************************)
EXTENDS Naturals, Sequences, FiniteSets

CONSTANTS
    Writers,        \* threads that write one message each
    SizeOf,         \* [Writers -> length of the serialized message]
    PrefixSize,     \* LENGTH_PREFIX_SIZE
    MaxMessageSize, \* MAX_MESSAGE_SIZE
    WholeWrites,    \* a WriteFile that succeeds has taken the whole buffer
    NoWriter

ASSUME FramingAssumption ==
    /\ SizeOf \in [Writers -> Nat \ {0}]
    /\ PrefixSize \in Nat \ {0}
    /\ MaxMessageSize \in Nat
    /\ WholeWrites \in BOOLEAN
    /\ NoWriter \notin Writers

VARIABLES
    writer,     \* [Writers -> state of the thread]
    written,    \* [Writers -> bytes of the frame already written]
    writeLock,  \* holder of _write_lock
    closing,    \* progress of close(): the Gateway's handle is open until "shut"
    probe,      \* the status thread in pipe_acl_state
    wire,       \* cells in the pipe buffer
    sent,       \* history: messages whose last byte was in the pipe, in order,
                \* before close() began
    late,       \* history: the same for those written after that
    reader,     \* the Worker's session loop: which part of a frame it reads
    need,       \* size of that part
    buffer,     \* chunks received so far by _read_exact
    received,   \* messages parsed, in order
    torn,       \* a read timed out inside a frame and its bytes were dropped
    malformed   \* a frame was refused (FrameTooLarge, ProtocolMessage errors)

history == <<sent, late>>
gatewayEnd == <<writer, written, writeLock, closing, probe, history>>
workerEnd == <<reader, need, buffer, received, torn, malformed>>
framingVars == <<gatewayEnd, workerEnd, wire>>

Cell == Writers \X Nat

(* encode_frame: prefix and payload of message m.                          *)
FrameSize(m) == PrefixSize + SizeOf[m]
Frame(m) == [i \in 1..FrameSize(m) |-> <<m, i>>]

FramingTypeOK ==
    /\ writer \in [Writers -> {"idle", "queued", "writing", "timeout", "done",
                               "refused", "failed"}]
    /\ written \in [Writers -> Nat]
    /\ writeLock \in Writers \cup {NoWriter}
    /\ closing \in {"open", "marked", "cancelled", "shut"}
    /\ probe \in {"idle", "locked", "reading"}
    /\ wire \in Seq(Cell) /\ buffer \in Seq(Cell)
    /\ sent \in Seq(Writers) /\ late \subseteq Writers /\ received \in Seq(Writers)
    /\ reader \in {"prefix", "body", "ended"}
    /\ need \in Nat
    /\ torn \in BOOLEAN /\ malformed \in BOOLEAN

FramingInit ==
    /\ writer = [m \in Writers |-> "idle"]
    /\ written = [m \in Writers |-> 0]
    /\ writeLock = NoWriter
    /\ closing = "open"
    /\ probe = "idle"
    /\ wire = <<>> /\ sent = <<>> /\ late = {}
    /\ reader = "prefix" /\ need = PrefixSize /\ buffer = <<>>
    /\ received = <<>> /\ torn = FALSE /\ malformed = FALSE

(* The Condition of the connection is held by a probe while it looks.      *)
ConditionFree == probe # "reading"
-----------------------------------------------------------------------------
(* exchange_with_abandon and cancel look at _closed under the condition,   *)
(* then go for the write lock.                                             *)
EnterWrite(m) ==
    /\ writer[m] = "idle"
    /\ ConditionFree
    /\ writer' = [writer EXCEPT ![m] = IF closing = "open" THEN "queued"
                                                            ELSE "failed"]
    /\ UNCHANGED <<written, writeLock, closing, probe, history, workerEnd, wire>>

(* _write takes the lock; encode_frame refuses a message over the limit    *)
(* before a byte is written.                                               *)
LockWrite(m) ==
    /\ writer[m] = "queued"
    /\ writeLock = NoWriter
    /\ \/ /\ SizeOf[m] <= MaxMessageSize
          /\ writer' = [writer EXCEPT ![m] = "writing"]
          /\ writeLock' = m
       \/ /\ SizeOf[m] > MaxMessageSize
          /\ writer' = [writer EXCEPT ![m] = "refused"]
          /\ UNCHANGED writeLock
    /\ UNCHANGED <<written, closing, probe, history, workerEnd, wire>>

(* History: the last byte of m is in the pipe, before or after close()    *)
(* began.                                                                  *)
Completed(m) ==
    \/ closing = "open" /\ sent' = Append(sent, m) /\ UNCHANGED late
    \/ closing # "open" /\ late' = late \cup {m} /\ UNCHANGED sent

(* One turn of the loop of write_pipe_message: WriteFile takes n bytes,    *)
(* all of them in a Windows byte pipe (the loop does not rely on it).      *)
WriteSome(m, n) ==
    /\ writer[m] = "writing"
    /\ closing # "shut" /\ reader # "ended"
    /\ n \in 1..(FrameSize(m) - written[m])
    /\ WholeWrites => n = FrameSize(m)
    /\ wire' = wire \o SubSeq(Frame(m), written[m] + 1, written[m] + n)
    /\ written' = [written EXCEPT ![m] = @ + n]
    /\ IF written'[m] = FrameSize(m)
         THEN /\ writer' = [writer EXCEPT ![m] = "done"]
              /\ writeLock' = NoWriter
              /\ Completed(m)
         ELSE UNCHANGED <<writer, writeLock, history>>
    /\ UNCHANGED <<closing, probe, workerEnd>>

(* What a write that fails half way leaves in the pipe.                    *)
LeavesPart(m) ==
    \E n \in 0..(FrameSize(m) - written[m] - 1) :
        /\ wire' = wire \o SubSeq(Frame(m), written[m] + 1, written[m] + n)
        /\ written' = [written EXCEPT ![m] = @ + n]

(* The overlapped write times out and is cancelled and drained, or it      *)
(* makes no progress (PipeWriteError): both are OSErrors.                  *)
WriteTimeout(m) ==
    /\ writer[m] = "writing"
    /\ closing # "shut" /\ reader # "ended"
    /\ LeavesPart(m)
    /\ writer' = [writer EXCEPT ![m] = "timeout"]
    /\ UNCHANGED <<writeLock, closing, probe, history, workerEnd>>

(* Mutant: a write that timed out does not close the connection.           *)
KeepAfterTimeout(m) ==
    /\ writer[m] = "timeout"
    /\ writer' = [writer EXCEPT ![m] = "failed"]
    /\ writeLock' = NoWriter
    /\ UNCHANGED <<written, closing, probe, history, workerEnd, wire>>

(* _write closes the connection before it lets go of the lock.             *)
FailWrite(m) ==
    /\ writer[m] = "timeout"
    /\ closing # "open"
    /\ writer' = [writer EXCEPT ![m] = "failed"]
    /\ writeLock' = NoWriter
    /\ UNCHANGED <<written, closing, probe, history, workerEnd, wire>>

(* WriteFile on a closed handle, or with the Worker's end gone, raises     *)
(* pywintypes.error, which _write does not catch.                          *)
WriteBroken(m) ==
    /\ writer[m] = "writing"
    /\ closing = "shut" \/ reader = "ended"
    /\ writer' = [writer EXCEPT ![m] = "failed"]
    /\ writeLock' = NoWriter
    /\ UNCHANGED <<written, closing, probe, history, workerEnd, wire>>

(* close() by the watcher, by disconnect() or by a writer whose write      *)
(* timed out: the first caller marks the connection under the condition.   *)
MarkClosed ==
    /\ closing = "open"
    /\ ConditionFree
    /\ closing' = "marked"
    /\ UNCHANGED <<writer, written, writeLock, probe, history, workerEnd, wire>>

(* __exit__ under _acl_lock: CancelIoEx aborts the write that is pending   *)
(* on the handle, if there is one (ERROR_OPERATION_ABORTED, not an         *)
(* OSError), ...                                                           *)
CancelPendingIo ==
    /\ closing = "marked"
    /\ probe = "idle"
    /\ closing' = "cancelled"
    /\ \/ UNCHANGED <<writer, written, writeLock, wire>>
       \/ \E m \in Writers :
            /\ writer[m] = "writing"
            /\ LeavesPart(m)
            /\ writer' = [writer EXCEPT ![m] = "failed"]
            /\ writeLock' = NoWriter
    /\ UNCHANGED <<probe, history, workerEnd>>

(* ... and only then the handle is closed.                                 *)
CloseHandle ==
    /\ closing = "cancelled"
    /\ closing' = "shut"
    /\ UNCHANGED <<writer, written, writeLock, probe, history, workerEnd, wire>>

(* pipe_acl_state: the lock is tried, then _closed is looked at, then the  *)
(* DACL is read with both locks held.                                      *)
ProbeLock ==
    /\ probe = "idle"
    /\ closing # "cancelled"        \* close() holds _acl_lock
    /\ probe' = "locked"
    /\ UNCHANGED <<writer, written, writeLock, closing, history, workerEnd, wire>>

(* The probe under the lock: a closed pipe is not looked at.               *)
ProbeStart ==
    /\ probe = "locked"
    /\ probe' = IF closing = "open" THEN "reading" ELSE "idle"
    /\ UNCHANGED <<writer, written, writeLock, closing, history, workerEnd, wire>>

ProbeEnd ==
    /\ probe = "reading"
    /\ probe' = "idle"
    /\ UNCHANGED <<writer, written, writeLock, closing, history, workerEnd, wire>>
-----------------------------------------------------------------------------
(* The four bytes read as a length: the size of m if they are the prefix   *)
(* of m, and any number otherwise.                                         *)
DeclaredSizes(cells) ==
    LET m == cells[1][1] IN
    IF cells = SubSeq(Frame(m), 1, PrefixSize) THEN {SizeOf[m]}
                                               ELSE 0..(MaxMessageSize + 1)

(* parse_message: only the whole payload of a message is its JSON text.    *)
IsPayload(cells) ==
    /\ cells # <<>>
    /\ LET m == cells[1][1] IN
       cells = SubSeq(Frame(m), PrefixSize + 1, FrameSize(m))

NextPart(part, n) == reader' = part /\ need' = n /\ buffer' = <<>>

(* FrameTooLargeError, ProtocolMessageError: serve_worker_pipe gives the   *)
(* instance up and creates another one.                                    *)
RefuseFrame ==
    /\ reader' = "ended"
    /\ buffer' = <<>>
    /\ malformed' = TRUE
    /\ UNCHANGED <<need, received, torn>>

(* _read_exact asks for what is missing and gets n bytes of it; the last   *)
(* chunk of a prefix announces the body, the last chunk of a body is       *)
(* parsed.                                                                 *)
ReadSome(n) ==
    /\ reader # "ended"
    /\ n \in 1..(need - Len(buffer))
    /\ n <= Len(wire)
    /\ wire' = SubSeq(wire, n + 1, Len(wire))
    /\ LET chunk == buffer \o SubSeq(wire, 1, n) IN
       \/ /\ Len(chunk) < need
          /\ buffer' = chunk
          /\ UNCHANGED <<reader, need, received, torn, malformed>>
       \/ /\ Len(chunk) = need /\ reader = "prefix"
          /\ \E size \in DeclaredSizes(chunk) :
               \/ /\ size \in 1..MaxMessageSize
                  /\ NextPart("body", size)
                  /\ UNCHANGED <<received, torn, malformed>>
               \/ /\ size = 0 \/ size > MaxMessageSize
                  /\ RefuseFrame
       \/ /\ Len(chunk) = need /\ reader = "body"
          /\ \/ /\ IsPayload(chunk)
                /\ NextPart("prefix", PrefixSize)
                /\ received' = Append(received, chunk[1][1])
                /\ UNCHANGED <<torn, malformed>>
             \/ /\ ~IsPayload(chunk)
                /\ RefuseFrame
    /\ UNCHANGED gatewayEnd

(* The bounded read of the session loop times out: run() goes on with a    *)
(* new read_message, and what _read_exact had received is gone.            *)
ReadTimeout ==
    /\ reader # "ended"
    /\ wire = <<>> /\ closing # "shut"
    /\ torn' = (torn \/ reader = "body" \/ buffer # <<>>)
    /\ NextPart("prefix", PrefixSize)
    /\ UNCHANGED <<received, malformed, gatewayEnd, wire>>

(* The session is stopped between two reads, or the read finds the         *)
(* Gateway's end closed and the buffer empty (ERROR_BROKEN_PIPE).          *)
ReadEnds ==
    /\ reader # "ended"
    /\ \/ reader = "prefix" /\ buffer = <<>>
       \/ closing = "shut" /\ wire = <<>>
    /\ reader' = "ended"
    /\ buffer' = <<>>
    /\ UNCHANGED <<need, received, torn, malformed, gatewayEnd, wire>>

FramingNext ==
    \/ \E m \in Writers :
         \/ EnterWrite(m)
         \/ LockWrite(m)
         \/ \E n \in 1..FrameSize(m) : WriteSome(m, n)
         \/ WriteTimeout(m)
         \/ FailWrite(m)
         \/ WriteBroken(m)
    \/ MarkClosed
    \/ CancelPendingIo
    \/ CloseHandle
    \/ ProbeLock
    \/ ProbeStart
    \/ ProbeEnd
    \/ \E n \in 1..Len(wire) : ReadSome(n)
    \/ ReadTimeout
    \/ ReadEnds

-----------------------------------------------------------------------------
(* The byte pipe implements a channel of whole messages in order, however  *)
(* reads are cut up, wherever reads and writes time out and whoever closes *)
(* the connection; only what is still written while it is being closed may *)
(* get lost behind a part of a frame (write_pipe_message under             *)
(* _write_lock, read_frame, the exception handlers of serve_worker_pipe).  *)
Channel == INSTANCE MessageChannel WITH
    Messages <- Writers, ending <- closing # "open", up <- reader # "ended"

ChannelSpec == Channel!Spec

(* The DACL of a handle is never read after the handle was closed, when    *)
(* its number may belong to another object (pipe_acl_state and close under *)
(* _acl_lock and the condition).                                           *)
ProbeOnOpenHandle == probe = "reading" => closing = "open"
=============================================================================
