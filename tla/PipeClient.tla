----------------------------- MODULE PipeClient ----------------------------
(***************************************************************************)
(* NamedPipeIpcClient: one pipe handle per exchange, which either the      *)
(* exchanging thread or a thread in cancel() closes.                       *)
(***************************************************************************)
EXTENDS Naturals

CONSTANTS Requests, NoRequest

ASSUME ClientAssumption == NoRequest \notin Requests

VARIABLES
    exchange,   \* [Requests -> the thread in exchange_with_abandon]
    canceller,  \* [Requests -> the thread in cancel]
    abandoned,  \* requests whose caller has given up
    lockedBy,   \* holder of _exchange_lock
    active,     \* _active
    pipe,       \* [Requests -> handle of the exchange]
    closes      \* [Requests -> number of CloseHandle calls on it]

clientVars == <<exchange, canceller, abandoned, lockedBy, active, pipe, closes>>

ClientTypeOK ==
    /\ exchange \in [Requests -> {"idle", "locked", "connected", "exchanging",
                                  "leaving", "exiting", "done"}]
    /\ canceller \in [Requests -> {"idle", "taken", "cancelled", "failed", "done"}]
    /\ abandoned \subseteq Requests
    /\ {lockedBy, active} \subseteq Requests \cup {NoRequest}
    /\ pipe \in [Requests -> {"none", "open", "closed"}]
    /\ closes \in [Requests -> Nat]

ClientInit ==
    /\ exchange = [r \in Requests |-> "idle"]
    /\ canceller = [r \in Requests |-> "idle"]
    /\ abandoned = {}
    /\ lockedBy = NoRequest /\ active = NoRequest
    /\ pipe = [r \in Requests |-> "none"]
    /\ closes = [r \in Requests |-> 0]

(* NamedPipeClient.__exit__.                                               *)
Exit(r) ==
    /\ pipe' = [pipe EXCEPT ![r] = "closed"]
    /\ closes' = [closes EXCEPT ![r] = @ + 1]

(* The with statement of the exchange lock is left.                        *)
Leave(r) ==
    /\ exchange' = [exchange EXCEPT ![r] = "done"]
    /\ lockedBy' = NoRequest

TakeLock(r) ==
    /\ exchange[r] = "idle"
    /\ lockedBy = NoRequest
    /\ lockedBy' = r
    /\ exchange' = [exchange EXCEPT ![r] = "locked"]
    /\ UNCHANGED <<canceller, abandoned, active, pipe, closes>>

(* A request abandoned behind the lock does not open a handle.             *)
OpenPipe(r) ==
    /\ exchange[r] = "locked"
    /\ \/ /\ r \notin abandoned
          /\ pipe' = [pipe EXCEPT ![r] = "open"]
          /\ exchange' = [exchange EXCEPT ![r] = "connected"]
          /\ UNCHANGED lockedBy
       \/ /\ Leave(r)                 \* abandoned, or the connect fails
          /\ UNCHANGED pipe
    /\ UNCHANGED <<canceller, abandoned, active, closes>>

(* One abandoned during the connect closes its own handle, any other       *)
(* becomes the active exchange.                                            *)
Activate(r) ==
    /\ exchange[r] = "connected"
    /\ \/ /\ r \in abandoned
          /\ Exit(r)
          /\ Leave(r)
          /\ UNCHANGED active
       \/ /\ r \notin abandoned
          /\ active' = r
          /\ exchange' = [exchange EXCEPT ![r] = "exchanging"]
          /\ UNCHANGED <<lockedBy, pipe, closes>>
    /\ UNCHANGED <<canceller, abandoned>>

(* Write, read and correlation end, with a response or an error (a closed  *)
(* handle is ERROR_INVALID_HANDLE): the finally clause runs.               *)
Exchanged(r) ==
    /\ exchange[r] = "exchanging"
    /\ exchange' = [exchange EXCEPT ![r] = "leaving"]
    /\ UNCHANGED <<canceller, abandoned, lockedBy, active, pipe, closes>>

(* _release: the handle is left to a canceller that took it.               *)
Release(r) ==
    /\ exchange[r] = "leaving"
    /\ \/ /\ active # r
          /\ Leave(r)
          /\ UNCHANGED active
       \/ /\ active = r
          /\ active' = NoRequest
          /\ exchange' = [exchange EXCEPT ![r] = "exiting"]
          /\ UNCHANGED lockedBy
    /\ UNCHANGED <<canceller, abandoned, pipe, closes>>

ReleaseExit(r) ==
    /\ exchange[r] = "exiting"
    /\ Exit(r)
    /\ Leave(r)
    /\ UNCHANGED <<canceller, abandoned, active>>

(* The dispatcher abandons the call, and then calls cancel once.           *)
Abandon(r) ==
    /\ r \notin abandoned
    /\ abandoned' = abandoned \cup {r}
    /\ UNCHANGED <<exchange, canceller, lockedBy, active, pipe, closes>>

CancelTake(r) ==
    /\ r \in abandoned
    /\ canceller[r] = "idle"
    /\ \/ /\ active = r
          /\ active' = NoRequest
          /\ canceller' = [canceller EXCEPT ![r] = "taken"]
       \/ /\ active # r
          /\ canceller' = [canceller EXCEPT ![r] = "done"]
          /\ UNCHANGED active
    /\ UNCHANGED <<exchange, abandoned, lockedBy, pipe, closes>>

(* _cancel_synchronous_io: OpenThread or CancelSynchronousIo may raise,    *)
(* and then the handle is not closed by anybody.                           *)
CancelIo(r) ==
    /\ canceller[r] = "taken"
    /\ \E result \in {"cancelled", "failed"} :
         canceller' = [canceller EXCEPT ![r] = result]
    /\ UNCHANGED <<exchange, abandoned, lockedBy, active, pipe, closes>>

CancelExit(r) ==
    /\ canceller[r] = "cancelled"
    /\ Exit(r)
    /\ canceller' = [canceller EXCEPT ![r] = "done"]
    /\ UNCHANGED <<exchange, abandoned, lockedBy, active>>

ClientNext ==
    \E r \in Requests :
        \/ TakeLock(r) \/ OpenPipe(r) \/ Activate(r) \/ Exchanged(r)
        \/ Release(r) \/ ReleaseExit(r)
        \/ Abandon(r) \/ CancelTake(r) \/ CancelIo(r) \/ CancelExit(r)
-----------------------------------------------------------------------------
(* The handle of an exchange is closed by exactly one thread: never twice  *)
(* (the number may have been reused), and not left open once both threads  *)
(* are through, unless cancelling the thread's I/O itself failed (cancel   *)
(* against _release).                                                      *)
ClosedOnce ==
    \A r \in Requests :
        /\ closes[r] <= 1
        /\ (/\ exchange[r] = "done"
            /\ canceller[r] \notin {"taken", "cancelled", "failed"})
           => pipe[r] # "open"
=============================================================================
