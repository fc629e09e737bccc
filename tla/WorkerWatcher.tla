--------------------------- MODULE WorkerWatcher ---------------------------
(***************************************************************************)
(* The Gateway's watcher of the Worker pipe: the thread that connects,     *)
(* registers and serves one connection after the other, the registry it    *)
(* shares with the dispatcher, and close()/disconnect() called from other  *)
(* threads.  Connections are numbered in the order they are opened; 0 is   *)
(* no connection.                                                          *)
(***************************************************************************)
EXTENDS Naturals

CONSTANTS
    MaxPipes,       \* bound: pipe handles opened in a behaviour
    MaxGeneration,  \* bound: generations (runtimes) of the Worker
    OfflineAfter,   \* heartbeat age, in ticks, at which the Worker is offline
    MaxDisconnects  \* bound: calls of disconnect() and close()

ASSUME WatcherAssumption ==
    /\ MaxPipes \in Nat /\ MaxGeneration \in Nat
    /\ OfflineAfter \in Nat \ {0} /\ MaxDisconnects \in Nat

Pipes == 1..MaxPipes

VARIABLES
    watcher,    \* where the watcher's thread is in run()
    mine,       \* the connection it is setting up or serving
    fin,        \* the connection its finally clause has found
    current,    \* self._connection
    handle,     \* [Pipes -> state of the pipe handle]
    generation, \* [Pipes -> generation announced in the registration]
    workerGen,  \* generation of the Worker that runs now
    registry,   \* connection in WorkerRegistry
    age,        \* time since its last heartbeat
    stopping,   \* _stop
    retry,      \* _retry
    killer,     \* a thread in disconnect()
    victim,     \* the connection it took
    kills       \* calls of disconnect() so far

registryVars == <<registry, age>>
killerVars == <<killer, victim, kills, stopping>>
watcherVars == <<watcher, mine, fin, current, handle, generation, workerGen,
                 registryVars, retry, killerVars>>

WatcherTypeOK ==
    /\ watcher \in {"loop", "connecting", "hello", "registering", "registered",
                    "serving", "reading", "final", "disconnecting", "closing",
                    "clearing", "waiting", "ended"}
    /\ {mine, fin, current, registry, victim} \subseteq 0..MaxPipes
    /\ handle \in [Pipes -> {"none", "open", "closed"}]
    /\ generation \in [Pipes -> 0..MaxGeneration]
    /\ workerGen \in 0..MaxGeneration
    /\ age \in 0..OfflineAfter
    /\ stopping \in BOOLEAN /\ retry \in BOOLEAN
    /\ killer \in {"idle", "called", "took", "unregistered", "waking"}
    /\ kills \in 0..MaxDisconnects

WatcherInit ==
    /\ watcher = "loop" /\ mine = 0 /\ fin = 0 /\ current = 0
    /\ handle = [k \in Pipes |-> "none"]
    /\ generation = [k \in Pipes |-> 0]
    /\ workerGen = 0
    /\ registry = 0 /\ age = 0
    /\ stopping = FALSE /\ retry = FALSE
    /\ killer = "idle" /\ victim = 0 /\ kills = 0

(* NamedPipeClient.__exit__, and _GatewayConnection.close, which does      *)
(* nothing the second time.                                                *)
Closed(k) == [handle EXCEPT ![k] = "closed"]

Go(pc) == watcher' = pc
-----------------------------------------------------------------------------
(* Mutant: the watcher forgets to look at _stop.                           *)
LoopAgain ==
    /\ watcher = "loop"
    /\ Go("connecting")
    /\ UNCHANGED <<mine, fin, current, handle, generation, workerGen,
                   registryVars, retry, killerVars>>

Loop ==
    /\ watcher = "loop"
    /\ Go(IF stopping THEN "ended" ELSE "connecting")
    /\ UNCHANGED <<mine, fin, current, handle, generation, workerGen,
                   registryVars, retry, killerVars>>

(* connect_named_pipe_client: a handle, or an OSError or pywin32 error.    *)
ConnectPipe ==
    /\ watcher = "connecting"
    /\ \/ /\ Go("final")
          /\ UNCHANGED <<mine, handle>>
       \/ \E k \in Pipes :
            /\ handle[k] = "none" /\ \A j \in 1..(k - 1) : handle[j] # "none"
            /\ Go("hello")
            /\ mine' = k
            /\ handle' = [handle EXCEPT ![k] = "open"]
    /\ UNCHANGED <<fin, current, generation, workerGen, registryVars, retry,
                   killerVars>>

(* Hello, registration message and the check of the pipe's DACL against    *)
(* the bound SID; on any error the finally clause closes the handle, which *)
(* no connection owns yet.                                                 *)
Handshake ==
    /\ watcher = "hello"
    /\ \/ /\ Go("registering")
          /\ generation' = [generation EXCEPT ![mine] = workerGen]
          /\ UNCHANGED handle
       \/ /\ Go("final")
          /\ handle' = Closed(mine)
          /\ UNCHANGED generation
    /\ UNCHANGED <<mine, fin, current, workerGen, registryVars, retry, killerVars>>

(* accept_registration: the registered Worker is not older.                *)
Conflict == registry # 0 /\ generation[mine] <= generation[registry]

(* Mutant: the ownership of the pipe is given up before it is registered.  *)
RegisterEarly ==
    /\ watcher = "registering"
    /\ \/ /\ ~Conflict
          /\ registry' = mine /\ age' = 0
          /\ Go("registered")
       \/ /\ Conflict
          /\ Go("final")
          /\ UNCHANGED registryVars
    /\ UNCHANGED <<mine, fin, current, handle, generation, workerGen, retry,
                   killerVars>>

(* WorkerRegistry.register: a Worker that is already registered is refused *)
(* with its own or an older generation.                                    *)
Register ==
    /\ watcher = "registering"
    /\ \/ /\ ~Conflict
          /\ registry' = mine /\ age' = 0
          /\ Go("registered")
          /\ UNCHANGED handle
       \/ /\ Conflict
          /\ Go("final")
          /\ handle' = Closed(mine)
          /\ UNCHANGED registryVars
    /\ UNCHANGED <<mine, fin, current, generation, workerGen, retry, killerVars>>

(* self._connection = connection, after the registration.                  *)
Publish ==
    /\ watcher = "registered"
    /\ current' = mine
    /\ Go("serving")
    /\ UNCHANGED <<mine, fin, handle, generation, workerGen, registryVars,
                   retry, killerVars>>

Serve ==
    /\ watcher = "serving"
    /\ Go(IF stopping THEN "final" ELSE "reading")
    /\ UNCHANGED <<mine, fin, current, handle, generation, workerGen,
                   registryVars, retry, killerVars>>

(* The heartbeat carries the identity of the registered Worker.            *)
Registered == registry # 0 /\ generation[registry] = generation[mine]

(* A heartbeat of the registered Worker renews it; any other is stale and  *)
(* ends the connection.                                                    *)
ReadHeartbeat ==
    /\ watcher = "reading"
    /\ handle[mine] = "open"
    /\ \/ /\ Registered
          /\ age' = 0
          /\ Go("serving")
       \/ /\ ~Registered
          /\ Go("final")
          /\ UNCHANGED age
    /\ UNCHANGED <<mine, fin, current, handle, generation, workerGen, registry,
                   retry, killerVars>>

(* The read times out after 15 s, fails, or brings what is not allowed.    *)
ReadFails ==
    /\ watcher = "reading"
    /\ Go("final")
    /\ UNCHANGED <<mine, fin, current, handle, generation, workerGen,
                   registryVars, retry, killerVars>>

(* The finally clause of run().                                            *)
Finally ==
    /\ watcher = "final"
    /\ fin' = current
    /\ Go(IF current = 0 THEN "waiting" ELSE "disconnecting")
    /\ UNCHANGED <<mine, current, handle, generation, workerGen, registryVars,
                   retry, killerVars>>

(* WorkerRegistry.disconnect: only the client that is still registered.    *)
Unregistered(k) == IF registry = k THEN 0 ELSE registry

FinallyDisconnect ==
    /\ watcher = "disconnecting"
    /\ registry' = Unregistered(fin)
    /\ Go("closing")
    /\ UNCHANGED <<mine, fin, current, handle, generation, workerGen, age,
                   retry, killerVars>>

FinallyClose ==
    /\ watcher = "closing"
    /\ handle' = Closed(fin)
    /\ Go("clearing")
    /\ UNCHANGED <<mine, fin, current, generation, workerGen, registryVars,
                   retry, killerVars>>

FinallyClear ==
    /\ watcher = "clearing"
    /\ current' = IF current = fin THEN 0 ELSE current
    /\ Go("waiting")
    /\ UNCHANGED <<mine, fin, handle, generation, workerGen, registryVars,
                   retry, killerVars>>

(* _retry.wait(delay): woken by disconnect, or after the delay.            *)
Retry ==
    /\ watcher = "waiting"
    /\ retry' = FALSE
    /\ Go("loop")
    /\ UNCHANGED <<mine, fin, current, handle, generation, workerGen,
                   registryVars, killerVars>>
-----------------------------------------------------------------------------
(* close() sets _stop and calls disconnect(), which others may call alone. *)
Call ==
    /\ killer = "idle" /\ kills < MaxDisconnects
    /\ killer' = "called"
    /\ kills' = kills + 1
    /\ stopping' \in {stopping, TRUE}
    /\ UNCHANGED <<watcher, mine, fin, current, handle, generation, workerGen,
                   registryVars, retry, victim>>

TakeConnection ==
    /\ killer = "called"
    /\ victim' = current
    /\ current' = 0
    /\ killer' = IF current = 0 THEN "waking" ELSE "took"
    /\ UNCHANGED <<watcher, mine, fin, handle, generation, workerGen,
                   registryVars, retry, kills, stopping>>

Unregister ==
    /\ killer = "took"
    /\ registry' = Unregistered(victim)
    /\ killer' = "unregistered"
    /\ UNCHANGED <<watcher, mine, fin, current, handle, generation, workerGen,
                   age, retry, victim, kills, stopping>>

CloseTaken ==
    /\ killer = "unregistered"
    /\ handle' = Closed(victim)
    /\ killer' = "waking"
    /\ UNCHANGED <<watcher, mine, fin, current, generation, workerGen,
                   registryVars, retry, victim, kills, stopping>>

WakeWatcher ==
    /\ killer = "waking"
    /\ retry' = TRUE
    /\ killer' = "idle"
    /\ UNCHANGED <<watcher, mine, fin, current, handle, generation, workerGen,
                   registryVars, victim, kills, stopping>>
-----------------------------------------------------------------------------
(* A request thread whose write times out closes the registered connection.*)
WriteCloses ==
    /\ registry # 0 /\ handle[registry] = "open"
    /\ handle' = Closed(registry)
    /\ UNCHANGED <<watcher, mine, fin, current, generation, workerGen,
                   registryVars, retry, killerVars>>

Tick ==
    /\ registry # 0 /\ age < OfflineAfter
    /\ age' = age + 1
    /\ UNCHANGED <<watcher, mine, fin, current, handle, generation, workerGen,
                   registry, retry, killerVars>>

(* WorkerRegistry.current and pipe_acl_state drop a connection whose       *)
(* heartbeats stopped, behind the watcher's back.                          *)
Expire ==
    /\ registry # 0 /\ age = OfflineAfter
    /\ registry' = 0
    /\ UNCHANGED <<watcher, mine, fin, current, handle, generation, workerGen,
                   age, retry, killerVars>>

(* The watchdog of the Worker builds a new runtime.                        *)
NewWorker ==
    /\ workerGen < MaxGeneration
    /\ workerGen' = workerGen + 1
    /\ UNCHANGED <<watcher, mine, fin, current, handle, generation,
                   registryVars, retry, killerVars>>

WatcherStep ==
    \/ Loop \/ ConnectPipe \/ Handshake \/ Register \/ Publish \/ Serve
    \/ ReadHeartbeat \/ ReadFails
    \/ Finally \/ FinallyDisconnect \/ FinallyClose \/ FinallyClear \/ Retry

KillerStep == TakeConnection \/ Unregister \/ CloseTaken \/ WakeWatcher

WatcherNext ==
    \/ WatcherStep \/ KillerStep
    \/ Call \/ WriteCloses \/ Tick \/ Expire \/ NewWorker
-----------------------------------------------------------------------------
(* Who will still close connection k, and unregister it.                   *)
Setting(k) == mine = k /\ watcher \in {"hello", "registering", "registered"}
WillUnregister(k) ==
    \/ Setting(k)
    \/ current = k
    \/ killer = "took" /\ victim = k
    \/ watcher = "disconnecting" /\ fin = k
WillClose(k) ==
    \/ WillUnregister(k)
    \/ killer = "unregistered" /\ victim = k
    \/ watcher = "closing" /\ fin = k

(* However close(), disconnect(), expiry, conflicts and the watcher's own  *)
(* errors interleave, every open pipe handle has a thread that is going to *)
(* close it, and every registered connection one that is going to          *)
(* unregister it (ownership_transferred, run's finally, disconnect).       *)
NoOrphan ==
    /\ \A k \in Pipes : handle[k] = "open" => WillClose(k)
    /\ registry # 0 => WillUnregister(registry)

(* After close() the watcher's thread ends, no handle stays open and no    *)
(* connection registered: run_gateway_server cannot finish before, since   *)
(* it waits for the thread (GatewayWorkerWatcher.close, run).              *)
WatcherStops ==
    stopping ~> /\ watcher = "ended"
                /\ registry = 0
                /\ \A k \in Pipes : handle[k] # "open"
=============================================================================
