------------------------ MODULE EmergencyStopProofs ------------------------
(***************************************************************************)
(* Proofs about EmergencyStop for every number of threads, runtimes, key   *)
(* presses and resets.                                                     *)
(***************************************************************************)
EXTENDS EmergencyStop, TLAPS

(* Every step keeps the types.                                             *)
LEMMA TypeStep ==
    TypeOK /\ MainInv /\ [Next]_vars => TypeOK'
<1> SUFFICES ASSUME TypeOK /\ MainInv, [Next]_vars PROVE TypeOK'
  OBVIOUS
<1> USE StopAssumption DEF TypeOK, Runtimes, Outside, Waiting, Inside, KeyHeld
<1>1. ASSUME NEW t \in Threads, Arrive(t) PROVE TypeOK'
  BY <1>1 DEF Arrive, Goto, main, keys, gates
<1>2. ASSUME NEW t \in Threads, TryEnter(t) PROVE TypeOK'
  BY <1>2 DEF TryEnter, Goto, main, keys, gates
<1>3. ASSUME NEW t \in Threads, WaitTimeout(t) PROVE TypeOK'
  BY <1>3 DEF WaitTimeout, Goto, main, keys, gates
<1>4. ASSUME NEW t \in Threads, Validate(t) PROVE TypeOK'
  BY <1>4 DEF Validate, Goto, main, keys, gates
<1>5. ASSUME NEW t \in Threads, Recheck(t) PROVE TypeOK'
  BY <1>5 DEF Recheck, Goto, main, keys, gates
<1>6. ASSUME NEW t \in Threads, BoundaryCheck(t) PROVE TypeOK'
  BY <1>6 DEF BoundaryCheck, Goto, main, keys, gates
<1>7. ASSUME NEW t \in Threads, SendInput(t) PROVE TypeOK'
  <2>1. pc' \in [Threads -> Outside \cup Waiting \cup Inside]
    BY <1>7 DEF SendInput, Goto
  <2>2. late' = late \/ late' = [late EXCEPT ![rt[t]] = @ + 1]
    BY <1>7 DEF SendInput
  <2>3. late \in [Runtimes -> Nat]
    OBVIOUS
  <2>4. ASSUME late' = [late EXCEPT ![rt[t]] = @ + 1] PROVE late' \in [Runtimes -> Nat]
    <3>1. ASSUME NEW r \in Runtimes PROVE late[r] \in Nat /\ late[r] + 1 \in Nat
      BY <2>3
    <3> QED
      BY ONLY <2>3, <2>4, <3>1
  <2> QED
    BY <1>7, <2>1, <2>2, <2>4 DEF SendInput, main, keys, gates
<1>8. ASSUME NEW t \in Threads, Leave(t) PROVE TypeOK'
  BY <1>8 DEF Leave, Notified, main, keys, gates
<1>9. ASSUME NEW g \in Runtimes, KeyBoot(g) PROVE TypeOK'
  BY <1>9 DEF KeyBoot, KeyGoto, main, keys, gates
<1>10. ASSUME NEW g \in Runtimes, KeyRegister(g) PROVE TypeOK'
  <2>1. hk' \in [Runtimes -> KeyHeld \cup {"off", "booting", "registering", "ended"}]
    BY <1>10 DEF KeyRegister, KeyGoto, main, keys, gates
  <2>2. queue' \in [Runtimes -> Seq({"hotkey", "quit"})]
    <3>1. queue' = queue \/ queue' = [queue EXCEPT ![g] = <<>>]
      BY <1>10 DEF KeyRegister, keys
    <3>2. queue \in [Runtimes -> Seq({"hotkey", "quit"})] /\ <<>> \in Seq({"hotkey", "quit"})
      OBVIOUS
    <3> QED
      BY ONLY <3>1, <3>2
  <2>3. failed' \in [Runtimes -> BOOLEAN]
    BY <1>10 DEF KeyRegister, KeyGoto, main, keys, gates
  <2> QED
    BY <1>10, <2>1, <2>2, <2>3 DEF KeyRegister, KeyGoto, main, keys, gates
<1>11. ASSUME NEW g \in Runtimes, KeyMessage(g) PROVE TypeOK'
  <2>1. hk' \in [Runtimes -> KeyHeld \cup {"off", "booting", "registering", "ended"}]
    BY <1>11 DEF KeyMessage, KeyGoto, main, keys, gates
  <2>2. queue' \in [Runtimes -> Seq({"hotkey", "quit"})]
    <3>1. queue' = queue \/ (queue[g] # <<>> /\ queue' = [queue EXCEPT ![g] = Tail(@)])
      BY <1>11 DEF KeyMessage, keys
    <3>2. queue \in [Runtimes -> Seq({"hotkey", "quit"})]
      OBVIOUS
    <3>3. queue[g] # <<>> => Tail(queue[g]) \in Seq({"hotkey", "quit"})
      BY <3>2
    <3> QED
      BY ONLY <3>1, <3>2, <3>3
  <2> QED
    BY <1>11, <2>1, <2>2 DEF KeyMessage, KeyGoto, main, keys, gates
<1>12. ASSUME NEW g \in Runtimes, KeyDisable(g) PROVE TypeOK'
  <2>1. marker' \in BOOLEAN
    BY <1>12 DEF KeyDisable, KeyGoto, Disable, main, keys, gates
  <2>2. late' \in [Runtimes -> Nat]
    BY <1>12 DEF KeyDisable, KeyGoto, Disable, main, keys, gates
  <2>3. hk' \in [Runtimes -> KeyHeld \cup {"off", "booting", "registering", "ended"}]
    BY <1>12 DEF KeyDisable, KeyGoto, Disable, main, keys, gates
  <2> QED
    BY <1>12, <2>1, <2>2, <2>3 DEF KeyDisable, KeyGoto, Disable, main, keys, gates
<1>13. ASSUME NEW g \in Runtimes, KeyNotify(g) PROVE TypeOK'
  BY <1>13 DEF KeyNotify, KeyGoto, Notified, main, keys, gates
<1>14. ASSUME NEW g \in Runtimes, KeyAudit(g) PROVE TypeOK'
  BY <1>14 DEF KeyAudit, KeyGoto, main, keys, gates
<1>15. ASSUME NEW g \in Runtimes, KeyFail(g) PROVE TypeOK'
  <2>1. marker' \in BOOLEAN
    BY <1>15 DEF KeyFail, KeyGoto, Disable, main, keys, gates
  <2>2. late' \in [Runtimes -> Nat]
    BY <1>15 DEF KeyFail, KeyGoto, Disable, main, keys, gates
  <2>3. hk' \in [Runtimes -> KeyHeld \cup {"off", "booting", "registering", "ended"}]
    BY <1>15 DEF KeyFail, KeyGoto, Disable, main, keys, gates
  <2>4. failed' \in [Runtimes -> BOOLEAN]
    BY <1>15 DEF KeyFail, KeyGoto, Disable, main, keys, gates
  <2> QED
    BY <1>15, <2>1, <2>2, <2>3, <2>4 DEF KeyFail, KeyGoto, Disable, main, keys, gates
<1>16. ASSUME NEW g \in Runtimes, KeyFailNotify(g) PROVE TypeOK'
  BY <1>16 DEF KeyFailNotify, KeyGoto, Notified, main, keys, gates
<1>17. ASSUME NEW g \in Runtimes, KeyUnregister(g) PROVE TypeOK'
  <2>1. hk' \in [Runtimes -> KeyHeld \cup {"off", "booting", "registering", "ended"}]
    BY <1>17 DEF KeyUnregister, KeyGoto, main, keys, gates
  <2>2. queue' \in [Runtimes -> Seq({"hotkey", "quit"})]
    BY <1>17 DEF KeyUnregister, KeyGoto, main, keys, gates
  <2> QED
    BY <1>17, <2>1, <2>2 DEF KeyUnregister, KeyGoto, main, keys, gates
<1>18. ASSUME NEW g \in Runtimes, Press(g) PROVE TypeOK'
  BY <1>18 DEF Press, main, keys, gates
<1>19. CASE NextRuntime
  <2>1. cur' \in 0..MaxRuntimes
    BY <1>19 DEF NextRuntime, main, keys, gates
  <2>2. hk' \in [Runtimes -> KeyHeld \cup {"off", "booting", "registering", "ended"}]
    BY <1>19 DEF NextRuntime, main, keys, gates
  <2> QED
    BY <1>19, <2>1, <2>2 DEF NextRuntime, main, keys, gates
<1>20. CASE StartReady
  BY <1>20 DEF StartReady, Ready, Error, main, keys, gates
<1>21. CASE StartFails
  BY <1>21 DEF StartFails, Ready, Error, main, keys, gates
<1>22. CASE ServerReturns
  BY <1>22 DEF ServerReturns, main, keys, gates
<1>23. CASE CloseKey
  BY <1>23 DEF CloseKey, MainInv, Built, main, keys, gates
<1>24. CASE Joined
  BY <1>24 DEF Joined, MainInv, Built, main, keys, gates
<1>25. CASE CloseRuntime
  BY <1>25 DEF CloseRuntime, main, keys, gates
<1>26. CASE LocalReset
  <2>1. marker' \in BOOLEAN
    BY <1>26 DEF LocalReset, main, keys, gates
  <2>2. resets' \in 0..MaxResets
    BY <1>26 DEF LocalReset, main, keys, gates
  <2> QED
    BY <1>26, <2>1, <2>2 DEF LocalReset, main, keys, gates
<1>27. CASE StopWorker
  BY <1>27 DEF StopWorker, main, keys, gates
<1>28. CASE ProcessEnds
  <2>1. hk' \in [Runtimes -> KeyHeld \cup {"off", "booting", "registering", "ended"}]
    BY <1>28 DEF ProcessEnds, main, keys, gates
  <2>2. queue' \in [Runtimes -> Seq({"hotkey", "quit"})]
    BY <1>28 DEF ProcessEnds, main, keys, gates
  <2>3. pc' \in [Threads -> Outside \cup Waiting \cup Inside]
    BY <1>28 DEF ProcessEnds, main, keys, gates
  <2>4. occupied' \in [Runtimes -> BOOLEAN]
    BY <1>28 DEF ProcessEnds, main, keys, gates
  <2>5. failed' \in [Runtimes -> BOOLEAN]
    BY <1>28 DEF ProcessEnds, main, keys, gates
  <2>6. UNCHANGED <<marker, cur, rt, presses, resets, late>>
    BY <1>28 DEF ProcessEnds
  <2>7. phase' = "idle" /\ closes' = 0 /\ stop' = FALSE
    BY <1>28 DEF ProcessEnds
  <2>8. /\ phase' \in {"idle", "starting", "serving", "closing", "joining", "closed"}
        /\ closes' \in 0..2
    BY ONLY <2>7
  <2>11. stop' \in BOOLEAN
    BY ONLY <2>7
  <2>9. marker' \in BOOLEAN
    BY <2>6
  <2>10. /\ cur' \in 0..MaxRuntimes
         /\ rt' \in [Threads -> Runtimes \cup {0}]
         /\ presses' \in 0..MaxPresses
         /\ resets' \in 0..MaxResets
         /\ late' \in [Runtimes -> Nat]
    BY <2>6
  <2> QED
    BY ONLY <2>1, <2>2, <2>3, <2>4, <2>5, <2>8, <2>9, <2>10, <2>11 DEF TypeOK
<1>29. CASE UNCHANGED vars
  BY <1>29 DEF vars, main, keys, gates
<1> QED
  BY <1>1, <1>2, <1>3, <1>4, <1>5, <1>6, <1>7, <1>8, <1>9, <1>10, <1>11, <1>12,
     <1>13, <1>14, <1>15, <1>16, <1>17, <1>18, <1>19, <1>20, <1>21, <1>22, <1>23,
     <1>24, <1>25, <1>26, <1>27, <1>28, <1>29
     DEF Next, Request, HotkeyThread, Watchdog, Environment

(* Only the watchdog asks the hot key thread to quit.                      *)
LEMMA MainStep ==
    TypeOK /\ MainInv /\ [Next]_vars => MainInv'
<1> SUFFICES ASSUME TypeOK /\ MainInv, [Next]_vars PROVE MainInv'
  OBVIOUS
<1> USE StopAssumption DEF TypeOK, MainInv, Future, Built, NoQuit, EndFlagged,
   Unstarted, Runtimes, Outside, Waiting, Inside, KeyHeld
<1>1. ASSUME NEW t \in Threads, Arrive(t) PROVE MainInv'
  BY <1>1 DEF Arrive, Goto, main, keys, gates
<1>2. ASSUME NEW t \in Threads, TryEnter(t) PROVE MainInv'
  BY <1>2 DEF TryEnter, Goto, main, keys, gates
<1>3. ASSUME NEW t \in Threads, WaitTimeout(t) PROVE MainInv'
  BY <1>3 DEF WaitTimeout, Goto, main, keys, gates
<1>4. ASSUME NEW t \in Threads, Validate(t) PROVE MainInv'
  BY <1>4 DEF Validate, Goto, main, keys, gates
<1>5. ASSUME NEW t \in Threads, Recheck(t) PROVE MainInv'
  BY <1>5 DEF Recheck, Goto, main, keys, gates
<1>6. ASSUME NEW t \in Threads, BoundaryCheck(t) PROVE MainInv'
  BY <1>6 DEF BoundaryCheck, Goto, main, keys, gates
<1>7. ASSUME NEW t \in Threads, SendInput(t) PROVE MainInv'
  BY <1>7 DEF SendInput, Goto, main, keys, gates
<1>8. ASSUME NEW t \in Threads, Leave(t) PROVE MainInv'
  BY <1>8 DEF Leave, Notified, main, keys, gates
<1>9. ASSUME NEW g \in Runtimes, KeyBoot(g) PROVE MainInv'
  BY <1>9 DEF KeyBoot, KeyGoto, main, keys, gates
<1>10. ASSUME NEW g \in Runtimes, KeyRegister(g) PROVE MainInv'
  <2>1. Future'
    BY <1>10 DEF KeyRegister, KeyGoto, main, keys, gates
  <2>2. Built'
    BY <1>10 DEF KeyRegister, KeyGoto, main, keys, gates
  <2>3. NoQuit'
    <3>1. phase' = phase /\ cur' = cur
      BY <1>10 DEF KeyRegister, main
    <3>2. queue'[cur] = queue[cur] \/ queue'[cur] = <<>>
      BY <1>10 DEF KeyRegister, keys
    <3>3. <<>> \in Seq({"hotkey"})
      OBVIOUS
    <3> QED
      BY <3>1, <3>2, <3>3
  <2>4. EndFlagged'
    BY <1>10 DEF KeyRegister, KeyGoto, main, keys, gates
  <2> QED
    BY ONLY <2>1, <2>2, <2>3, <2>4 DEF MainInv
<1>11. ASSUME NEW g \in Runtimes, KeyMessage(g) PROVE MainInv'
  <2>1. Future'
    BY <1>11 DEF KeyMessage, KeyGoto, main, keys, gates
  <2>2. Built'
    BY <1>11 DEF KeyMessage, KeyGoto, main, keys, gates
  <2>3. NoQuit'
    <3> SUFFICES ASSUME phase \in {"starting", "serving"}
                 PROVE queue'[cur] \in Seq({"hotkey"})
      BY <1>11 DEF KeyMessage, main
    <3> DEFINE q == queue[cur]
    <3>1. cur \in Runtimes /\ q \in Seq({"hotkey"})
      OBVIOUS
    <3>2. queue'[cur] = q \/ (q # <<>> /\ queue'[cur] = Tail(q))
      BY <1>11, <3>1 DEF KeyMessage, keys
    <3> HIDE DEF q
    <3>3. q # <<>> => Tail(q) \in Seq({"hotkey"})
      BY <3>1
    <3> QED
      BY ONLY <3>1, <3>2, <3>3
  <2>4. EndFlagged'
    <3> SUFFICES ASSUME phase \in {"starting", "serving"}, hk'[cur] \in {"dying", "ended"}
                 PROVE failed[cur]
      BY <1>11 DEF KeyMessage, main
    <3> DEFINE q == queue[cur]
    <3>1. cur \in Runtimes /\ q \in Seq({"hotkey"})
      OBVIOUS
    <3>2. hk'[cur] = hk[cur] \/ (q # <<>> /\ Head(q) = "quit")
      BY <1>11, <3>1 DEF KeyMessage, KeyGoto
    <3>3. hk[cur] \in {"dying", "ended"} => failed[cur]
      OBVIOUS
    <3> HIDE DEF q
    <3>4. q # <<>> => Head(q) # "quit"
      BY ONLY <3>1
    <3> QED
      BY ONLY <3>2, <3>3, <3>4, hk'[cur] \in {"dying", "ended"}
  <2> QED
    BY ONLY <2>1, <2>2, <2>3, <2>4 DEF MainInv
<1>12. ASSUME NEW g \in Runtimes, KeyDisable(g) PROVE MainInv'
  BY <1>12 DEF KeyDisable, KeyGoto, Disable, main, keys, gates
<1>13. ASSUME NEW g \in Runtimes, KeyNotify(g) PROVE MainInv'
  BY <1>13 DEF KeyNotify, KeyGoto, Notified, main, keys, gates
<1>14. ASSUME NEW g \in Runtimes, KeyAudit(g) PROVE MainInv'
  BY <1>14 DEF KeyAudit, KeyGoto, main, keys, gates
<1>15. ASSUME NEW g \in Runtimes, KeyFail(g) PROVE MainInv'
  BY <1>15 DEF KeyFail, KeyGoto, Disable, main, keys, gates
<1>16. ASSUME NEW g \in Runtimes, KeyFailNotify(g) PROVE MainInv'
  BY <1>16 DEF KeyFailNotify, KeyGoto, Notified, main, keys, gates
<1>17. ASSUME NEW g \in Runtimes, KeyUnregister(g) PROVE MainInv'
  <2>1. Future'
    BY <1>17 DEF KeyUnregister, KeyGoto, main, keys, gates
  <2>2. Built'
    BY <1>17 DEF KeyUnregister, KeyGoto, main, keys, gates
  <2>3. NoQuit'
    BY <1>17 DEF KeyUnregister, KeyGoto, main, keys, gates
  <2>4. EndFlagged'
    BY <1>17 DEF KeyUnregister, KeyGoto, main, keys, gates
  <2> QED
    BY ONLY <2>1, <2>2, <2>3, <2>4 DEF MainInv
<1>18. ASSUME NEW g \in Runtimes, Press(g) PROVE MainInv'
  <2>1. Future'
    BY <1>18 DEF Press, main, keys, gates
  <2>2. Built'
    BY <1>18 DEF Press, main, keys, gates
  <2>3. NoQuit'
    BY <1>18 DEF Press, main, keys, gates
  <2>4. EndFlagged'
    BY <1>18 DEF Press, main, keys, gates
  <2> QED
    BY ONLY <2>1, <2>2, <2>3, <2>4 DEF MainInv
<1>19. CASE NextRuntime
  <2>1. Future'
    <3> SUFFICES ASSUME NEW g \in Runtimes, g > cur + 1 PROVE hk'[g] = "off" /\ queue'[g] = <<>>
      BY <1>19 DEF NextRuntime
    <3>1. g > cur /\ g # cur + 1
      OBVIOUS
    <3>2. hk[g] = "off" /\ queue[g] = <<>>
      BY <3>1
    <3> QED
      BY <1>19, <3>1, <3>2 DEF NextRuntime
  <2>2. Built'
    BY <1>19 DEF NextRuntime, main, keys, gates
  <2>3. NoQuit'
    BY <1>19 DEF NextRuntime, main, keys, gates
  <2>4. EndFlagged'
    BY <1>19 DEF NextRuntime, main, keys, gates
  <2> QED
    BY ONLY <2>1, <2>2, <2>3, <2>4 DEF MainInv
<1>20. CASE StartReady
  BY <1>20 DEF StartReady, Ready, Error, main, keys, gates
<1>21. CASE StartFails
  BY <1>21 DEF StartFails, Ready, Error, main, keys, gates
<1>22. CASE ServerReturns
  BY <1>22 DEF ServerReturns, main, keys, gates
<1>23. CASE CloseKey
  BY <1>23 DEF CloseKey, main, keys, gates
<1>24. CASE Joined
  BY <1>24 DEF Joined, main, keys, gates
<1>25. CASE CloseRuntime
  BY <1>25 DEF CloseRuntime, main, keys, gates
<1>26. CASE LocalReset
  BY <1>26 DEF LocalReset, main, keys, gates
<1>27. CASE StopWorker
  BY <1>27 DEF StopWorker, main, keys, gates
<1>28. CASE ProcessEnds
  BY <1>28 DEF ProcessEnds, main, keys, gates
<1>29. CASE UNCHANGED vars
  BY <1>29 DEF vars, main, keys, gates
<1> QED
  BY <1>1, <1>2, <1>3, <1>4, <1>5, <1>6, <1>7, <1>8, <1>9, <1>10, <1>11, <1>12,
     <1>13, <1>14, <1>15, <1>16, <1>17, <1>18, <1>19, <1>20, <1>21, <1>22, <1>23,
     <1>24, <1>25, <1>26, <1>27, <1>28, <1>29
     DEF Next, Request, HotkeyThread, Watchdog, Environment

(* One request at a time holds a gate.                                     *)
LEMMA GateStep ==
    TypeOK /\ MainInv /\ GateInv /\ [Next]_vars => GateInv'
<1> SUFFICES ASSUME TypeOK /\ MainInv /\ GateInv, [Next]_vars PROVE GateInv'
  OBVIOUS
<1> USE StopAssumption DEF TypeOK, GateInv, Placed, Held, OneHolder, Unstarted,
   Runtimes, Outside, Waiting, Inside, KeyHeld
<1>1. ASSUME NEW t \in Threads, Arrive(t) PROVE GateInv'
  BY <1>1 DEF Arrive, Goto, MainInv, Built, main, keys, gates
<1>2. ASSUME NEW t \in Threads, TryEnter(t) PROVE GateInv'
  <2>1. /\ rt' = rt /\ hk' = hk
        /\ \A u \in Threads : u # t => pc'[u] = pc[u]
        /\ \/ pc'[t] \in {"done", "parked"} /\ occupied' = occupied
           \/ /\ pc'[t] = "held" /\ ~occupied[rt[t]]
              /\ occupied' = [occupied EXCEPT ![rt[t]] = TRUE]
    BY <1>2 DEF TryEnter, Goto, keys
  <2>2. rt[t] \in Runtimes /\ hk[rt[t]] \notin Unstarted
    BY <1>2 DEF TryEnter
  <2>3. Placed'
    BY <2>1, <2>2
  <2>4. CASE pc'[t] \in {"done", "parked"} /\ occupied' = occupied
    <3>1. \A u \in Threads : pc'[u] \in Inside => pc[u] \in Inside
      BY <2>1, <2>4
    <3> QED
      BY <2>1, <2>3, <2>4, <3>1
  <2>5. CASE /\ pc'[t] = "held" /\ ~occupied[rt[t]]
             /\ occupied' = [occupied EXCEPT ![rt[t]] = TRUE]
    <3>1. \A u \in Threads : u # t /\ pc'[u] \in Inside =>
            pc[u] \in Inside /\ rt[u] \in Runtimes /\ occupied[rt[u]] /\ rt[u] # rt[t]
      BY <2>1, <2>5
    <3>2. Held'
      BY <2>1, <2>2, <2>5, <3>1
    <3>3. OneHolder'
      <4> SUFFICES ASSUME NEW u \in Threads, NEW v \in Threads, u # v, rt[u] = rt[v],
                          pc'[u] \in Inside, pc'[v] \in Inside
                   PROVE FALSE
        BY <2>1
      <4>1. u # t /\ v # t
        BY <3>1
      <4> QED
        BY <3>1, <4>1
    <3> QED
      BY ONLY <2>3, <3>2, <3>3 DEF GateInv
  <2> QED
    BY <2>1, <2>4, <2>5
<1>3. ASSUME NEW t \in Threads, WaitTimeout(t) PROVE GateInv'
  BY <1>3 DEF WaitTimeout, Goto, main, keys, gates
<1>4. ASSUME NEW t \in Threads, Validate(t) PROVE GateInv'
  <2>1. Placed'
    BY <1>4 DEF Validate, Goto, main, keys, gates
  <2>2. Held'
    BY <1>4 DEF Validate, Goto, main, keys, gates
  <2>3. OneHolder'
    BY <1>4 DEF Validate, Goto, main, keys, gates
  <2> QED
    BY ONLY <2>1, <2>2, <2>3 DEF GateInv
<1>5. ASSUME NEW t \in Threads, Recheck(t) PROVE GateInv'
  <2>1. Placed'
    BY <1>5 DEF Recheck, Goto, main, keys, gates
  <2>2. Held'
    BY <1>5 DEF Recheck, Goto, main, keys, gates
  <2>3. OneHolder'
    BY <1>5 DEF Recheck, Goto, main, keys, gates
  <2> QED
    BY ONLY <2>1, <2>2, <2>3 DEF GateInv
<1>6. ASSUME NEW t \in Threads, BoundaryCheck(t) PROVE GateInv'
  <2>1. Placed'
    BY <1>6 DEF BoundaryCheck, Goto, main, keys, gates
  <2>2. Held'
    BY <1>6 DEF BoundaryCheck, Goto, main, keys, gates
  <2>3. OneHolder'
    BY <1>6 DEF BoundaryCheck, Goto, main, keys, gates
  <2> QED
    BY ONLY <2>1, <2>2, <2>3 DEF GateInv
<1>7. ASSUME NEW t \in Threads, SendInput(t) PROVE GateInv'
  BY <1>7 DEF SendInput, Goto, main, keys, gates
<1>8. ASSUME NEW t \in Threads, Leave(t) PROVE GateInv'
  BY <1>8 DEF Leave, Notified, main, keys, gates
<1>9. ASSUME NEW g \in Runtimes, KeyBoot(g) PROVE GateInv'
  BY <1>9 DEF KeyBoot, KeyGoto, main, keys, gates
<1>10. ASSUME NEW g \in Runtimes, KeyRegister(g) PROVE GateInv'
  BY <1>10 DEF KeyRegister, KeyGoto, main, keys, gates
<1>11. ASSUME NEW g \in Runtimes, KeyMessage(g) PROVE GateInv'
  BY <1>11 DEF KeyMessage, KeyGoto, main, keys, gates
<1>12. ASSUME NEW g \in Runtimes, KeyDisable(g) PROVE GateInv'
  BY <1>12 DEF KeyDisable, KeyGoto, Disable, main, keys, gates
<1>13. ASSUME NEW g \in Runtimes, KeyNotify(g) PROVE GateInv'
  BY <1>13 DEF KeyNotify, KeyGoto, Notified, main, keys, gates
<1>14. ASSUME NEW g \in Runtimes, KeyAudit(g) PROVE GateInv'
  BY <1>14 DEF KeyAudit, KeyGoto, main, keys, gates
<1>15. ASSUME NEW g \in Runtimes, KeyFail(g) PROVE GateInv'
  BY <1>15 DEF KeyFail, KeyGoto, Disable, main, keys, gates
<1>16. ASSUME NEW g \in Runtimes, KeyFailNotify(g) PROVE GateInv'
  BY <1>16 DEF KeyFailNotify, KeyGoto, Notified, main, keys, gates
<1>17. ASSUME NEW g \in Runtimes, KeyUnregister(g) PROVE GateInv'
  BY <1>17 DEF KeyUnregister, KeyGoto, main, keys, gates
<1>18. ASSUME NEW g \in Runtimes, Press(g) PROVE GateInv'
  BY <1>18 DEF Press, main, keys, gates
<1>19. CASE NextRuntime
  <2>1. Placed'
    <3>1. hk[cur + 1] = "off" /\ cur + 1 \in Runtimes
      BY <1>19 DEF NextRuntime, MainInv, Future
    <3>2. ASSUME NEW t \in Threads, pc[t] \in Waiting \cup Inside
          PROVE rt[t] \in Runtimes /\ rt[t] # cur + 1 /\ hk[rt[t]] \notin Unstarted
      BY <3>1, <3>2
    <3> QED
      BY <1>19, <3>2 DEF NextRuntime, gates
  <2>2. Held'
    BY <1>19 DEF NextRuntime, main, keys, gates
  <2>3. OneHolder'
    BY <1>19 DEF NextRuntime, main, keys, gates
  <2> QED
    BY ONLY <2>1, <2>2, <2>3 DEF GateInv
<1>20. CASE StartReady
  BY <1>20 DEF StartReady, Ready, Error, main, keys, gates
<1>21. CASE StartFails
  BY <1>21 DEF StartFails, Ready, Error, main, keys, gates
<1>22. CASE ServerReturns
  BY <1>22 DEF ServerReturns, main, keys, gates
<1>23. CASE CloseKey
  BY <1>23 DEF CloseKey, main, keys, gates
<1>24. CASE Joined
  BY <1>24 DEF Joined, main, keys, gates
<1>25. CASE CloseRuntime
  BY <1>25 DEF CloseRuntime, main, keys, gates
<1>26. CASE LocalReset
  BY <1>26 DEF LocalReset, main, keys, gates
<1>27. CASE StopWorker
  BY <1>27 DEF StopWorker, main, keys, gates
<1>28. CASE ProcessEnds
  BY <1>28 DEF ProcessEnds, main, keys, gates
<1>29. CASE UNCHANGED vars
  BY <1>29 DEF vars, main, keys, gates
<1> QED
  BY <1>1, <1>2, <1>3, <1>4, <1>5, <1>6, <1>7, <1>8, <1>9, <1>10, <1>11, <1>12,
     <1>13, <1>14, <1>15, <1>16, <1>17, <1>18, <1>19, <1>20, <1>21, <1>22, <1>23,
     <1>24, <1>25, <1>26, <1>27, <1>28, <1>29
     DEF Next, Request, HotkeyThread, Watchdog, Environment

(* A check that passed before the stop is used once.                       *)
LEMMA LateStep ==
    TypeOK /\ GateInv /\ LateInv /\ [Next]_vars => LateInv'
<1> SUFFICES ASSUME TypeOK /\ GateInv /\ LateInv, [Next]_vars PROVE LateInv'
  OBVIOUS
<1> USE StopAssumption DEF TypeOK, GateInv, Placed, OneHolder, LateInv, Unstarted,
   Runtimes, Outside, Waiting, Inside, KeyHeld
<1>1. ASSUME NEW t \in Threads, Arrive(t) PROVE LateInv'
  BY <1>1 DEF Arrive, Goto, main, keys, gates
<1>2. ASSUME NEW t \in Threads, TryEnter(t) PROVE LateInv'
  BY <1>2 DEF TryEnter, Goto, main, keys, gates
<1>3. ASSUME NEW t \in Threads, WaitTimeout(t) PROVE LateInv'
  BY <1>3 DEF WaitTimeout, Goto, main, keys, gates
<1>4. ASSUME NEW t \in Threads, Validate(t) PROVE LateInv'
  BY <1>4 DEF Validate, Goto, main, keys, gates
<1>5. ASSUME NEW t \in Threads, Recheck(t) PROVE LateInv'
  BY <1>5 DEF Recheck, Goto, main, keys, gates
<1>6. ASSUME NEW t \in Threads, BoundaryCheck(t) PROVE LateInv'
  BY <1>6 DEF BoundaryCheck, Goto, main, keys, gates
<1>7. ASSUME NEW t \in Threads, SendInput(t) PROVE LateInv'
  BY <1>7 DEF SendInput, Goto, main, keys, gates
<1>8. ASSUME NEW t \in Threads, Leave(t) PROVE LateInv'
  BY <1>8 DEF Leave, Notified, main, keys, gates
<1>9. ASSUME NEW g \in Runtimes, KeyBoot(g) PROVE LateInv'
  BY <1>9 DEF KeyBoot, KeyGoto, main, keys, gates
<1>10. ASSUME NEW g \in Runtimes, KeyRegister(g) PROVE LateInv'
  BY <1>10 DEF KeyRegister, KeyGoto, main, keys, gates
<1>11. ASSUME NEW g \in Runtimes, KeyMessage(g) PROVE LateInv'
  BY <1>11 DEF KeyMessage, KeyGoto, main, keys, gates
<1>12. ASSUME NEW g \in Runtimes, KeyDisable(g) PROVE LateInv'
  <2>1. UNCHANGED <<pc, rt>>
    BY <1>12 DEF KeyDisable, gates
  <2>2. late' = [h \in Runtimes |-> 0] \/ (marker' = marker /\ late' = late) \/ (marker /\ late' = late)
    BY <1>12 DEF KeyDisable, Disable
  <2>3. CASE late' = [h \in Runtimes |-> 0]
    BY <2>3
  <2>4. CASE late' = late /\ marker
    BY <2>1, <2>4
  <2>5. CASE late' = late /\ marker' = marker /\ ~marker
    BY <2>5
  <2> QED
    BY <2>2, <2>3, <2>4, <2>5
<1>13. ASSUME NEW g \in Runtimes, KeyNotify(g) PROVE LateInv'
  BY <1>13 DEF KeyNotify, KeyGoto, Notified, main, keys, gates
<1>14. ASSUME NEW g \in Runtimes, KeyAudit(g) PROVE LateInv'
  BY <1>14 DEF KeyAudit, KeyGoto, main, keys, gates
<1>15. ASSUME NEW g \in Runtimes, KeyFail(g) PROVE LateInv'
  <2>1. UNCHANGED <<pc, rt>>
    BY <1>15 DEF KeyFail, gates
  <2>2. late' = [h \in Runtimes |-> 0] \/ (marker' = marker /\ late' = late) \/ (marker /\ late' = late)
    BY <1>15 DEF KeyFail, Disable
  <2>3. CASE late' = [h \in Runtimes |-> 0]
    BY <2>3
  <2>4. CASE late' = late /\ marker
    BY <2>1, <2>4
  <2>5. CASE late' = late /\ marker' = marker /\ ~marker
    BY <2>5
  <2> QED
    BY <2>2, <2>3, <2>4, <2>5
<1>16. ASSUME NEW g \in Runtimes, KeyFailNotify(g) PROVE LateInv'
  BY <1>16 DEF KeyFailNotify, KeyGoto, Notified, main, keys, gates
<1>17. ASSUME NEW g \in Runtimes, KeyUnregister(g) PROVE LateInv'
  BY <1>17 DEF KeyUnregister, KeyGoto, main, keys, gates
<1>18. ASSUME NEW g \in Runtimes, Press(g) PROVE LateInv'
  BY <1>18 DEF Press, main, keys, gates
<1>19. CASE NextRuntime
  BY <1>19 DEF NextRuntime, main, keys, gates
<1>20. CASE StartReady
  BY <1>20 DEF StartReady, Ready, Error, main, keys, gates
<1>21. CASE StartFails
  BY <1>21 DEF StartFails, Ready, Error, main, keys, gates
<1>22. CASE ServerReturns
  BY <1>22 DEF ServerReturns, main, keys, gates
<1>23. CASE CloseKey
  BY <1>23 DEF CloseKey, main, keys, gates
<1>24. CASE Joined
  BY <1>24 DEF Joined, main, keys, gates
<1>25. CASE CloseRuntime
  BY <1>25 DEF CloseRuntime, main, keys, gates
<1>26. CASE LocalReset
  BY <1>26 DEF LocalReset, main, keys, gates
<1>27. CASE StopWorker
  BY <1>27 DEF StopWorker, main, keys, gates
<1>28. CASE ProcessEnds
  BY <1>28 DEF ProcessEnds, main, keys, gates
<1>29. CASE UNCHANGED vars
  BY <1>29 DEF vars, main, keys, gates
<1> QED
  BY <1>1, <1>2, <1>3, <1>4, <1>5, <1>6, <1>7, <1>8, <1>9, <1>10, <1>11, <1>12,
     <1>13, <1>14, <1>15, <1>16, <1>17, <1>18, <1>19, <1>20, <1>21, <1>22, <1>23,
     <1>24, <1>25, <1>26, <1>27, <1>28, <1>29
     DEF Next, Request, HotkeyThread, Watchdog, Environment

(* The thread that writes the marker wakes the waiters of its own gate.    *)
LEMMA KeyStep ==
    TypeOK /\ MainInv /\ GateInv /\ KeyInv /\ [Next]_vars => KeyInv'
<1> SUFFICES ASSUME TypeOK /\ MainInv /\ GateInv /\ KeyInv, [Next]_vars PROVE KeyInv'
  OBVIOUS
<1> USE StopAssumption DEF TypeOK, GateInv, Placed, KeyInv, OneOwner, Woken,
   Unstarted, Runtimes, Outside, Waiting, Inside, KeyHeld
<1>1. ASSUME NEW t \in Threads, Arrive(t) PROVE KeyInv'
  BY <1>1 DEF Arrive, Goto, main, keys, gates
<1>2. ASSUME NEW t \in Threads, TryEnter(t) PROVE KeyInv'
  BY <1>2 DEF TryEnter, Goto, main, keys, gates
<1>3. ASSUME NEW t \in Threads, WaitTimeout(t) PROVE KeyInv'
  BY <1>3 DEF WaitTimeout, Goto, main, keys, gates
<1>4. ASSUME NEW t \in Threads, Validate(t) PROVE KeyInv'
  BY <1>4 DEF Validate, Goto, main, keys, gates
<1>5. ASSUME NEW t \in Threads, Recheck(t) PROVE KeyInv'
  BY <1>5 DEF Recheck, Goto, main, keys, gates
<1>6. ASSUME NEW t \in Threads, BoundaryCheck(t) PROVE KeyInv'
  BY <1>6 DEF BoundaryCheck, Goto, main, keys, gates
<1>7. ASSUME NEW t \in Threads, SendInput(t) PROVE KeyInv'
  BY <1>7 DEF SendInput, Goto, main, keys, gates
<1>8. ASSUME NEW t \in Threads, Leave(t) PROVE KeyInv'
  BY <1>8 DEF Leave, Notified, main, keys, gates
<1>9. ASSUME NEW g \in Runtimes, KeyBoot(g) PROVE KeyInv'
  BY <1>9 DEF KeyBoot, KeyGoto, main, keys, gates
<1>10. ASSUME NEW g \in Runtimes, KeyRegister(g) PROVE KeyInv'
  <2>1. OneOwner'
    BY <1>10 DEF KeyRegister, KeyGoto, main, keys, gates
  <2>2. Woken'
    BY <1>10 DEF KeyRegister, KeyGoto, main, keys, gates
  <2> QED
    BY ONLY <2>1, <2>2 DEF KeyInv
<1>11. ASSUME NEW g \in Runtimes, KeyMessage(g) PROVE KeyInv'
  <2>1. OneOwner'
    <3>1. hk[g] \in KeyHeld /\ \A h \in Runtimes : h # g => hk'[h] = hk[h]
      BY <1>11 DEF KeyMessage, KeyGoto
    <3> QED
      BY <3>1
  <2>2. Woken'
    BY <1>11 DEF KeyMessage, KeyGoto, main, keys, gates
  <2> QED
    BY ONLY <2>1, <2>2 DEF KeyInv
<1>12. ASSUME NEW g \in Runtimes, KeyDisable(g) PROVE KeyInv'
  <2>1. OneOwner'
    BY <1>12 DEF KeyDisable, KeyGoto, Disable, main, keys, gates
  <2>2. Woken'
    <3>1. hk[g] \in KeyHeld /\ hk[g] \notin {"notifying", "failNotify", "ended"}
      BY <1>12 DEF KeyDisable
    <3>2. UNCHANGED <<pc, rt>> /\ \A h \in Runtimes : h # g => hk'[h] = hk[h]
      BY <1>12 DEF KeyDisable, KeyGoto, gates
    <3>3. hk'[g] = "notifying" \/ marker' = marker
      BY <1>12 DEF KeyDisable, KeyGoto, Disable
    <3> SUFFICES ASSUME NEW t \in Threads, marker', pc[t] = "parked"
                 PROVE hk'[rt[t]] \in {"notifying", "failNotify", "ended"}
      BY <3>2
    <3>4. rt[t] \in Runtimes /\ hk[rt[t]] \notin Unstarted
      OBVIOUS
    <3>5. CASE rt[t] # g
      <4>1. hk[rt[t]] \notin KeyHeld
        BY <3>1, <3>4, <3>5
      <4>2. hk[rt[t]] = "ended"
        BY <3>4, <4>1
      <4> QED
        BY ONLY <3>2, <3>4, <3>5, <4>2
    <3>6. CASE rt[t] = g
      BY <3>1, <3>3, <3>6
    <3> QED
      BY <3>5, <3>6
  <2> QED
    BY ONLY <2>1, <2>2 DEF KeyInv
<1>13. ASSUME NEW g \in Runtimes, KeyNotify(g) PROVE KeyInv'
  BY <1>13 DEF KeyNotify, KeyGoto, Notified, main, keys, gates
<1>14. ASSUME NEW g \in Runtimes, KeyAudit(g) PROVE KeyInv'
  <2>1. OneOwner'
    BY <1>14 DEF KeyAudit, KeyGoto, main, keys, gates
  <2>2. Woken'
    BY <1>14 DEF KeyAudit, KeyGoto, main, keys, gates
  <2> QED
    BY ONLY <2>1, <2>2 DEF KeyInv
<1>15. ASSUME NEW g \in Runtimes, KeyFail(g) PROVE KeyInv'
  <2>1. OneOwner'
    BY <1>15 DEF KeyFail, KeyGoto, Disable, main, keys, gates
  <2>2. Woken'
    <3>1. hk[g] \in KeyHeld /\ hk[g] \notin {"notifying", "failNotify", "ended"}
      BY <1>15 DEF KeyFail
    <3>2. UNCHANGED <<pc, rt>> /\ \A h \in Runtimes : h # g => hk'[h] = hk[h]
      BY <1>15 DEF KeyFail, KeyGoto, gates
    <3>3. hk'[g] = "failNotify" \/ marker' = marker
      BY <1>15 DEF KeyFail, KeyGoto, Disable
    <3> SUFFICES ASSUME NEW t \in Threads, marker', pc[t] = "parked"
                 PROVE hk'[rt[t]] \in {"notifying", "failNotify", "ended"}
      BY <3>2
    <3>4. rt[t] \in Runtimes /\ hk[rt[t]] \notin Unstarted
      OBVIOUS
    <3>5. CASE rt[t] # g
      <4>1. hk[rt[t]] \notin KeyHeld
        BY <3>1, <3>4, <3>5
      <4>2. hk[rt[t]] = "ended"
        BY <3>4, <4>1
      <4> QED
        BY ONLY <3>2, <3>4, <3>5, <4>2
    <3>6. CASE rt[t] = g
      BY <3>1, <3>3, <3>6
    <3> QED
      BY <3>5, <3>6
  <2> QED
    BY ONLY <2>1, <2>2 DEF KeyInv
<1>16. ASSUME NEW g \in Runtimes, KeyFailNotify(g) PROVE KeyInv'
  BY <1>16 DEF KeyFailNotify, KeyGoto, Notified, main, keys, gates
<1>17. ASSUME NEW g \in Runtimes, KeyUnregister(g) PROVE KeyInv'
  BY <1>17 DEF KeyUnregister, KeyGoto, main, keys, gates
<1>18. ASSUME NEW g \in Runtimes, Press(g) PROVE KeyInv'
  BY <1>18 DEF Press, main, keys, gates
<1>19. CASE NextRuntime
  <2>1. OneOwner'
    BY <1>19 DEF NextRuntime, main, keys, gates
  <2>2. Woken'
    <3>1. hk[cur + 1] = "off" /\ cur + 1 \in Runtimes
      BY <1>19 DEF NextRuntime, MainInv, Future
    <3>2. ASSUME NEW t \in Threads, pc[t] = "parked"
          PROVE rt[t] \in Runtimes /\ rt[t] # cur + 1
      BY <3>1, <3>2
    <3> QED
      BY <1>19, <3>2 DEF NextRuntime, gates
  <2> QED
    BY ONLY <2>1, <2>2 DEF KeyInv
<1>20. CASE StartReady
  BY <1>20 DEF StartReady, Ready, Error, main, keys, gates
<1>21. CASE StartFails
  BY <1>21 DEF StartFails, Ready, Error, main, keys, gates
<1>22. CASE ServerReturns
  BY <1>22 DEF ServerReturns, main, keys, gates
<1>23. CASE CloseKey
  BY <1>23 DEF CloseKey, main, keys, gates
<1>24. CASE Joined
  BY <1>24 DEF Joined, main, keys, gates
<1>25. CASE CloseRuntime
  BY <1>25 DEF CloseRuntime, main, keys, gates
<1>26. CASE LocalReset
  BY <1>26 DEF LocalReset, main, keys, gates
<1>27. CASE StopWorker
  BY <1>27 DEF StopWorker, main, keys, gates
<1>28. CASE ProcessEnds
  BY <1>28 DEF ProcessEnds, main, keys, gates
<1>29. CASE UNCHANGED vars
  BY <1>29 DEF vars, main, keys, gates
<1> QED
  BY <1>1, <1>2, <1>3, <1>4, <1>5, <1>6, <1>7, <1>8, <1>9, <1>10, <1>11, <1>12,
     <1>13, <1>14, <1>15, <1>16, <1>17, <1>18, <1>19, <1>20, <1>21, <1>22, <1>23,
     <1>24, <1>25, <1>26, <1>27, <1>28, <1>29
     DEF Next, Request, HotkeyThread, Watchdog, Environment
-----------------------------------------------------------------------------
(* The invariant holds initially.                                          *)
LEMMA IInvInit == Init => IInv
<1> SUFFICES ASSUME Init PROVE IInv
  OBVIOUS
<1> USE StopAssumption DEF Init, Runtimes, Outside, Waiting, Inside, KeyHeld, Unstarted
<1>1. queue \in [Runtimes -> Seq({"hotkey", "quit"})]
  <2>1. <<>> \in Seq({"hotkey", "quit"})
    OBVIOUS
  <2> QED
    BY <2>1
<1>2. TypeOK
  <2>1. marker \in BOOLEAN /\ stop \in BOOLEAN
    OBVIOUS
  <2>2. /\ hk \in [Runtimes -> KeyHeld \cup {"off", "booting", "registering", "ended"}]
        /\ failed \in [Runtimes -> BOOLEAN]
        /\ occupied \in [Runtimes -> BOOLEAN]
        /\ late \in [Runtimes -> Nat]
    OBVIOUS
  <2>3. /\ pc \in [Threads -> Outside \cup Waiting \cup Inside]
        /\ rt \in [Threads -> Runtimes \cup {0}]
    OBVIOUS
  <2>4. /\ phase \in {"idle", "starting", "serving", "closing", "joining", "closed"}
        /\ cur \in 0..MaxRuntimes /\ closes \in 0..2
        /\ presses \in 0..MaxPresses /\ resets \in 0..MaxResets
    OBVIOUS
  <2> QED
    BY ONLY <1>1, <2>1, <2>2, <2>3, <2>4 DEF TypeOK
<1>3. GateInv /\ LateInv /\ KeyInv
  BY DEF GateInv, Placed, Held, OneHolder, LateInv, KeyInv, OneOwner, Woken
<1>4. MainInv
  BY DEF MainInv, Future, Built, NoQuit, EndFlagged
<1> QED
  BY <1>2, <1>3, <1>4 DEF IInv

(* IInv is inductive.                                                      *)
THEOREM StopInductive == Spec => []IInv
<1>1. IInv /\ [Next]_vars => IInv'
  BY TypeStep, MainStep, GateStep, LateStep, KeyStep DEF IInv
<1> QED
  BY IInvInit, <1>1, PTL DEF Spec

(* The state of gates, key threads and watchdog has its type.              *)
THEOREM StopTypes == Spec => []TypeOK
<1>1. IInv => TypeOK
  BY DEF IInv
<1> QED
  BY StopInductive, <1>1, PTL

(* However many requests, runtimes and resets there are, a gate lets at    *)
(* most one chunk of input through after the marker appeared.              *)
THEOREM StopIsImmediate == Spec => []OneLateInput
<1>1. IInv => OneLateInput
  BY DEF IInv, TypeOK, LateInv, OneLateInput
<1> QED
  BY StopInductive, <1>1, PTL

(* A finished activation leaves no request parked at the gate of the       *)
(* thread that heard the key.                                              *)
THEOREM StopCancelsQueue == Spec => []QueuedCancelled
<1>1. IInv => QueuedCancelled
  BY DEF IInv, KeyInv, Woken, QueuedCancelled
<1> QED
  BY StopInductive, <1>1, PTL

(* The pipe is not served by a Worker that cannot hear the key, unless the *)
(* flag that ends the server is set.                                       *)
THEOREM NoDeafWorker == Spec => []ServedWithKey
<1>1. IInv => ServedWithKey
  BY DEF IInv, TypeOK, MainInv, Built, EndFlagged, ServedWithKey, KeyHeld, Unstarted
<1> QED
  BY StopInductive, <1>1, PTL
=============================================================================
