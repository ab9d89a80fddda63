--------------------------- MODULE SlDriverProofs ---------------------------
(***************************************************************************)
(* For any number of tasks, any length of the spawn queue and any number   *)
(* of announced messages: until a command times out, a transfer fails or   *)
(* the processor aborts, a response reaches the command it answers and a   *)
(* reader finds a message; with one message announced at a time, none is   *)
(* left behind.                                                            *)
(***************************************************************************)
EXTENDS SlDriver, SpiTransport, SequenceTheorems, TLAPS

\* The 8-bit counters wrap.
LEMMA IncWraps ==
    ASSUME NEW n \in 0..(W-1)
    PROVE  Inc(n) = IF n = W - 1 THEN 0 ELSE n + 1
<1>1. W \in Nat /\ W > 1
    BY DriverAssumption
<1>2. CASE n = W - 1
    BY <1>1, <1>2 DEF Inc
<1>3. CASE n # W - 1
    BY <1>1, <1>3 DEF Inc
<1> QED BY <1>2, <1>3

\* The queue of announced messages loses its head or gets one more at its end.
LEMMA QueueSteps ==
    ASSUME NEW q \in Seq(Msg)
    PROVE  /\ \A m \in Msg : /\ Append(q, m) \in Seq(Msg) /\ Len(Append(q, m)) = Len(q) + 1
                             /\ \A i \in 1..Len(q) : Append(q, m)[i] = q[i]
                             /\ Append(q, m)[Len(q) + 1] = m
           /\ q # <<>> => /\ Tail(q) \in Seq(Msg) /\ Len(Tail(q)) = Len(q) - 1
                          /\ Len(q) \in Nat /\ Len(q) >= 1
                          /\ Head(q) = q[1] /\ Head(q) \in Msg
                          /\ \A i \in 1..(Len(q) - 1) : Tail(q)[i] = q[i + 1]
<1>1. ASSUME NEW m \in Msg
      PROVE  /\ Append(q, m) \in Seq(Msg) /\ Len(Append(q, m)) = Len(q) + 1
             /\ \A i \in 1..Len(q) : Append(q, m)[i] = q[i]
             /\ Append(q, m)[Len(q) + 1] = m
    BY AppendProperties
<1>2. ASSUME q # <<>>
      PROVE  /\ Tail(q) \in Seq(Msg) /\ Len(Tail(q)) = Len(q) - 1
             /\ Len(q) \in Nat /\ Len(q) >= 1
             /\ Head(q) = q[1] /\ Head(q) \in Msg
             /\ \A i \in 1..(Len(q) - 1) : Tail(q)[i] = q[i + 1]
    BY <1>2
<1> QED BY <1>1, <1>2

\* The steps of the driver, one by one.
LEMMA StepCases ==
    ASSUME Next
    PROVE  \/ \E t \in Task : \/ Answer(t) \/ CmdOp(t) \/ SetWaited(t) \/ MsgWrite(t) \/ Poll(t)
                             \/ CmdDone(t) \/ SemTake(t) \/ SemTimeout(t) \/ UnlockCmd(t)
                             \/ CheckPending(t) \/ RequestSpawn(t)
           \/ \E p \in Proc : TakeLock(p) \/ MsgRead(p) \/ HandleError(p) \/ DeleteLock(p)
           \/ \E m \in {Event, Abort} : Notify(m)
           \/ RxIrqHandler \/ SpawnReceive \/ SpawnCheck \/ SpawnDone \/ SpawnUnlock
<1>1. CASE \E t \in Task : Answer(t) \/ CmdOp(t) \/ TakeLock(t) \/ CmdStep(t)
    BY <1>1, Zenon DEF CmdStep, Proc
<1>2. CASE TakeLock(Spawn) \/ SpawnStep
    BY <1>2, Zenon DEF SpawnStep, Proc
<1>3. CASE (\E m \in {Event, Abort} : Notify(m)) \/ RxIrqHandler
    BY <1>3, Zenon
<1> QED BY <1>1, <1>2, <1>3, Zenon DEF Next

LEMMA TypeInit == Init => TypeOK
<1> SUFFICES ASSUME Init PROVE TypeOK
    OBVIOUS
<1>1. 0 \in 0..(W-1) /\ 0 \in 0..QueueLen /\ 0 \in 0..MaxAhead
    BY DriverAssumption
<1>2. <<>> \in Seq(Msg) /\ Len(<<>>) <= MaxAhead
    BY DriverAssumption
<1>3. pc \in [Proc -> TaskPc] /\ pc[Spawn] \in SpawnPc /\ msg \in [Proc -> Msg \cup {None}]
    BY DEF Init, Proc, TaskPc, SpawnPc
<1> QED BY <1>1, <1>2, <1>3 DEF Init, TypeOK

\* TypeOK is inductive.
LEMMA TypeStep == TypeOK /\ [Next]_vars => TypeOK'
<1> SUFFICES ASSUME TypeOK, [Next]_vars PROVE TypeOK'
    OBVIOUS
<1> USE DriverAssumption DEF TypeOK, Proc, At, Goto, Unlock, cb, device, faults
<1>1. ASSUME NEW t \in Task, Answer(t) PROVE TypeOK'
  <2>1. t \in Msg
      BY DEF Msg
  <2>2. nwp' \in Seq(Msg) /\ Len(nwp') <= MaxAhead
      BY <1>1, <2>1, QueueSteps DEF Answer, Announce
  <2>3. pended' \in 0..MaxAhead
    <3>1. pended' = pended \/ (pended < MaxAhead /\ pended' = pended + 1)
        BY <1>1, Zenon DEF Answer, Announce
    <3> QED BY <3>1
  <2>5. halted' \in BOOLEAN /\ lostIrq' \in BOOLEAN
      BY <1>1, Zenon DEF Answer, Announce
  <2>4. UNCHANGED <<lock, deleted, restart, cb, spawnq, pc, msg, spiError>> /\ todo' \subseteq Task
      BY <1>1 DEF Answer
  <2> QED BY <2>2, <2>3, <2>4, <2>5
<1>2. ASSUME NEW t \in Task, CmdOp(t) PROVE TypeOK'
    BY <1>2 DEF CmdOp, TaskPc, SpawnPc
<1>3. ASSUME NEW p \in Proc, TakeLock(p) PROVE TypeOK'
    BY <1>3 DEF TakeLock, TaskPc, SpawnPc
<1>4. ASSUME NEW p \in Proc, MsgRead(p) PROVE TypeOK'
  <2>1. nwp # <<>> /\ nwp' \in {nwp, Tail(nwp)}
      BY <1>4 DEF MsgRead
  <2> HIDE DEF Proc
  <2>2. Head(nwp) \in Msg /\ Tail(nwp) \in Seq(Msg) /\ Len(Tail(nwp)) = Len(nwp) - 1 /\ Len(nwp) \in Nat
      BY <2>1, QueueSteps
  <2>4. nwp' \in Seq(Msg) /\ Len(nwp') <= MaxAhead
      BY <2>1, <2>2
  <2>3. msg' \in [Proc -> Msg \cup {None}]
      BY <1>4, <2>2 DEF MsgRead
  <2> QED BY <1>4, <2>4, <2>3 DEF Proc, MsgRead, TaskPc, SpawnPc
<1>5. ASSUME NEW p \in Proc, HandleError(p) PROVE TypeOK'
    BY <1>5 DEF HandleError, AfterError, TaskPc, SpawnPc
<1>6. ASSUME NEW p \in Proc, DeleteLock(p) PROVE TypeOK'
    BY <1>6 DEF DeleteLock, AfterError, TaskPc, SpawnPc
<1>7. ASSUME NEW t \in Task, SetWaited(t) PROVE TypeOK'
    BY <1>7 DEF SetWaited, TaskPc, SpawnPc
<1>8. ASSUME NEW t \in Task, MsgWrite(t) PROVE TypeOK'
    BY <1>8 DEF MsgWrite, TaskPc, SpawnPc
<1>9. ASSUME NEW t \in Task, Poll(t) PROVE TypeOK'
    BY <1>9 DEF Poll, TaskPc, SpawnPc
<1>10. ASSUME NEW t \in Task, CmdDone(t) PROVE TypeOK'
  <2>1. Inc(RxDoneCnt) \in 0..(W-1)
      BY IncWraps
  <2> QED BY <1>10, <2>1 DEF CmdDone, TaskPc, SpawnPc
<1>11. ASSUME NEW t \in Task, SemTake(t) PROVE TypeOK'
    BY <1>11 DEF SemTake, TaskPc, SpawnPc
<1>12. ASSUME NEW t \in Task, SemTimeout(t) PROVE TypeOK'
    BY <1>12 DEF SemTimeout, TaskPc, SpawnPc
<1>13. ASSUME NEW t \in Task, UnlockCmd(t) PROVE TypeOK'
    BY <1>13 DEF UnlockCmd, TaskPc, SpawnPc
<1>14. ASSUME NEW t \in Task, CheckPending(t) PROVE TypeOK'
    BY <1>14 DEF CheckPending, TaskPc, SpawnPc
<1>15. ASSUME NEW t \in Task, RequestSpawn(t) PROVE TypeOK'
    BY <1>15 DEF RequestSpawn, TaskPc, SpawnPc
<1>16. ASSUME NEW m \in {Event, Abort}, Notify(m) PROVE TypeOK'
  <2>1. m \in Msg
      BY DEF Msg
  <2>2. nwp' \in Seq(Msg) /\ Len(nwp') <= MaxAhead
      BY <1>16, <2>1, QueueSteps DEF Notify, Announce
  <2>3. pended' \in 0..MaxAhead
    <3>1. pended' = pended \/ (pended < MaxAhead /\ pended' = pended + 1)
        BY <1>16, Zenon DEF Notify, Announce
    <3> QED BY <3>1
  <2>5. halted' \in BOOLEAN /\ lostIrq' \in BOOLEAN
      BY <1>16, Zenon DEF Notify, Announce
  <2>4. UNCHANGED <<lock, deleted, restart, cb, spawnq, pc, msg, spiError>> /\ todo' \subseteq Task
      BY <1>16 DEF Notify
  <2> QED BY <2>2, <2>3, <2>4, <2>5
<1>17. ASSUME RxIrqHandler PROVE TypeOK'
  <2>1. Inc(RxIrqCnt) \in 0..(W-1)
      BY IncWraps
  <2>2. pended' \in 0..MaxAhead
      BY <1>17 DEF RxIrqHandler
  <2>3. spawnq' = spawnq \/ (spawnq < QueueLen /\ spawnq' = spawnq + 1)
      BY <1>17, Zenon DEF RxIrqHandler
  <2>4. spawnq' \in 0..QueueLen
      BY <2>3
  <2>5. CmdSync' \in BOOLEAN
      BY <1>17, Zenon DEF RxIrqHandler
  <2> QED BY <1>17, <2>1, <2>2, <2>4, <2>5 DEF RxIrqHandler
<1>18. ASSUME SpawnReceive PROVE TypeOK'
    BY <1>18 DEF SpawnReceive, TaskPc, SpawnPc
<1>19. ASSUME SpawnCheck PROVE TypeOK'
    BY <1>19 DEF SpawnCheck, TaskPc, SpawnPc
<1>20. ASSUME SpawnDone PROVE TypeOK'
    BY <1>20, IncWraps DEF SpawnDone, TaskPc, SpawnPc
<1>21. ASSUME SpawnUnlock PROVE TypeOK'
    BY <1>21 DEF SpawnUnlock, TaskPc, SpawnPc
<1>22. CASE UNCHANGED vars
    BY <1>22 DEF vars
<1> QED
    BY <1>1, <1>2, <1>3, <1>4, <1>5, <1>6, <1>7, <1>8, <1>9, <1>10, <1>11, <1>12, <1>13, <1>14, <1>15, <1>16, <1>17, <1>18, <1>19, <1>20, <1>21, <1>22, StepCases, Zenon

LEMMA ErrorStep == TypeOK /\ ErrorInv /\ [Next]_vars => ErrorInv'
<1> SUFFICES ASSUME TypeOK, ErrorInv, [Next]_vars PROVE ErrorInv'
    OBVIOUS
<1> USE DEF TypeOK, ErrorInv, Proc, At, Goto
<1>1. ASSUME NEW t \in Task, Answer(t) PROVE ErrorInv'
    BY <1>1 DEF Answer
<1>2. ASSUME NEW t \in Task, CmdOp(t) PROVE ErrorInv'
    BY <1>2 DEF CmdOp
<1>3. ASSUME NEW p \in Proc, TakeLock(p) PROVE ErrorInv'
    BY <1>3 DEF TakeLock
<1>4. ASSUME NEW p \in Proc, MsgRead(p) PROVE ErrorInv'
    BY <1>4 DEF MsgRead
<1>5. ASSUME NEW p \in Proc, HandleError(p) PROVE ErrorInv'
    BY <1>5 DEF HandleError, AfterError
<1>6. ASSUME NEW p \in Proc, DeleteLock(p) PROVE ErrorInv'
    BY <1>6 DEF DeleteLock, AfterError
<1>7. ASSUME NEW t \in Task, SetWaited(t) PROVE ErrorInv'
    BY <1>7 DEF SetWaited
<1>8. ASSUME NEW t \in Task, MsgWrite(t) PROVE ErrorInv'
    BY <1>8 DEF MsgWrite
<1>9. ASSUME NEW t \in Task, Poll(t) PROVE ErrorInv'
    BY <1>9 DEF Poll
<1>10. ASSUME NEW t \in Task, CmdDone(t) PROVE ErrorInv'
    BY <1>10 DEF CmdDone
<1>11. ASSUME NEW t \in Task, SemTake(t) PROVE ErrorInv'
    BY <1>11 DEF SemTake
<1>12. ASSUME NEW t \in Task, SemTimeout(t) PROVE ErrorInv'
    BY <1>12 DEF SemTimeout
<1>13. ASSUME NEW t \in Task, UnlockCmd(t) PROVE ErrorInv'
    BY <1>13 DEF UnlockCmd
<1>14. ASSUME NEW t \in Task, CheckPending(t) PROVE ErrorInv'
    BY <1>14 DEF CheckPending
<1>15. ASSUME NEW t \in Task, RequestSpawn(t) PROVE ErrorInv'
    BY <1>15 DEF RequestSpawn
<1>16. ASSUME NEW m \in {Event, Abort}, Notify(m) PROVE ErrorInv'
    BY <1>16 DEF Notify
<1>17. ASSUME RxIrqHandler PROVE ErrorInv'
    BY <1>17 DEF RxIrqHandler
<1>18. ASSUME SpawnReceive PROVE ErrorInv'
    BY <1>18 DEF SpawnReceive
<1>19. ASSUME SpawnCheck PROVE ErrorInv'
    BY <1>19 DEF SpawnCheck
<1>20. ASSUME SpawnDone PROVE ErrorInv'
    BY <1>20 DEF SpawnDone
<1>21. ASSUME SpawnUnlock PROVE ErrorInv'
    BY <1>21 DEF SpawnUnlock
<1>22. CASE UNCHANGED vars
    BY <1>22 DEF vars
<1> QED
    BY <1>1, <1>2, <1>3, <1>4, <1>5, <1>6, <1>7, <1>8, <1>9, <1>10, <1>11, <1>12, <1>13, <1>14, <1>15, <1>16, <1>17, <1>18, <1>19, <1>20, <1>21, <1>22, StepCases, Zenon

\* Nothing undoes a disturbance.
LEMMA StaysDisturbed == TypeOK /\ [Next]_vars /\ Undisturbed' => Undisturbed
<1> SUFFICES ASSUME TypeOK, [Next]_vars, Undisturbed' PROVE Undisturbed
    OBVIOUS
<1> USE DEF TypeOK, Undisturbed, Proc, At, Goto, faults
<1>1. ASSUME NEW t \in Task, Answer(t) PROVE Undisturbed
    BY <1>1 DEF Answer
<1>2. ASSUME NEW t \in Task, CmdOp(t) PROVE Undisturbed
    BY <1>2 DEF CmdOp
<1>3. ASSUME NEW p \in Proc, TakeLock(p) PROVE Undisturbed
    BY <1>3 DEF TakeLock
<1>4. ASSUME NEW p \in Proc, MsgRead(p) PROVE Undisturbed
    BY <1>4 DEF MsgRead
<1>5. ASSUME NEW p \in Proc, HandleError(p) PROVE Undisturbed
    BY <1>5 DEF HandleError, AfterError
<1>6. ASSUME NEW p \in Proc, DeleteLock(p) PROVE Undisturbed
    BY <1>6 DEF DeleteLock, AfterError
<1>7. ASSUME NEW t \in Task, SetWaited(t) PROVE Undisturbed
    BY <1>7 DEF SetWaited
<1>8. ASSUME NEW t \in Task, MsgWrite(t) PROVE Undisturbed
    BY <1>8 DEF MsgWrite
<1>9. ASSUME NEW t \in Task, Poll(t) PROVE Undisturbed
    BY <1>9 DEF Poll
<1>10. ASSUME NEW t \in Task, CmdDone(t) PROVE Undisturbed
    BY <1>10 DEF CmdDone
<1>11. ASSUME NEW t \in Task, SemTake(t) PROVE Undisturbed
    BY <1>11 DEF SemTake
<1>12. ASSUME NEW t \in Task, SemTimeout(t) PROVE Undisturbed
    BY <1>12 DEF SemTimeout
<1>13. ASSUME NEW t \in Task, UnlockCmd(t) PROVE Undisturbed
    BY <1>13 DEF UnlockCmd
<1>14. ASSUME NEW t \in Task, CheckPending(t) PROVE Undisturbed
    BY <1>14 DEF CheckPending
<1>15. ASSUME NEW t \in Task, RequestSpawn(t) PROVE Undisturbed
    BY <1>15 DEF RequestSpawn
<1>16. ASSUME NEW m \in {Event, Abort}, Notify(m) PROVE Undisturbed
    BY <1>16 DEF Notify
<1>17. ASSUME RxIrqHandler PROVE Undisturbed
    BY <1>17 DEF RxIrqHandler
<1>18. ASSUME SpawnReceive PROVE Undisturbed
    BY <1>18 DEF SpawnReceive
<1>19. ASSUME SpawnCheck PROVE Undisturbed
    BY <1>19 DEF SpawnCheck
<1>20. ASSUME SpawnDone PROVE Undisturbed
    BY <1>20 DEF SpawnDone
<1>21. ASSUME SpawnUnlock PROVE Undisturbed
    BY <1>21 DEF SpawnUnlock
<1>22. CASE UNCHANGED vars
    BY <1>22 DEF vars
<1> QED
    BY <1>1, <1>2, <1>3, <1>4, <1>5, <1>6, <1>7, <1>8, <1>9, <1>10, <1>11, <1>12, <1>13, <1>14, <1>15, <1>16, <1>17, <1>18, <1>19, <1>20, <1>21, <1>22, StepCases, Zenon

\* What a step starts from: DriverInv before it, no disturbance after it.
Before == TypeOK /\ ErrorInv /\ Undisturbed /\ CommandInv /\ ResponseInv /\ CountInv

\* No error has been handled, so the lock exists and giving it back frees it.
LEMMA NoErrorYet ==
    ASSUME Before, Undisturbed'
    PROVE  /\ ~deleted /\ ~restart /\ ~restart' /\ ~spiError /\ ~spiError'
           /\ \A p \in Proc : pc[p] \notin {"error", "delete"} /\ pc'[p] # "error"
BY DEF Before, Undisturbed, ErrorInv, At

\* Two processes are not inside at once.
LEMMA OneInside ==
    ASSUME Before, NEW p \in Proc, NEW q \in Proc,
           pc[p] \in InCommand \cup {"locked"}, pc[q] \in InCommand \cup {"locked"}
    PROVE  p = q
BY DEF Before, CommandInv

LEMMA CommandStep == Before /\ [Next]_vars /\ Undisturbed' => CommandInv'
<1> SUFFICES ASSUME Before, [Next]_vars, Undisturbed' PROVE CommandInv'
    OBVIOUS
<1>0. TypeOK /\ CommandInv /\ Spawn \notin Task /\ None \notin Proc
    BY DriverAssumption DEF Before, Proc
<1> USE <1>0, NoErrorYet DEF TypeOK, CommandInv, InCommand, Proc, At, Goto, Unlock, cb, faults
<1>1. ASSUME NEW t \in Task, Answer(t) PROVE CommandInv'
    BY <1>1 DEF Answer
<1>2. ASSUME NEW t \in Task, CmdOp(t) PROVE CommandInv'
    BY <1>2 DEF CmdOp
<1>3. ASSUME NEW p \in Proc, TakeLock(p) PROVE CommandInv'
    BY <1>3 DEF TakeLock
<1>4. ASSUME NEW p \in Proc, MsgRead(p) PROVE CommandInv'
    BY <1>4 DEF MsgRead
<1>5. ASSUME NEW p \in Proc, HandleError(p) PROVE CommandInv'
    BY <1>5 DEF HandleError
<1>6. ASSUME NEW p \in Proc, DeleteLock(p) PROVE CommandInv'
    BY <1>6 DEF DeleteLock
<1>7. ASSUME NEW t \in Task, SetWaited(t) PROVE CommandInv'
    BY <1>7 DEF SetWaited
<1>8. ASSUME NEW t \in Task, MsgWrite(t) PROVE CommandInv'
    BY <1>8 DEF MsgWrite
<1>9. ASSUME NEW t \in Task, Poll(t) PROVE CommandInv'
    BY <1>9 DEF Poll
<1>10. ASSUME NEW t \in Task, CmdDone(t) PROVE CommandInv'
    BY <1>10 DEF CmdDone
<1>11. ASSUME NEW t \in Task, SemTake(t) PROVE CommandInv'
    BY <1>11 DEF SemTake
<1>12. ASSUME NEW t \in Task, SemTimeout(t) PROVE CommandInv'
    BY <1>12 DEF SemTimeout
<1>13. ASSUME NEW t \in Task, UnlockCmd(t) PROVE CommandInv'
    BY <1>13 DEF UnlockCmd
<1>14. ASSUME NEW t \in Task, CheckPending(t) PROVE CommandInv'
    BY <1>14 DEF CheckPending
<1>15. ASSUME NEW t \in Task, RequestSpawn(t) PROVE CommandInv'
    BY <1>15 DEF RequestSpawn
<1>16. ASSUME NEW m \in {Event, Abort}, Notify(m) PROVE CommandInv'
    BY <1>16 DEF Notify
<1>17. ASSUME RxIrqHandler PROVE CommandInv'
    BY <1>17 DEF RxIrqHandler
<1>18. ASSUME SpawnReceive PROVE CommandInv'
    BY <1>18 DEF SpawnReceive
<1>19. ASSUME SpawnCheck PROVE CommandInv'
    BY <1>19 DEF SpawnCheck
<1>20. ASSUME SpawnDone PROVE CommandInv'
    BY <1>20 DEF SpawnDone
<1>21. ASSUME SpawnUnlock PROVE CommandInv'
    BY <1>21 DEF SpawnUnlock
<1>22. CASE UNCHANGED vars
    BY <1>22 DEF vars
<1> QED
    BY <1>1, <1>2, <1>3, <1>4, <1>5, <1>6, <1>7, <1>8, <1>9, <1>10, <1>11, <1>12, <1>13, <1>14, <1>15, <1>16, <1>17, <1>18, <1>19, <1>20, <1>21, <1>22, StepCases, Zenon

LEMMA ResponseStep == Before /\ [Next]_vars /\ Undisturbed' => ResponseInv'
<1> SUFFICES ASSUME Before, [Next]_vars, Undisturbed' PROVE ResponseInv'
    OBVIOUS
<1>0. TypeOK /\ ResponseInv /\ Spawn \notin Task /\ None \notin Task
    BY DriverAssumption DEF Before
<1> USE <1>0, NoErrorYet DEF TypeOK, ResponseInv, Proc, At, Goto
<1>1. ASSUME NEW t \in Task, Answer(t) PROVE ResponseInv'
  <2>1. /\ t \in todo /\ nwp' = Append(nwp, t) /\ todo' = todo \ {t}
        /\ waited' = waited /\ pc' = pc /\ msg' = msg
      BY <1>1 DEF Answer, Announce, cb
  <2>2. t \in Msg /\ Len(nwp) \in Nat
      BY DEF Msg
  <2>3. Len(nwp') = Len(nwp) + 1 /\ nwp'[Len(nwp) + 1] = t
        /\ \A i \in 1..Len(nwp) : nwp'[i] = nwp[i]
      BY <2>1, <2>2, QueueSteps
  <2>4. \A u \in Task : Queued(u)' <=> Queued(u) \/ u = t
      BY <2>2, <2>3 DEF Queued
  <2>5. ~Queued(t) /\ msg[t] # t
      BY <2>1
  <2>6. \A i, j \in 1..Len(nwp') : nwp'[i] = nwp'[j] /\ nwp'[i] \in Task => i = j
      BY <2>2, <2>3, <2>5 DEF Queued
  <2> QED BY <2>1, <2>4, <2>5, <2>6
<1>2. ASSUME NEW t \in Task, CmdOp(t) PROVE ResponseInv'
    BY <1>2 DEF CmdOp, Queued, cb, device
<1>3. ASSUME NEW p \in Proc, TakeLock(p) PROVE ResponseInv'
    BY <1>3 DEF TakeLock, Queued, cb, device
<1>4. ASSUME NEW p \in Proc, MsgRead(p) PROVE ResponseInv'
  <2>1. /\ nwp # <<>> /\ nwp' = Tail(nwp) /\ msg' = [msg EXCEPT ![p] = Head(nwp)]
        /\ pc[p] = "read" /\ pc' = [pc EXCEPT ![p] = "done"]
        /\ todo' = todo /\ waited' = waited
      BY <1>4 DEF MsgRead, cb
  <2>2. /\ Len(nwp) \in Nat /\ Len(nwp) >= 1 /\ Len(nwp') = Len(nwp) - 1
        /\ Head(nwp) = nwp[1] /\ \A i \in 1..(Len(nwp) - 1) : nwp'[i] = nwp[i + 1]
      BY <2>1, QueueSteps
  <2>3. ASSUME NEW u \in Task, Queued(u)'
        PROVE  Queued(u) /\ u # Head(nwp)
    <3>1. PICK i \in 1..(Len(nwp) - 1) : nwp[i + 1] = u
        BY <2>2, <2>3 DEF Queued
    <3>2. i + 1 \in 1..Len(nwp) /\ 1 \in 1..Len(nwp) /\ i + 1 # 1
        BY <2>2
    <3> QED BY <2>2, <3>1, <3>2 DEF Queued
  <2>4. ASSUME Head(nwp) \in Task
        PROVE  p = Head(nwp) /\ Queued(p) /\ p \in Task
    <3>1. Queued(Head(nwp))
        BY <2>2 DEF Queued
    <3>2. pc[Head(nwp)] \in {"poll", "read", "done", "sem"}
        BY <2>4, <3>1
    <3> QED BY <2>1, <2>4, <3>1, <3>2, OneInside DEF InCommand
  <2>5. \A i, j \in 1..Len(nwp') : nwp'[i] = nwp'[j] /\ nwp'[i] \in Task => i = j
    <3> SUFFICES ASSUME NEW i \in 1..(Len(nwp) - 1), NEW j \in 1..(Len(nwp) - 1),
                        nwp[i + 1] = nwp[j + 1], nwp[i + 1] \in Task
                 PROVE  i = j
        BY <2>2
    <3>1. i + 1 \in 1..Len(nwp) /\ j + 1 \in 1..Len(nwp)
        BY <2>2
    <3> QED BY <3>1
  <2>6. \A u \in Task : msg'[u] = u => msg[u] = u \/ (u = p /\ Head(nwp) = p)
      BY <2>1
  <2>7. \A u \in Task : u \in todo' \/ Queued(u)' \/ msg'[u] = u =>
            u \in todo \/ Queued(u) \/ msg[u] = u
      BY <2>1, <2>3, <2>4, <2>6
  <2>8. \A u \in Task : pc[u] \in {"poll", "read", "done", "sem"} => pc'[u] \in {"poll", "read", "done", "sem"}
      BY <2>1
  <2>9. \A u \in todo' : ~Queued(u)' /\ msg'[u] # u
      BY <2>1, <2>3, <2>4, <2>6
  <2>10. \A u \in Task : msg'[u] = u => ~Queued(u)'
      BY <2>1, <2>3, <2>4, <2>6
  <2>11. \A q \in Proc : msg'[q] \in Task => msg'[q] = q
      BY <2>1, <2>4
  <2> QED BY <2>1, <2>5, <2>7, <2>8, <2>9, <2>10, <2>11
<1>5. ASSUME NEW p \in Proc, HandleError(p) PROVE ResponseInv'
    BY <1>5 DEF HandleError, Queued, cb, device
<1>6. ASSUME NEW p \in Proc, DeleteLock(p) PROVE ResponseInv'
    BY <1>6 DEF DeleteLock, Queued, cb, device
<1>7. ASSUME NEW t \in Task, SetWaited(t) PROVE ResponseInv'
    BY <1>7, OneInside DEF SetWaited, Queued, device, InCommand
<1>8. ASSUME NEW t \in Task, MsgWrite(t) PROVE ResponseInv'
  <2>1. pc[t] = "write" /\ todo' = todo \cup {t} /\ pc' = [pc EXCEPT ![t] = "poll"]
        /\ UNCHANGED <<waited, nwp, msg>> /\ waited
      BY <1>8 DEF MsgWrite, cb, Before, CommandInv
  <2>2. t \notin todo /\ ~Queued(t) /\ msg[t] # t
      BY <2>1
  <2>3. \A u \in Task : Queued(u)' <=> Queued(u)
      BY <2>1 DEF Queued
  <2> QED BY <2>1, <2>2, <2>3
<1>9. ASSUME NEW t \in Task, Poll(t) PROVE ResponseInv'
    BY <1>9 DEF Poll, Queued, cb, device
<1>10. ASSUME NEW t \in Task, CmdDone(t) PROVE ResponseInv'
  <2>1. /\ pc[t] = "done" /\ pc' = [pc EXCEPT ![t] = "poll"] /\ msg' = [msg EXCEPT ![t] = None]
        /\ UNCHANGED <<nwp, todo>>
        /\ (waited' = waited \/ msg[t] \in Task)
      BY <1>10 DEF CmdDone, device
  <2>2. \A u \in Task : Queued(u)' <=> Queued(u)
      BY <2>1 DEF Queued
  <2>3. \A u \in Task : u # t => ~(u \in todo \/ Queued(u) \/ msg[u] = u)
      BY <2>1, OneInside DEF InCommand
  <2>4. msg[t] \in Task => t \notin todo /\ ~Queued(t)
      OBVIOUS
  <2> QED BY <2>1, <2>2, <2>3, <2>4
<1>11. ASSUME NEW t \in Task, SemTake(t) PROVE ResponseInv'
    BY <1>11 DEF SemTake, Queued, cb, device
<1>12. ASSUME NEW t \in Task, SemTimeout(t) PROVE ResponseInv'
    BY <1>12 DEF SemTimeout, Queued, cb, device
<1>13. ASSUME NEW t \in Task, UnlockCmd(t) PROVE ResponseInv'
    BY <1>13 DEF UnlockCmd, Queued, cb, device
<1>14. ASSUME NEW t \in Task, CheckPending(t) PROVE ResponseInv'
    BY <1>14 DEF CheckPending, Queued, cb, device
<1>15. ASSUME NEW t \in Task, RequestSpawn(t) PROVE ResponseInv'
    BY <1>15 DEF RequestSpawn, Queued, cb, device
<1>16. ASSUME NEW m \in {Event, Abort}, Notify(m) PROVE ResponseInv'
  <2>1. /\ nwp' = Append(nwp, m) /\ UNCHANGED <<todo, waited, pc, msg>>
      BY <1>16 DEF Notify, Announce, cb
  <2>2. m \in Msg /\ m \notin Task /\ Len(nwp) \in Nat
      BY DriverAssumption DEF Msg
  <2>3. Len(nwp') = Len(nwp) + 1 /\ nwp'[Len(nwp) + 1] = m
        /\ \A i \in 1..Len(nwp) : nwp'[i] = nwp[i]
      BY <2>1, <2>2, QueueSteps
  <2>4. \A u \in Task : Queued(u)' <=> Queued(u)
      BY <2>2, <2>3 DEF Queued
  <2>6. \A i, j \in 1..Len(nwp') : nwp'[i] = nwp'[j] /\ nwp'[i] \in Task => i = j
      BY <2>2, <2>3
  <2> QED BY <2>1, <2>4, <2>6
<1>17. ASSUME RxIrqHandler PROVE ResponseInv'
    BY <1>17 DEF RxIrqHandler, Queued, cb, device
<1>18. ASSUME SpawnReceive PROVE ResponseInv'
    BY <1>18 DEF SpawnReceive, Queued, cb, device
<1>19. ASSUME SpawnCheck PROVE ResponseInv'
    BY <1>19 DEF SpawnCheck, Queued, cb, device
<1>20. ASSUME SpawnDone PROVE ResponseInv'
    BY <1>20 DEF SpawnDone, Queued, cb, device
<1>21. ASSUME SpawnUnlock PROVE ResponseInv'
    BY <1>21 DEF SpawnUnlock, Queued, cb, device
<1>22. CASE UNCHANGED vars
    BY <1>22 DEF vars, Queued, cb, device
<1> QED
    BY <1>1, <1>2, <1>3, <1>4, <1>5, <1>6, <1>7, <1>8, <1>9, <1>10, <1>11, <1>12, <1>13, <1>14, <1>15, <1>16, <1>17, <1>18, <1>19, <1>20, <1>21, <1>22, StepCases, Zenon

\* Counting a message opens the gap, reading one closes it, across the wrap too.
LEMMA GapSteps ==
    ASSUME NEW i \in 0..(W-1), NEW d \in 0..(W-1)
    PROVE  /\ Gap(i, d) < W - 1 => Gap(Inc(i), d) = Gap(i, d) + 1
           /\ Gap(i, d) >= 1 => Gap(i, Inc(d)) = Gap(i, d) - 1
<1>1. W \in Nat /\ W > 1
    BY DriverAssumption
<1>2. Inc(i) = (IF i = W - 1 THEN 0 ELSE i + 1) /\ Inc(d) = (IF d = W - 1 THEN 0 ELSE d + 1)
    BY IncWraps
<1>3. Gap(i, d) < W - 1 => Gap(Inc(i), d) = Gap(i, d) + 1
    BY <1>1, <1>2 DEF Gap
<1>4. Gap(i, d) >= 1 => Gap(i, Inc(d)) = Gap(i, d) - 1
    BY <1>1, <1>2 DEF Gap
<1> QED BY <1>3, <1>4

\* Counters that are no messages apart are equal.
LEMMA GapZero ==
    /\ \A d \in 0..(W-1) : Inc(d) \in 0..(W-1)
    /\ \A i, d \in 0..(W-1) : i # d => Gap(i, d) # 0
<1>1. W \in Nat /\ W > 1
    BY DriverAssumption
<1>2. ASSUME NEW d \in 0..(W-1) PROVE Inc(d) \in 0..(W-1)
    BY <1>1, IncWraps
<1>3. ASSUME NEW i \in 0..(W-1), NEW d \in 0..(W-1), i # d PROVE Gap(i, d) # 0
    BY <1>1, <1>3 DEF Gap
<1> QED BY <1>2, <1>3

\* The counted messages fit the counters.
LEMMA Bounds ==
    ASSUME Before
    PROVE  /\ Ahead \in Nat /\ pended \in Nat /\ Len(nwp) \in Nat
           /\ W \in Nat /\ RxIrqCnt \in 0..(W-1) /\ RxDoneCnt \in 0..(W-1)
           /\ Ahead + pended < W
<1>1. /\ TypeOK /\ CountInv /\ W \in Nat /\ MaxAhead \in Nat /\ W > MaxAhead + 1
    BY DriverAssumption DEF Before
<1>2. Len(nwp) \in Nat /\ Len(nwp) <= MaxAhead /\ pended \in Nat
    BY <1>1 DEF TypeOK
<1>3. RxIrqCnt \in 0..(W-1) /\ RxDoneCnt \in 0..(W-1)
    BY <1>1 DEF TypeOK
<1>4. Ahead \in Nat
    BY <1>1, <1>3 DEF Ahead, Gap
<1>5. Ahead + pended <= Len(nwp) + 1
    BY <1>1 DEF CountInv
<1> QED BY <1>1, <1>2, <1>3, <1>4, <1>5

LEMMA CountStep == Before /\ [Next]_vars /\ Undisturbed' => CountInv'
<1> SUFFICES ASSUME Before, [Next]_vars, Undisturbed' PROVE CountInv'
    OBVIOUS
<1>0. /\ CountInv /\ Spawn \in Proc /\ Task \subseteq Proc /\ msg[Spawn] \notin Task
      /\ pc \in [Proc -> TaskPc] /\ nwp \in Seq(Msg)
    BY DriverAssumption DEF Before, TypeOK, ResponseInv, Proc
<1> USE <1>0, NoErrorYet DEF CountInv, At, Goto
<1>1. ASSUME NEW t \in Task, Answer(t) PROVE CountInv'
  <2>1. nwp' = Append(nwp, t) /\ t \in Msg /\ UNCHANGED <<pc, RxIrqCnt, RxDoneCnt>>
      BY <1>1 DEF Answer, Announce, cb, Msg
  <2>2. Len(nwp') = Len(nwp) + 1
      BY <2>1, QueueSteps
  <2>3. pended' = pended \/ pended' = pended + 1
      BY <1>1, Zenon DEF Answer, Announce
  <2>4. Ahead' = Ahead
      BY <2>1 DEF Ahead
  <2> QED BY <2>1, <2>2, <2>3, <2>4, Bounds
<1>2. ASSUME NEW t \in Task, CmdOp(t) PROVE CountInv'
    BY <1>2 DEF CmdOp, Ahead, cb, device
<1>3. ASSUME NEW p \in Proc, TakeLock(p) PROVE CountInv'
    BY <1>3 DEF TakeLock, Ahead, cb, device
<1>4. ASSUME NEW p \in Proc, MsgRead(p) PROVE CountInv'
  <2>1. /\ nwp # <<>> /\ nwp' = Tail(nwp) /\ pc[p] = "read" /\ pc' = [pc EXCEPT ![p] = "done"]
        /\ UNCHANGED <<RxIrqCnt, RxDoneCnt, pended>>
      BY <1>4 DEF MsgRead, cb
  <2>2. Len(nwp') = Len(nwp) - 1
      BY <2>1, QueueSteps
  <2>3. Ahead' = Ahead /\ \A q \in Proc : ~At(q, "done")
      BY <2>1, OneInside DEF Ahead, InCommand
  <2> QED BY <2>1, <2>2, <2>3, Bounds
<1>5. ASSUME NEW p \in Proc, HandleError(p) PROVE CountInv'
    BY <1>5 DEF HandleError, Ahead, cb, device
<1>6. ASSUME NEW p \in Proc, DeleteLock(p) PROVE CountInv'
    BY <1>6 DEF DeleteLock, Ahead, cb, device
<1>7. ASSUME NEW t \in Task, SetWaited(t) PROVE CountInv'
    BY <1>7 DEF SetWaited, Ahead, cb, device
<1>8. ASSUME NEW t \in Task, MsgWrite(t) PROVE CountInv'
    BY <1>8 DEF MsgWrite, Ahead, cb, device
<1>9. ASSUME NEW t \in Task, Poll(t) PROVE CountInv'
  <2>1. /\ UNCHANGED <<nwp, pended, RxIrqCnt, RxDoneCnt>> /\ pc[t] = "poll"
        /\ pc' = [pc EXCEPT ![t] = IF ~waited THEN "unlock" ELSE IF Pending THEN "read" ELSE "sem"]
      BY <1>9 DEF Poll, cb, device
  <2>2. Ahead' = Ahead
      BY <2>1 DEF Ahead
  <2>3. Pending => Ahead >= 1
      BY Bounds DEF Pending, Ahead, Gap
  <2> QED BY <2>1, <2>2, <2>3, Bounds
<1>10. ASSUME NEW t \in Task, CmdDone(t) PROVE CountInv'
  <2>1. /\ pc[t] = "done" /\ pc' = [pc EXCEPT ![t] = "poll"] /\ RxDoneCnt' = Inc(RxDoneCnt)
        /\ UNCHANGED <<nwp, pended, RxIrqCnt>>
      BY <1>10 DEF CmdDone, device
  <2>2. Ahead >= 1
      BY <2>1
  <2>3. Ahead' = Ahead - 1
      BY <2>1, <2>2, Bounds, GapSteps DEF Ahead
  <2>4. \A q \in Proc : pc'[q] \notin {"read", "done"}
      BY <2>1, OneInside DEF InCommand
  <2> QED BY <2>1, <2>3, <2>4, Bounds
<1>11. ASSUME NEW t \in Task, SemTake(t) PROVE CountInv'
    BY <1>11 DEF SemTake, Ahead, cb, device
<1>12. ASSUME NEW t \in Task, SemTimeout(t) PROVE CountInv'
    BY <1>12 DEF SemTimeout, Ahead, cb, device
<1>13. ASSUME NEW t \in Task, UnlockCmd(t) PROVE CountInv'
    BY <1>13 DEF UnlockCmd, Ahead, cb, device
<1>14. ASSUME NEW t \in Task, CheckPending(t) PROVE CountInv'
    BY <1>14 DEF CheckPending, Ahead, cb, device
<1>15. ASSUME NEW t \in Task, RequestSpawn(t) PROVE CountInv'
    BY <1>15 DEF RequestSpawn, Ahead, cb, device
<1>16. ASSUME NEW m \in {Event, Abort}, Notify(m) PROVE CountInv'
  <2>1. nwp' = Append(nwp, m) /\ m \in Msg /\ UNCHANGED <<pc, RxIrqCnt, RxDoneCnt>>
      BY <1>16 DEF Notify, Announce, cb, Msg
  <2>2. Len(nwp') = Len(nwp) + 1
      BY <2>1, QueueSteps
  <2>3. pended' = pended \/ pended' = pended + 1
      BY <1>16, Zenon DEF Notify, Announce
  <2>4. Ahead' = Ahead
      BY <2>1 DEF Ahead
  <2> QED BY <2>1, <2>2, <2>3, <2>4, Bounds
<1>17. ASSUME RxIrqHandler PROVE CountInv'
  <2>1. /\ pended > 0 /\ pended' = pended - 1 /\ RxIrqCnt' = Inc(RxIrqCnt)
        /\ UNCHANGED <<pc, nwp, RxDoneCnt>>
      BY <1>17 DEF RxIrqHandler
  <2>2. Ahead' = Ahead + 1
      BY <2>1, Bounds, GapSteps DEF Ahead
  <2> QED BY <2>1, <2>2, Bounds
<1>18. ASSUME SpawnReceive PROVE CountInv'
    BY <1>18 DEF SpawnReceive, Ahead, cb, device
<1>19. ASSUME SpawnCheck PROVE CountInv'
  <2>1. /\ UNCHANGED <<nwp, pended, RxIrqCnt, RxDoneCnt>> /\ pc[Spawn] = "locked"
        /\ pc' = [pc EXCEPT ![Spawn] = IF Pending THEN "read" ELSE "unlock"]
      BY <1>19 DEF SpawnCheck, cb, device
  <2>2. Ahead' = Ahead
      BY <2>1 DEF Ahead
  <2>3. Pending => Ahead >= 1
      BY Bounds DEF Pending, Ahead, Gap
  <2> QED BY <2>1, <2>2, <2>3, Bounds
<1>20. ASSUME SpawnDone PROVE CountInv'
  <2>1. /\ pc[Spawn] = "done" /\ pc' = [pc EXCEPT ![Spawn] = "unlock"] /\ RxDoneCnt' = Inc(RxDoneCnt)
        /\ UNCHANGED <<nwp, pended, RxIrqCnt>>
      BY <1>20, <1>0 DEF SpawnDone, device
  <2>2. Ahead >= 1
      BY <2>1
  <2>3. Ahead' = Ahead - 1
      BY <2>1, <2>2, Bounds, GapSteps DEF Ahead
  <2>4. \A q \in Proc : pc'[q] \notin {"read", "done"}
      BY <2>1, OneInside DEF InCommand
  <2> QED BY <2>1, <2>3, <2>4, Bounds
<1>21. ASSUME SpawnUnlock PROVE CountInv'
    BY <1>21 DEF SpawnUnlock, Ahead, cb, device
<1>22. CASE UNCHANGED vars
    BY <1>22 DEF vars, Ahead
<1> QED
    BY <1>1, <1>2, <1>3, <1>4, <1>5, <1>6, <1>7, <1>8, <1>9, <1>10, <1>11, <1>12, <1>13, <1>14, <1>15, <1>16, <1>17, <1>18, <1>19, <1>20, <1>21, <1>22, StepCases, Zenon

\* With one message announced ahead, every step leaves a pending message to a
\* request, to the spawn task or to a command.
LEMMA ServeStep ==
    ASSUME MaxAhead = 1, Before, ServeInv, [Next]_vars, Undisturbed'
    PROVE  ServeInv'
<1>0. /\ Spawn \in Proc /\ Task \subseteq Proc /\ Spawn \notin Task /\ msg[Spawn] \notin Task
      /\ pc \in [Proc -> TaskPc] /\ spawnq \in Nat /\ QueueLen \in Nat \ {0}
    BY DriverAssumption DEF Before, TypeOK, ResponseInv, Proc
<1> USE <1>0, NoErrorYet DEF ServeInv, At, Goto, Pending, InCommand
<1>1. ASSUME NEW t \in Task, Answer(t) PROVE ServeInv'
    BY <1>1 DEF Answer, Ahead, cb
<1>2. ASSUME NEW t \in Task, CmdOp(t) PROVE ServeInv'
    BY <1>2 DEF CmdOp, Ahead, cb, device
<1>3. ASSUME NEW p \in Proc, TakeLock(p) PROVE ServeInv'
    BY <1>3 DEF TakeLock, Ahead, cb, device
<1>4. ASSUME NEW p \in Proc, MsgRead(p) PROVE ServeInv'
  <2>1. /\ pc[p] = "read" /\ pc' = [pc EXCEPT ![p] = "done"]
        /\ UNCHANGED <<RxIrqCnt, RxDoneCnt, spawnq>>
      BY <1>4 DEF MsgRead, cb
  <2>2. \A r \in Proc : ~At(r, "done")
      BY <2>1, OneInside DEF InCommand
  <2>3. Ahead + pended <= Len(nwp) /\ Len(nwp) <= 1
      BY <2>2 DEF Before, CountInv, TypeOK
  <2>4. Ahead' <= 1 /\ Ahead' \in Nat
      BY <2>1, <2>3, Bounds DEF Ahead
  <2>5. CASE p = Spawn
      BY <2>1, <2>4, <2>5
  <2>6. CASE p \in Task
      BY <2>1, <2>2, <2>6
  <2> QED BY <2>5, <2>6 DEF Proc
<1>5. ASSUME NEW p \in Proc, HandleError(p) PROVE ServeInv'
    BY <1>5 DEF HandleError
<1>6. ASSUME NEW p \in Proc, DeleteLock(p) PROVE ServeInv'
    BY <1>6 DEF DeleteLock
<1>7. ASSUME NEW t \in Task, SetWaited(t) PROVE ServeInv'
    BY <1>7 DEF SetWaited, Ahead, cb, device
<1>8. ASSUME NEW t \in Task, MsgWrite(t) PROVE ServeInv'
    BY <1>8 DEF MsgWrite, Ahead, cb, device
<1>9. ASSUME NEW t \in Task, Poll(t) PROVE ServeInv'
    BY <1>9 DEF Poll, Ahead, cb, device
<1>10. ASSUME NEW t \in Task, CmdDone(t) PROVE ServeInv'
  <2>1. pc[t] = "done" /\ pc' = [pc EXCEPT ![t] = "poll"] /\ UNCHANGED spawnq
      BY <1>10 DEF CmdDone, device
  <2>2. pc[Spawn] # "done"
      BY <2>1, OneInside
  <2> QED BY <2>1, <2>2
<1>11. ASSUME NEW t \in Task, SemTake(t) PROVE ServeInv'
    BY <1>11 DEF SemTake, Ahead, cb, device
<1>12. ASSUME NEW t \in Task, SemTimeout(t) PROVE ServeInv'
    BY <1>12 DEF SemTimeout, Ahead, cb, device
<1>13. ASSUME NEW t \in Task, UnlockCmd(t) PROVE ServeInv'
    BY <1>13 DEF UnlockCmd, Ahead, cb, device
<1>14. ASSUME NEW t \in Task, CheckPending(t) PROVE ServeInv'
  <2>1. /\ pc[t] = "check" /\ pc' = [pc EXCEPT ![t] = IF Pending THEN "spawn" ELSE "idle"]
        /\ UNCHANGED <<RxIrqCnt, RxDoneCnt, spawnq>>
      BY <1>14 DEF CheckPending, cb, device
  <2> QED BY <2>1 DEF Ahead
<1>15. ASSUME NEW t \in Task, RequestSpawn(t) PROVE ServeInv'
    BY <1>15 DEF RequestSpawn, Ahead, cb
<1>16. ASSUME NEW m \in {Event, Abort}, Notify(m) PROVE ServeInv'
    BY <1>16 DEF Notify, Ahead, cb
<1>17. ASSUME RxIrqHandler PROVE ServeInv'
  <2>1. CASE waited
    <3>1. PICK t \in Task : pc[t] \in InCommand \ {"unlock"}
        BY <2>1 DEF Before, CommandInv
    <3>2. pc[Spawn] # "done" /\ pc' = pc
        BY <1>17, <3>1, OneInside DEF RxIrqHandler
    <3> QED BY <3>1, <3>2
  <2>2. CASE ~waited
      BY <1>17, <2>2 DEF RxIrqHandler
  <2> QED BY <2>1, <2>2
<1>18. ASSUME SpawnReceive PROVE ServeInv'
    BY <1>18 DEF SpawnReceive
<1>19. ASSUME SpawnCheck PROVE ServeInv'
    BY <1>19 DEF SpawnCheck, cb, device
<1>20. ASSUME SpawnDone PROVE ServeInv'
  <2>1. /\ pc[Spawn] = "done" /\ pc' = [pc EXCEPT ![Spawn] = "unlock"] /\ RxDoneCnt' = Inc(RxDoneCnt)
        /\ UNCHANGED <<RxIrqCnt, spawnq>>
      BY <1>20 DEF SpawnDone, device
  <2>2. Ahead >= 1 /\ Ahead \in Nat
      BY <2>1, Bounds DEF Before, CountInv
  <2>3. Ahead' = Ahead - 1
      BY <2>1, <2>2, Bounds, GapSteps DEF Ahead
  <2>4. Pending' => Ahead' # 0
    <3>1. RxIrqCnt \in 0..(W-1) /\ Inc(RxDoneCnt) \in 0..(W-1)
        BY GapZero, Bounds
    <3> QED BY <2>1, <3>1, GapZero DEF Ahead
  <2> QED BY <2>1, <2>2, <2>3, <2>4
<1>21. ASSUME SpawnUnlock PROVE ServeInv'
    BY <1>21 DEF SpawnUnlock, cb, device
<1>22. CASE UNCHANGED vars
    BY <1>22 DEF vars, Ahead
<1> QED
    BY <1>1, <1>2, <1>3, <1>4, <1>5, <1>6, <1>7, <1>8, <1>9, <1>10, <1>11, <1>12, <1>13, <1>14, <1>15, <1>16, <1>17, <1>18, <1>19, <1>20, <1>21, <1>22, StepCases, Zenon

LEMMA InvInit == Init => DriverInv
<1> SUFFICES ASSUME Init PROVE DriverInv
    OBVIOUS
<1>1. TypeOK
    BY TypeInit
<1>2. Len(nwp) = 0 /\ pended = 0 /\ Ahead = 0
    BY DEF Init, Ahead, Gap
<1>3. \A p \in Proc : pc[p] = "idle" /\ msg[p] = None
    BY DEF Init
<1>4. ErrorInv /\ CommandInv
  <2>1. ~deleted /\ ~waited
      BY Zenon DEF Init
  <2> QED BY <1>3, <2>1 DEF ErrorInv, CommandInv, InCommand, At, Proc
<1>5. ResponseInv
  <2>1. \A i \in 1..Len(nwp) : FALSE
      BY <1>2
  <2>2. \A p \in Proc : msg[p] \notin Task
      BY <1>3, DriverAssumption
  <2>3. \A t \in Task : t \notin todo /\ ~Queued(t) /\ msg[t] # t
      BY <2>1, <2>2 DEF Init, Queued, Proc
  <2> QED BY <2>1, <2>2, <2>3 DEF Init, ResponseInv
<1>6. CountInv
    BY <1>2, <1>3 DEF CountInv
<1>7. ServeInv
    BY <1>3 DEF Init, ServeInv, Pending, At, Proc
<1> QED BY <1>1, <1>4, <1>5, <1>6, <1>7 DEF DriverInv

LEMMA InvStep == DriverInv /\ [Next]_vars => DriverInv'
<1> SUFFICES ASSUME DriverInv, [Next]_vars PROVE DriverInv'
    OBVIOUS
<1>1. TypeOK' /\ ErrorInv'
    BY TypeStep, ErrorStep DEF DriverInv
<1>2. ASSUME Undisturbed' PROVE CommandInv' /\ ResponseInv' /\ CountInv'
  <2>1. Before
      BY <1>2, StaysDisturbed DEF DriverInv, Before
  <2> QED BY <1>2, <2>1, CommandStep, ResponseStep, CountStep
<1>3. ASSUME Undisturbed', MaxAhead = 1 PROVE ServeInv'
  <2>1. Before /\ ServeInv
      BY <1>3, StaysDisturbed DEF DriverInv, Before
  <2> QED BY <1>3, <2>1, ServeStep
<1> QED BY <1>1, <1>2, <1>3 DEF DriverInv

\* The inductive invariant of the command and receive paths of driver.c holds.
THEOREM DriverCorrect == Spec => []DriverInv
BY InvInit, InvStep, PTL DEF Spec

\* Every variable of the driver keeps its type: the counters stay in 8 bits, the
\* spawn queue and the announced messages within their bounds.
THEOREM TypeCorrect == Spec => []TypeOK
<1>1. DriverInv => TypeOK
    BY DEF DriverInv
<1> QED BY <1>1, DriverCorrect, PTL

\* A response is read only by the command it answers, for any number of tasks and
\* of messages announced ahead.
THEOREM OwnResponseCorrect == Spec => []OwnResponse
<1>1. DriverInv => OwnResponse
    BY DEF DriverInv, OwnResponse, ResponseInv, At
<1> QED BY <1>1, DriverCorrect, PTL

\* _SlDrvMsgRead always finds a message: the counters of interrupts and of reads do
\* not run apart, wrapped or not.
THEOREM ReaderFindsMessageCorrect == Spec => []ReaderFindsMessage
<1>1. ASSUME DriverInv, Undisturbed, NEW p \in Proc, At(p, "read"), nwp = <<>>
      PROVE  FALSE
  <2>1. Before /\ pc[p] = "read"
      BY <1>1 DEF Before, DriverInv, At
  <2>2. \A q \in Proc : ~At(q, "done")
      BY <2>1, OneInside DEF At, InCommand
  <2>3. Ahead >= 1 /\ Ahead + pended <= Len(nwp)
      BY <2>1, <2>2 DEF Before, CountInv
  <2>4. Len(nwp) = 0
      BY <1>1
  <2> QED BY <2>1, <2>3, <2>4, Bounds
<1>2. DriverInv => ReaderFindsMessage
    BY <1>1 DEF ReaderFindsMessage
<1> QED BY <1>2, DriverCorrect, PTL

\* With one message announced ahead, as this processor does, no counted message is
\* left behind: a request the full spawn queue refused is made up for by the ones
\* in it, and what arrives during a command by the look at the counters after it.
THEOREM NoStrandedMessageCorrect ==
    ASSUME MaxAhead = 1
    PROVE  Spec => []NoStrandedMessage
<1>1. ASSUME DriverInv, Undisturbed, spawnq = 0, \A p \in Proc : At(p, "idle")
      PROVE  ~Pending
  <2>1. ServeInv /\ \A p \in Proc : pc[p] = "idle"
      BY <1>1 DEF DriverInv, At
  <2> QED BY <1>1, <2>1 DEF ServeInv, InCommand, Proc
<1>2. DriverInv => NoStrandedMessage
    BY <1>1 DEF NoStrandedMessage
<1> QED BY <1>2, DriverCorrect, PTL

------------------------------------------------------------------------------
(***************************************************************************)
(* The SPI transport under the driver, which makes one call of it at a     *)
(* time.  Its state is another, and it has a specification of its own.     *)
(***************************************************************************)
\* The values a queue can hold are told apart by their status.
LEMMA SpiValues ==
    /\ Null \notin Completions /\ Empty \notin Completions /\ NoResult \notin Completions
    /\ Null # Empty
    /\ NoTransfer \notin Transfers /\ ~NoTransfer.own
BY DEF Null, Empty, NoResult, NoTransfer, Completions, Status, Transfers, Dirs

\* The interface starts closed, with everything in range.
LEMMA SpiInitially == SpiInit => SpiInv
BY SpiValues DEF SpiInit, SpiInv, SpiTypeOK, CallInv, QueueInv, OwnCompletion,
   NoLostCompletion, Dirs

\* Opening, closing and calling keep the inductive invariant.
LEMMA SpiInterface ==
    ASSUME SpiInv, IfOpen \/ IfClose \/ (\E d \in Dirs : Call(d))
    PROVE  SpiInv'
<1>1. CASE IfOpen
  <2>1. PICK made \in SUBSET {d \in Dirs : queue[d] = Null} :
          queue' = [d \in Dirs |-> IF d \in made THEN Empty ELSE queue[d]]
    BY <1>1 DEF IfOpen
  <2>2. SpiTypeOK'
    BY <1>1, <2>1 DEF IfOpen, SpiInv, SpiTypeOK
  <2> QED
    BY <1>1, <2>2 DEF IfOpen, SpiInv, CallInv, QueueInv, OwnCompletion, NoLostCompletion
<1>2. CASE IfClose
  BY <1>2, SpiValues
  DEF IfClose, SpiInv, SpiTypeOK, CallInv, QueueInv, OwnCompletion, NoLostCompletion
<1>3. ASSUME NEW d \in Dirs, Call(d) PROVE SpiInv'
  BY <1>3, SpiValues
  DEF Call, SpiInv, SpiTypeOK, CallInv, QueueInv, OwnCompletion, NoLostCompletion
<1> QED
  BY <1>1, <1>2, <1>3

\* A transfer that a returning call leaves behind is of an earlier call; an
\* idle driver stays idle.
LEMMA DisownTransfer ==
    ASSUME NEW x \in Transfers \cup {NoTransfer}
    PROVE  /\ ~Disown(x).own
           /\ Disown(x) \in Transfers \cup {NoTransfer}
           /\ x = NoTransfer => Disown(x) = NoTransfer
<1>1. CASE x \in Transfers
  <2>1. Disown(x) \in Transfers /\ ~Disown(x).own
    BY <1>1 DEF Disown, Transfers
  <2> QED
    BY <1>1, <2>1, SpiValues
<1>2. CASE x = NoTransfer
  <2>1. Disown(x) = NoTransfer
    <3>1. Disown(x) = [x EXCEPT !.own = FALSE]
      BY Zenon DEF Disown
    <3>2. NoTransfer = [dir |-> "none", own |-> FALSE]
      BY Zenon DEF NoTransfer
    <3> QED
      BY <1>2, <3>1, <3>2
  <2> QED
    BY <2>1, SpiValues
<1> QED
  BY <1>1, <1>2

\* A completion left in a queue stays a completion.
LEMMA DisownCompletion == \A x \in Completions : Disown(x) \in Completions
BY DEF Disown, Completions

\* Every step of IfRead and IfWrite keeps the inductive invariant.
LEMMA SpiCall == SpiInv /\ CallStep => SpiInv'
<1> SUFFICES ASSUME SpiInv, CallStep PROVE SpiInv'
  OBVIOUS
<1> USE SpiValues DEF SpiInv, SpiTypeOK, CallInv, QueueInv, OwnCompletion, NoLostCompletion
<1>1. CASE ResetQueue
  BY <1>1 DEF ResetQueue
<1>2. CASE StartTransfer
  BY <1>2 DEF StartTransfer, Transfers
<1>3. CASE StartRefused
  BY <1>3 DEF StartRefused
<1>4. CASE ReceiveStatus
  BY <1>4 DEF ReceiveStatus
<1>5. CASE Timeout
  BY <1>5 DEF Timeout
<1>6. CASE Return
  <2>1. xfer' \in Transfers \cup {NoTransfer} /\ ~xfer'.own /\ (xfer' # NoTransfer => fd')
    BY <1>6, DisownTransfer DEF Return
  <2>2. queue' \in [Dirs -> Completions \cup {Null, Empty}]
    BY <1>6, DisownCompletion DEF Return
  <2> QED
    BY <1>6, <2>1, <2>2 DEF Return
<1> QED
  BY <1>1, <1>2, <1>3, <1>4, <1>5, <1>6 DEF CallStep

\* The completion interrupt keeps the inductive invariant wherever it strikes.
LEMMA SpiInterrupt == SpiInv /\ Complete => SpiInv'
<1> SUFFICES ASSUME SpiInv, Complete PROVE SpiInv'
  OBVIOUS
<1>1. PICK s \in Status : Post(xfer.dir, [status |-> s, own |-> xfer.own])
  BY DEF Complete
<1> DEFINE done == [status |-> s, own |-> xfer.own]
<1>2. xfer \in Transfers /\ xfer.dir \in Dirs /\ done \in Completions /\ done.own = xfer.own
  BY DEF Complete, SpiInv, SpiTypeOK, Transfers, Completions
<1>3. queue' = [queue EXCEPT ![xfer.dir] = IF @ = Empty THEN done ELSE @]
  BY <1>1 DEF Post
<1>4. SpiTypeOK'
  BY <1>2, <1>3 DEF Complete, SpiInv, SpiTypeOK
<1>5. CallInv'
  BY <1>2, <1>3, SpiValues DEF Complete, SpiInv, SpiTypeOK, CallInv
<1>6. QueueInv'
  <2>1. CASE stage = "wait"
    <3>1. xfer.dir = dir /\ done.own
      BY <1>2, <2>1 DEF Complete, SpiInv, CallInv
    <3> QED
      BY <1>2, <1>3, <2>1, <3>1, SpiValues DEF Complete, SpiInv, SpiTypeOK, QueueInv
  <2>2. CASE stage = "start"
    <3>1. ~slipped' => ~slipped /\ xfer.dir # dir
      BY <2>2 DEF Complete
    <3> QED
      BY <1>2, <1>3, <2>2, <3>1, SpiValues DEF Complete, SpiInv, SpiTypeOK, QueueInv
  <2> QED
    BY <2>1, <2>2 DEF Complete, QueueInv
<1>7. OwnCompletion'
  BY DEF Complete, SpiInv, OwnCompletion
<1>8. NoLostCompletion'
  BY <1>2, <1>3, SpiValues DEF Complete, SpiInv, SpiTypeOK, CallInv, NoLostCompletion
<1> QED
  BY <1>4, <1>5, <1>6, <1>7, <1>8 DEF SpiInv

\* The inductive invariant holds for every sequence of calls, completions and
\* timeouts of the transport.
THEOREM SpiCorrect == SpiSpec => []SpiInv
<1>1. SpiInv /\ [SpiNext]_spiVars => SpiInv'
  <2> SUFFICES ASSUME SpiInv, [SpiNext]_spiVars PROVE SpiInv'
    OBVIOUS
  <2>1. CASE UNCHANGED spiVars
    BY <2>1 DEF spiVars, SpiInv, SpiTypeOK, CallInv, QueueInv, OwnCompletion, NoLostCompletion
  <2> QED
    BY <2>1, SpiInterface, SpiCall, SpiInterrupt DEF SpiNext
<1> QED
  BY <1>1, SpiInitially, PTL DEF SpiSpec

\* The transfer in flight, the completion queues and the steps of a call keep
\* their types through IfOpen, IfClose, IfRead, IfWrite and the interrupt.
THEOREM SpiTypeCorrect == SpiSpec => []SpiTypeOK
BY SpiCorrect, PTL DEF SpiInv

\* IfRead and IfWrite never report the completion of an earlier call, save
\* one that slips in between xQueueReset and the start of the transfer.
THEOREM OwnCompletionCorrect == SpiSpec => []OwnCompletion
BY SpiCorrect, PTL DEF SpiInv

\* No completion is lost between the interrupt and the waiting call.
THEOREM NoLostCompletionCorrect == SpiSpec => []NoLostCompletion
BY SpiCorrect, PTL DEF SpiInv
=============================================================================
