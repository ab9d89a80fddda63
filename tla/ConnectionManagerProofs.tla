---------------------- MODULE ConnectionManagerProofs ----------------------
(***************************************************************************)
(* Proofs about the network mediator, for any number of services, sockets  *)
(* and pool elements and any width of the tick counter.                    *)
(***************************************************************************)
EXTENDS ConnectionManager, TLAPS

\* The 32-bit tick arithmetic of Tick and CallWaitRx stays in range.
LEMMA TickRange ==
    ASSUME NEW n \in Int
    PROVE  n % TickModulus \in Ticks
BY ConstantsOK DEF Ticks

-----------------------------------------------------------------------------
(* Types.                                                                  *)

TypeInv == TypeOK /\ SlotInRange

\* The pool and the tasks start well-typed: init() of connection.zig.
LEMMA TypeInit == Init => TypeInv
<1> SUFFICES ASSUME Init PROVE TypeInv
    OBVIOUS
<1> USE ConstantsOK DEF Init, Ticks, Slots, None
<1>1. /\ now \in Ticks /\ cur \in Ticks /\ slot \in 1..(N + 1)
      /\ sd \in [Slots -> Sockets \cup {NoSocket}]
      /\ deadline \in [Slots -> Ticks]
      /\ rx_queue \in [Slots -> Ticks \cup {None}]
      /\ rx_signal \in [Slots -> {0, 1, None}]
    OBVIOUS
<1>2. /\ mutex \in Clients \cup {Free, Manager}
      /\ read_set \in SUBSET Sockets /\ readable \in SUBSET Sockets
    OBVIOUS
<1>3. notified \in BOOLEAN /\ suspended \in BOOLEAN /\ maintenance \in BOOLEAN /\ raced \in BOOLEAN
    OBVIOUS
<1>4. mpc \in ManagerPC /\ SlotInRange
    BY DEF ManagerPC, SlotInRange
<1>5. /\ pc \in [Clients -> ClientPC]
      /\ sock \in [Clients -> Sockets \cup {NoSocket}]
      /\ conn \in [Clients -> Slots]
      /\ due \in [Clients -> Ticks]
    BY DEF ClientPC
<1>6. QED  BY <1>1, <1>2, <1>3, <1>4, <1>5 DEF TypeInv, TypeOK

\* Ticks, arriving data, suspension and resumption keep the types.
LEMMA TypeEnvironment ==
    TypeInv /\ (Tick \/ Arrive \/ Suspend \/ Resume) => TypeInv'
<1> SUFFICES ASSUME TypeInv, Tick \/ Arrive \/ Suspend \/ Resume
             PROVE  TypeInv'
    OBVIOUS
<1> USE DEF TypeInv, TypeOK, SlotInRange, poolVars, clientVars, managerVars
<1>1. CASE Tick
  <2>1. now' \in Ticks
    BY <1>1, TickRange DEF Tick, Ticks
  <2>2. QED  BY <1>1, <2>1 DEF Tick
<1>2. CASE Arrive
  BY <1>2 DEF Arrive
<1>3. CASE Suspend
  BY <1>3 DEF Suspend
<1>4. CASE Resume
  BY <1>4 DEF Resume, ManagerPC
<1>5. QED  BY <1>1, <1>2, <1>3, <1>4

\* Every step of run() keeps the types and its loop index in range.
LEMMA TypeManager == TypeInv /\ ManagerStep => TypeInv'
<1> SUFFICES ASSUME TypeInv, ManagerStep
             PROVE  TypeInv'
    OBVIOUS
<1> USE ConstantsOK DEF TypeInv, TypeOK, SlotInRange, poolVars, clientVars, managerVars,
        ManagerPC, Slots, Ticks, None
<1>1. CASE Start         BY <1>1 DEF Start
<1>2. CASE Begin
  <2> USE <1>2 DEF Begin
  <2>1. slot' \in 1..(N + 1) /\ cur' \in Ticks
    OBVIOUS
  <2>2. maintenance' \in BOOLEAN /\ read_set' \in SUBSET Sockets
    OBVIOUS
  <2>3. mpc' \in ManagerPC /\ SlotInRange'
    OBVIOUS
  <2>4. QED  BY <2>1, <2>2, <2>3
<1>3. CASE ScanFree      BY <1>3 DEF ScanFree, Scanning
<1>4. CASE ScanUnarmed   BY <1>4 DEF ScanUnarmed, Receive, Scanning
<1>5. CASE ScanArmed
  <2>1. slot \in Slots /\ NewDeadline(slot) \in Ticks
    BY <1>5 DEF ScanArmed, Receive, Scanning, NewDeadline
  <2>2. deadline' \in [Slots -> Ticks] /\ rx_queue' \in [Slots -> Ticks \cup {None}]
    BY <1>5, <2>1 DEF ScanArmed, Receive
  <2>3. slot' \in 1..(N + 1) /\ SlotInRange'
    BY <1>5, <2>1 DEF ScanArmed, Receive, Scanning
  <2>4. read_set' \in SUBSET Sockets
    BY <1>5, <2>1 DEF ScanArmed, Receive
  <2>5. QED  BY <1>5, <2>2, <2>3, <2>4 DEF ScanArmed, Receive
<1>6. CASE ScanExpired   BY <1>6 DEF ScanExpired, Receive, Scanning
<1>7. CASE InvalTake     BY <1>7 DEF InvalTake
<1>8. CASE InvalWrite    BY <1>8 DEF InvalWrite
<1>9. CASE Expire        BY <1>9 DEF Expire, Answer
<1>10. CASE Dispatch
  <2> USE <1>10 DEF Dispatch
  <2>1. slot' \in 1..(N + 1) /\ cur' \in Ticks
    OBVIOUS
  <2>2. maintenance' \in BOOLEAN
    OBVIOUS
  <2>3. mpc' \in ManagerPC /\ SlotInRange'
    OBVIOUS
  <2>4. QED  BY <2>1, <2>2, <2>3
<1>11. CASE SelectReady  BY <1>11 DEF SelectReady
<1>12. CASE SelectNone   BY <1>12 DEF SelectNone
<1>13. CASE SelectError  BY <1>13 DEF SelectError
<1>14. CASE AnswerScan
  <2> USE <1>14 DEF AnswerScan
  <2>1. slot' \in 1..(N + 1) /\ mpc' \in ManagerPC /\ SlotInRange'
    OBVIOUS
  <2>2. deadline' \in [Slots -> Ticks]
    OBVIOUS
  <2>3. QED  BY <2>1, <2>2
<1>15. CASE AnswerSend   BY <1>15 DEF AnswerSend, Answer
<1>16. CASE AnswerEnd    BY <1>16 DEF AnswerEnd
<1>17. CASE WaitForNotify BY <1>17 DEF WaitForNotify
<1>18. QED
  BY <1>1, <1>2, <1>3, <1>4, <1>5, <1>6, <1>7, <1>8, <1>9, <1>10, <1>11, <1>12,
     <1>13, <1>14, <1>15, <1>16, <1>17 DEF ManagerStep

\* Every step of a service, inside wait_rx or between calls, keeps the types.
LEMMA TypeClient ==
    ASSUME TypeInv, NEW c \in Clients, ClientStep(c)
    PROVE  TypeInv'
<1> USE ConstantsOK DEF TypeInv, TypeOK, SlotInRange, poolVars, clientVars, managerVars,
        ClientPC
<1>1. CASE OpenSocket(c)    BY <1>1 DEF OpenSocket
<1>2. CASE CloseSocket(c)   BY <1>2 DEF CloseSocket
<1>3. CASE ReadSocket(c)    BY <1>3 DEF ReadSocket
<1>4. CASE CallWaitRx(c)
  <2>1. PICK t \in Timeouts : due' = [due EXCEPT ![c] = (now + t) % TickModulus]
    BY <1>4 DEF CallWaitRx
  <2>2. (now + t) % TickModulus \in Ticks
    BY TickRange DEF Ticks
  <2>3. QED  BY <1>4, <2>1, <2>2 DEF CallWaitRx
<1>5. CASE FindSocket(c)
  <2>1. raced' \in BOOLEAN
    BY <1>5 DEF FindSocket, SearchSocket, Settle
  <2>2. pc' \in [Clients -> ClientPC]
    BY <1>5 DEF FindSocket, SearchSocket, Settle
  <2>3. conn' \in [Clients -> Slots]
    BY <1>5 DEF FindSocket, SearchSocket, Slots
  <2>4. QED  BY <1>5, <2>1, <2>2, <2>3 DEF FindSocket, SearchSocket
<1>6. CASE FindFree(c)
  <2>1. raced' \in BOOLEAN
    BY <1>6 DEF FindFree, Settle
  <2>2. pc' \in [Clients -> ClientPC]
    BY <1>6 DEF FindFree, Settle
  <2>3. conn' \in [Clients -> Slots]
    <3>1. \/ conn' = conn
          \/ conn[c] < N /\ conn' = [conn EXCEPT ![c] = conn[c] + 1]
      BY <1>6 DEF FindFree
    <3>2. QED  BY <3>1 DEF Slots
  <2>4. QED  BY <1>6, <2>1, <2>2, <2>3 DEF FindFree
<1>7. CASE ClaimTake(c)     BY <1>7 DEF ClaimTake
<1>8. CASE ClaimWrite(c)    BY <1>8 DEF ClaimWrite
<1>9. CASE ResetSignal(c)   BY <1>9 DEF ResetSignal
<1>10. CASE SendDeadline(c) BY <1>10 DEF SendDeadline
<1>11. CASE NotifyManager(c) BY <1>11 DEF NotifyManager
<1>12. CASE ReceiveAnswer(c) BY <1>12 DEF ReceiveAnswer, Slots, Ticks
<1>13. QED
  BY <1>1, <1>2, <1>3, <1>4, <1>5, <1>6, <1>7, <1>8, <1>9, <1>10, <1>11, <1>12
     DEF ClientStep, WaitRxStep

\* Every step keeps the types.
LEMMA TypeStep == TypeInv /\ [Next]_vars => TypeInv'
<1> SUFFICES ASSUME TypeInv, [Next]_vars PROVE TypeInv'
    OBVIOUS
<1>1. CASE UNCHANGED vars
  BY <1>1 DEF vars, managerVars, poolVars, clientVars, TypeInv, TypeOK, SlotInRange
<1>2. CASE Next
  BY <1>2, TypeEnvironment, TypeManager, TypeClient DEF Next
<1>3. QED  BY <1>1, <1>2

\* Type correctness of the pool, the manager and the services, and with it
\* that the 32-bit deadlines never leave their range.
THEOREM TypeCorrect == Spec => []TypeOK
<1>1. Spec => []TypeInv
  BY TypeInit, TypeStep, PTL DEF Spec
<1>2. TypeInv => TypeOK
  BY DEF TypeInv
<1>3. QED  BY <1>1, <1>2, PTL

-----------------------------------------------------------------------------
(* The mutex.                                                              *)

\* What a step of run() leaves alone.
LEMMA ManagerFrame ==
    ManagerStep =>
        /\ clientVars' = clientVars
        /\ readable' = readable
        /\ sd' = sd \/ InvalWrite
        /\ \/ InvalTake \/ InvalWrite
           \/ mutex' = mutex /\ mpc # "invalWrite" /\ mpc' # "invalWrite"
<1> SUFFICES ASSUME ManagerStep
             PROVE  /\ clientVars' = clientVars
                    /\ readable' = readable
                    /\ sd' = sd \/ InvalWrite
                    /\ \/ InvalTake \/ InvalWrite
                       \/ mutex' = mutex /\ mpc # "invalWrite" /\ mpc' # "invalWrite"
    OBVIOUS
<1> USE DEF poolVars
<1>1. CASE Start \/ Begin \/ ScanFree \/ Dispatch
  BY <1>1 DEF Start, Begin, ScanFree, Scanning, Dispatch
<1>2. CASE ScanUnarmed \/ ScanArmed \/ ScanExpired
  BY <1>2 DEF ScanUnarmed, ScanArmed, ScanExpired, Receive, Scanning
<1>3. CASE InvalTake \/ InvalWrite
  BY <1>3 DEF InvalTake, InvalWrite
<1>4. CASE Expire \/ AnswerSend \/ AnswerEnd \/ AnswerScan
  BY <1>4 DEF Expire, AnswerSend, AnswerEnd, AnswerScan
<1>5. CASE SelectReady \/ SelectNone \/ SelectError \/ WaitForNotify
  BY <1>5 DEF SelectReady, SelectNone, SelectError, WaitForNotify
<1>6. QED  BY <1>1, <1>2, <1>3, <1>4, <1>5 DEF ManagerStep

\* What the environment leaves alone.
LEMMA EnvironmentFrame ==
    Tick \/ Arrive \/ Suspend \/ Resume =>
        /\ clientVars' = clientVars
        /\ <<sd, deadline, rx_queue, rx_signal, mutex>>'
              = <<sd, deadline, rx_queue, rx_signal, mutex>>
        /\ notified' = notified \/ (mpc = "wait" /\ mpc' = "begin")
        /\ <<slot, cur, read_set, maintenance>>' = <<slot, cur, read_set, maintenance>>
        /\ mpc' = mpc \/ (mpc = "wait" /\ mpc' = "begin")
        /\ readable' = readable \/ Arrive
BY DEF Tick, Arrive, Suspend, Resume, managerVars, poolVars

\* What a step of a service leaves alone.
LEMMA ClientFrame ==
    ASSUME NEW c \in Clients, ClientStep(c)
    PROVE  /\ managerVars' = managerVars
           /\ now' = now
           /\ deadline' = deadline
           /\ sd' = sd \/ ClaimWrite(c)
           /\ sock' = sock \/ OpenSocket(c) \/ CloseSocket(c)
           /\ readable' = readable \/ CloseSocket(c) \/ ReadSocket(c)
<1> USE DEF poolVars, clientVars
<1>1. CASE OpenSocket(c) \/ CloseSocket(c) \/ ReadSocket(c) \/ CallWaitRx(c)
  BY <1>1 DEF OpenSocket, CloseSocket, ReadSocket, CallWaitRx
<1>2. CASE FindSocket(c) \/ FindFree(c)
  BY <1>2 DEF FindSocket, SearchSocket, FindFree
<1>3. CASE ClaimTake(c) \/ ClaimWrite(c) \/ ResetSignal(c)
  BY <1>3 DEF ClaimTake, ClaimWrite, ResetSignal
<1>4. CASE SendDeadline(c) \/ NotifyManager(c) \/ ReceiveAnswer(c)
  BY <1>4 DEF SendDeadline, NotifyManager, ReceiveAnswer
<1>5. QED  BY <1>1, <1>2, <1>3, <1>4 DEF ClientStep, WaitRxStep

\* take and give in run() and findFreeSocket keep the mutex with its holder.
LEMMA MutexStep == TypeInv /\ MutexHeld /\ [Next]_vars => MutexHeld'
<1> SUFFICES ASSUME TypeInv, MutexHeld, [Next]_vars PROVE MutexHeld'
    OBVIOUS
<1> USE DEF TypeInv, TypeOK, MutexHeld
<1>1. CASE UNCHANGED vars
  BY <1>1 DEF vars, managerVars, poolVars, clientVars
<1>2. CASE Tick \/ Arrive \/ Suspend \/ Resume
  BY <1>2, EnvironmentFrame DEF poolVars, clientVars
<1>3. CASE ManagerStep
  <2>1. CASE InvalTake
    BY <1>3, <2>1, ManagerFrame, ConstantsOK DEF InvalTake, clientVars
  <2>2. CASE InvalWrite
    BY <1>3, <2>2, ManagerFrame, ConstantsOK DEF InvalWrite, clientVars
  <2>3. QED  BY <1>3, <2>1, <2>2, ManagerFrame DEF clientVars
<1>4. ASSUME NEW c \in Clients, ClientStep(c) PROVE MutexHeld'
  <2> USE <1>4, ConstantsOK DEF poolVars, clientVars, managerVars, ClientPC
  <2>1. CASE OpenSocket(c) \/ CloseSocket(c) \/ ReadSocket(c) \/ CallWaitRx(c)
    BY <2>1 DEF OpenSocket, CloseSocket, ReadSocket, CallWaitRx
  <2>2. CASE FindSocket(c)
    BY <2>2 DEF FindSocket, SearchSocket, Settle
  <2>3. CASE FindFree(c)
    BY <2>3 DEF FindFree, Settle
  <2>4. CASE ClaimTake(c)
    BY <2>4 DEF ClaimTake
  <2>5. CASE ClaimWrite(c)
    BY <2>5 DEF ClaimWrite
  <2>6. CASE ResetSignal(c) \/ SendDeadline(c) \/ NotifyManager(c) \/ ReceiveAnswer(c)
    BY <2>6 DEF ResetSignal, SendDeadline, NotifyManager, ReceiveAnswer
  <2>7. QED  BY <2>1, <2>2, <2>3, <2>4, <2>5, <2>6 DEF ClientStep, WaitRxStep
<1>5. QED  BY <1>1, <1>2, <1>3, <1>4 DEF Next

\* Mutual exclusion of the writers of sd, for any number of services: the
\* mutex is held exactly between take and give.
THEOREM MutexCorrect == Spec => []MutexHeld
<1>1. Init => MutexHeld
  BY ConstantsOK DEF Init, MutexHeld
<1>2. Spec => [](TypeInv /\ MutexHeld)
  BY <1>1, TypeInit, TypeStep, MutexStep, PTL DEF Spec
<1>3. QED  BY <1>2, PTL

-----------------------------------------------------------------------------
(* The pool holds a socket at most once.                                   *)

\* An empty pool holds no socket twice.
LEMMA SocketInit == Init => SocketInv
BY DEF Init, SocketInv, OneSlotPerSocket

\* Searches, claims and invalidations keep every socket in one element at most.
LEMMA SocketStep == TypeInv /\ SocketInv /\ [Next]_vars => SocketInv'
<1> SUFFICES ASSUME TypeInv, SocketInv, [Next]_vars PROVE SocketInv'
    OBVIOUS
<1> USE DEF TypeInv, TypeOK, SocketInv, OneSlotPerSocket
<1>1. CASE UNCHANGED vars
  BY <1>1 DEF vars, managerVars, poolVars, clientVars
<1>2. CASE Tick \/ Arrive \/ Suspend \/ Resume
  BY <1>2, EnvironmentFrame DEF poolVars, clientVars
<1>3. CASE ManagerStep
  <2>1. CASE InvalWrite
    BY <1>3, <2>1, ManagerFrame DEF InvalWrite, clientVars
  <2>2. QED  BY <1>3, <2>1, ManagerFrame DEF clientVars
<1>4. ASSUME NEW c \in Clients, ClientStep(c) PROVE SocketInv'
  <2> USE <1>4, ConstantsOK DEF poolVars, clientVars, managerVars, ClientPC
  <2>1. CASE OpenSocket(c)
    BY <2>1 DEF OpenSocket
  <2>2. CASE CloseSocket(c)
    BY <2>2 DEF CloseSocket
  <2>3. CASE ReadSocket(c)
    BY <2>3 DEF ReadSocket
  <2>4. CASE CallWaitRx(c)
    BY <2>4 DEF CallWaitRx, Slots
  <2>5. CASE FindSocket(c)
    <3>1. CASE sd[conn[c]] = sock[c]
      BY <2>5, <3>1 DEF FindSocket, SearchSocket, Settle
    <3>2. CASE sd[conn[c]] # sock[c] /\ conn[c] < N
      <4>1. /\ pc[c] = "findSocket" /\ pc' = pc /\ sock' = sock /\ sd' = sd
            /\ conn' = [conn EXCEPT ![c] = conn[c] + 1]
        BY <2>5, <3>2 DEF FindSocket, SearchSocket, Slots
      <4>2. \A s \in Slots : s < conn'[c] => sd'[s] # sock'[c]
        BY <3>2, <4>1 DEF Slots
      <4>3. QED  BY <4>1, <4>2
    <3>3. CASE sd[conn[c]] # sock[c] /\ conn[c] >= N
      <4>1. /\ pc[c] = "findSocket" /\ sock' = sock /\ sd' = sd
            /\ pc' = [pc EXCEPT ![c] = "findFree"]
            /\ conn' = [conn EXCEPT ![c] = 1]
        BY <2>5, <3>3 DEF FindSocket, SearchSocket, Slots
      <4>2. \A s \in Slots : s <= conn[c]
        BY <3>3 DEF Slots
      <4>3. \A s \in Slots : s < conn[c] \/ s = conn[c]
        BY <4>2 DEF Slots
      <4>4. \A s \in Slots : sd'[s] # sock'[c]
        BY <3>3, <4>1, <4>3
      <4>5. QED  BY <4>1, <4>4
    <3>4. QED  BY <3>1, <3>2, <3>3 DEF Slots
  <2>6. CASE FindFree(c)
    BY <2>6 DEF FindFree, Settle
  <2>7. CASE ClaimTake(c)
    BY <2>7 DEF ClaimTake
  <2>8. CASE ClaimWrite(c)
    BY <2>8 DEF ClaimWrite
  <2>9. CASE ResetSignal(c) \/ SendDeadline(c) \/ NotifyManager(c)
    BY <2>9 DEF ResetSignal, SendDeadline, NotifyManager
  <2>10. CASE ReceiveAnswer(c)
    BY <2>10 DEF ReceiveAnswer
  <2>11. QED
    BY <2>1, <2>2, <2>3, <2>4, <2>5, <2>6, <2>7, <2>8, <2>9, <2>10
       DEF ClientStep, WaitRxStep
<1>5. QED  BY <1>1, <1>2, <1>3, <1>4 DEF Next

\* Whatever the interleaving of searches, claims and invalidations, no
\* descriptor is ever in two elements of the pool.
THEOREM OneSlotPerSocketCorrect == Spec => []OneSlotPerSocket
<1>1. Spec => [](TypeInv /\ SocketInv)
  BY TypeInit, TypeStep, SocketInit, SocketStep, PTL DEF Spec
<1>2. SocketInv => OneSlotPerSocket
  BY DEF SocketInv
<1>3. QED  BY <1>1, <1>2, PTL

-----------------------------------------------------------------------------
(* While no two services have met on an element.                           *)

\* A client that settles without a race finds no other user.
LEMMA SettleAlone ==
    ASSUME NEW c \in Clients, NEW next, Settle(c, next), ~raced'
    PROVE  /\ ~raced
           /\ \A d \in Clients : Using(d) => conn[d] # conn[c]
BY DEF Settle, Users

\* The history variable is never taken back.
LEMMA RacedStays == TypeInv /\ [Next]_vars /\ ~raced' => ~raced
<1> SUFFICES ASSUME TypeInv, [Next]_vars, ~raced' PROVE ~raced
    OBVIOUS
<1>1. CASE UNCHANGED vars
  BY <1>1 DEF vars, clientVars
<1>2. CASE Tick \/ Arrive \/ Suspend \/ Resume
  BY <1>2, EnvironmentFrame DEF clientVars
<1>3. CASE ManagerStep
  BY <1>3, ManagerFrame DEF clientVars
<1>4. ASSUME NEW c \in Clients, ClientStep(c) PROVE ~raced
  <2>1. CASE OpenSocket(c) \/ CloseSocket(c) \/ ReadSocket(c) \/ CallWaitRx(c)
    BY <2>1 DEF OpenSocket, CloseSocket, ReadSocket, CallWaitRx, clientVars
  <2>2. CASE FindSocket(c)
    BY <2>2, SettleAlone DEF FindSocket, SearchSocket
  <2>3. CASE FindFree(c)
    BY <2>3, SettleAlone DEF FindFree
  <2>4. CASE ClaimTake(c) \/ ClaimWrite(c) \/ ResetSignal(c)
    BY <2>4 DEF ClaimTake, ClaimWrite, ResetSignal
  <2>5. CASE SendDeadline(c) \/ NotifyManager(c) \/ ReceiveAnswer(c)
    BY <2>5 DEF SendDeadline, NotifyManager, ReceiveAnswer
  <2>6. QED  BY <1>4, <2>1, <2>2, <2>3, <2>4, <2>5 DEF ClientStep, WaitRxStep
<1>5. QED  BY <1>1, <1>2, <1>3, <1>4 DEF Next

\* Until two services meet, a service on an element stays alone there.
LEMMA LoneUserStep ==
    ASSUME TypeInv, SocketInv, LoneUser, [Next]_vars, ~raced'
    PROVE  LoneUser'
<1> USE DEF TypeInv, TypeOK, LoneUser, Using
<1>1. CASE UNCHANGED vars
  BY <1>1 DEF vars, managerVars, poolVars, clientVars
<1>2. CASE Tick \/ Arrive \/ Suspend \/ Resume
  BY <1>2, EnvironmentFrame DEF poolVars, clientVars
<1>3. CASE ManagerStep
  <2>1. CASE InvalWrite
    BY <1>3, <2>1, ManagerFrame DEF InvalWrite, clientVars
  <2>2. QED  BY <1>3, <2>1, ManagerFrame DEF clientVars
<1>4. ASSUME NEW c \in Clients, ClientStep(c) PROVE LoneUser'
  <2> USE <1>4, ConstantsOK DEF poolVars, clientVars, managerVars, ClientPC
  <2>1. CASE OpenSocket(c)
    BY <2>1 DEF OpenSocket
  <2>2. CASE CloseSocket(c)
    BY <2>2 DEF CloseSocket
  <2>3. CASE ReadSocket(c) \/ CallWaitRx(c)
    BY <2>3 DEF ReadSocket, CallWaitRx
  <2>4. CASE FindSocket(c)
    <3>1. CASE sd[conn[c]] = sock[c]
      <4>1. \A d \in Clients : Using(d) => conn[d] # conn[c]
        BY <2>4, <3>1, SettleAlone DEF FindSocket, SearchSocket
      <4>2. /\ pc[c] = "findSocket" /\ pc' = [pc EXCEPT ![c] = "reset"]
            /\ conn' = conn /\ sock' = sock /\ sd' = sd
        BY <2>4, <3>1 DEF FindSocket, SearchSocket, Settle
      <4>3. QED  BY <3>1, <4>1, <4>2
    <3>2. CASE sd[conn[c]] # sock[c]
      BY <2>4, <3>2 DEF FindSocket, SearchSocket
    <3>3. QED  BY <3>1, <3>2
  <2>5. CASE FindFree(c)
    <3>1. CASE sd[conn[c]] = NoSocket
      <4>1. \A d \in Clients : Using(d) => conn[d] # conn[c]
        BY <2>5, <3>1, SettleAlone DEF FindFree
      <4>2. /\ pc[c] = "findFree" /\ pc' = [pc EXCEPT ![c] = "claim"]
            /\ conn' = conn /\ sock' = sock /\ sd' = sd
        BY <2>5, <3>1 DEF FindFree, Settle
      <4>3. QED  BY <3>1, <4>1, <4>2
    <3>2. CASE sd[conn[c]] # NoSocket
      BY <2>5, <3>2 DEF FindFree
    <3>3. QED  BY <3>1, <3>2
  <2>6. CASE ClaimTake(c)
    BY <2>6 DEF ClaimTake
  <2>7. CASE ClaimWrite(c)
    BY <2>7 DEF ClaimWrite
  <2>8. CASE ResetSignal(c) \/ SendDeadline(c) \/ NotifyManager(c)
    BY <2>8 DEF ResetSignal, SendDeadline, NotifyManager
  <2>9. CASE ReceiveAnswer(c)
    BY <2>9 DEF ReceiveAnswer
  <2>10. QED
    BY <2>1, <2>2, <2>3, <2>4, <2>5, <2>6, <2>7, <2>8, <2>9
       DEF ClientStep, WaitRxStep
<1>5. QED  BY <1>1, <1>2, <1>3, <1>4 DEF Next

\* run() moves a promised answer on by one stage and never duplicates it.
LEMMA AnswerManager ==
    ASSUME TypeInv, ReadSetInv, AnswerInv, ManagerStep
    PROVE  AnswerInv'
<1> USE ConstantsOK DEF TypeInv, TypeOK, SlotInRange, AnswerInv, Answering, Owed,
        poolVars, clientVars, Slots, Ticks, None
<1>1. CASE Start \/ Begin \/ ScanFree \/ Dispatch
  BY <1>1 DEF Start, Begin, ScanFree, Scanning, Dispatch
<1>2. CASE ScanUnarmed
  BY <1>2 DEF ScanUnarmed, Receive, Scanning
<1>3. CASE ScanArmed
  BY <1>3 DEF ScanArmed, Receive, Scanning, NewDeadline
<1>4. CASE ScanExpired
  BY <1>4 DEF ScanExpired, Receive, Scanning, NewDeadline
<1>5. CASE InvalTake \/ InvalWrite
  BY <1>5 DEF InvalTake, InvalWrite
<1>6. CASE Expire
  BY <1>6 DEF Expire, Answer
<1>7. CASE SelectReady \/ SelectNone \/ SelectError \/ WaitForNotify
  BY <1>7 DEF SelectReady, SelectNone, SelectError, WaitForNotify
<1>8. CASE AnswerScan
  <2>1. CASE sd[slot] # NoSocket /\ sd[slot] \in read_set
    <3>1. deadline[slot] # 0
      BY <1>8, <2>1 DEF AnswerScan, ReadSetInv, ToAnswer
    <3>2. QED  BY <1>8, <2>1, <3>1 DEF AnswerScan
  <2>2. CASE ~(sd[slot] # NoSocket /\ sd[slot] \in read_set)
    BY <1>8, <2>2 DEF AnswerScan
  <2>3. QED  BY <2>1, <2>2
<1>9. CASE AnswerSend
  BY <1>9 DEF AnswerSend, Answer
<1>10. CASE AnswerEnd
  BY <1>10 DEF AnswerEnd
<1>11. QED
  BY <1>1, <1>2, <1>3, <1>4, <1>5, <1>6, <1>7, <1>8, <1>9, <1>10 DEF ManagerStep

\* wait_rx makes one promise per call and takes its answer away.
LEMMA AnswerClient ==
    ASSUME TypeInv, LoneUser, AnswerInv, NEW c \in Clients, ClientStep(c)
    PROVE  AnswerInv'
<1> USE DEF TypeInv, TypeOK, AnswerInv, Answering, Owed, poolVars, clientVars,
        managerVars, ClientPC
<1>1. CASE OpenSocket(c) \/ CloseSocket(c) \/ ReadSocket(c) \/ CallWaitRx(c)
  BY <1>1 DEF OpenSocket, CloseSocket, ReadSocket, CallWaitRx
<1>2. CASE FindSocket(c)
  BY <1>2 DEF FindSocket, SearchSocket, Settle
<1>3. CASE FindFree(c)
  BY <1>3 DEF FindFree, Settle
<1>4. CASE ClaimTake(c) \/ ClaimWrite(c)
  BY <1>4 DEF ClaimTake, ClaimWrite
<1>5. CASE ResetSignal(c)
  BY <1>5 DEF ResetSignal
<1>6. CASE SendDeadline(c)
  <2>1. ~\E d \in Clients : Owed(d) /\ conn[d] = conn[c]
    BY <1>6 DEF SendDeadline, LoneUser, Using
  <2>2. /\ deadline[conn[c]] = 0 /\ ~Answering(conn[c])
        /\ rx_signal[conn[c]] = None
    BY <2>1
  <2>3. QED  BY <1>6, <2>2 DEF SendDeadline
<1>7. CASE NotifyManager(c)
  BY <1>7 DEF NotifyManager
<1>8. CASE ReceiveAnswer(c)
  <2>1. /\ pc[c] = "wait" /\ rx_signal[conn[c]] # None
        /\ rx_signal' = [rx_signal EXCEPT ![conn[c]] = None]
        /\ pc' = [pc EXCEPT ![c] = "idle"]
        /\ conn' = [conn EXCEPT ![c] = 1]
        /\ <<deadline, rx_queue, mpc, slot>>' = <<deadline, rx_queue, mpc, slot>>
    BY <1>8 DEF ReceiveAnswer
  <2>2. /\ rx_queue[conn[c]] = None /\ deadline[conn[c]] = 0
        /\ ~Answering(conn[c])
    BY <2>1
  <2>3. ASSUME NEW s \in Slots, s # conn[c],
               NEW d \in Clients, Owed(d), conn[d] = s
        PROVE  Owed(d)' /\ conn'[d] = s
    BY <2>1, <2>3
  <2>4. QED  BY <2>1, <2>2, <2>3
<1>9. QED
  BY <1>1, <1>2, <1>3, <1>4, <1>5, <1>6, <1>7, <1>8 DEF ClientStep, WaitRxStep

\* Until two services meet, an element owes at most one answer.
LEMMA AnswerStep ==
    ASSUME TypeInv, LoneUser, ReadSetInv, AnswerInv, [Next]_vars
    PROVE  AnswerInv'
<1>1. CASE UNCHANGED vars
  BY <1>1 DEF vars, managerVars, poolVars, clientVars, AnswerInv, Answering, Owed
<1>2. CASE Tick \/ Arrive \/ Suspend \/ Resume
  BY <1>2, EnvironmentFrame DEF poolVars, clientVars, AnswerInv, Answering, Owed
<1>3. QED
  BY <1>1, <1>2, AnswerManager, AnswerClient DEF Next

\* run() puts only armed sockets in read_fd_set and answers each once.
LEMMA ReadSetManager ==
    ASSUME TypeInv, SocketInv, ReadSetInv, ManagerStep
    PROVE  ReadSetInv'
<1> USE ConstantsOK DEF TypeInv, TypeOK, SlotInRange, ReadSetInv, ToAnswer,
        poolVars, clientVars, Slots
<1>1. CASE Start
  BY <1>1 DEF Start
<1>2. CASE Begin
  BY <1>2 DEF Begin
<1>3. CASE ScanFree
  BY <1>3 DEF ScanFree, Scanning
<1>4. CASE ScanUnarmed
  BY <1>4 DEF ScanUnarmed, Receive, Scanning
<1>5. CASE ScanArmed
  <2>1. /\ mpc = "scan" /\ mpc' = "scan" /\ slot \in Slots /\ slot' = slot + 1
        /\ sd' = sd /\ read_set' = read_set \cup {sd[slot]}
        /\ sd[slot] # NoSocket /\ NewDeadline(slot) # 0
        /\ deadline' = [deadline EXCEPT ![slot] = NewDeadline(slot)]
    BY <1>5 DEF ScanArmed, Receive, Scanning
  <2>2. \A x \in read_set' : \E s \in Slots : sd'[s] = x
    BY <2>1
  <2>3. \A s \in Slots : sd'[s] \in read_set' => s < slot' /\ deadline'[s] # 0
    <3> SUFFICES ASSUME NEW s \in Slots, sd[s] \in read_set \/ s = slot
                 PROVE  s < slot' /\ deadline'[s] # 0
      BY <2>1 DEF SocketInv, OneSlotPerSocket
    <3>1. QED  BY <2>1
  <2>4. QED  BY <2>1, <2>2, <2>3
<1>6. CASE ScanExpired
  BY <1>6 DEF ScanExpired, Receive, Scanning
<1>7. CASE InvalTake
  BY <1>7 DEF InvalTake
<1>8. CASE InvalWrite
  <2>1. sd[slot] \notin read_set
    BY <1>8 DEF InvalWrite
  <2>2. NoSocket \notin read_set
    OBVIOUS
  <2>3. QED  BY <1>8, <2>1, <2>2 DEF InvalWrite
<1>9. CASE Expire
  BY <1>9 DEF Expire
<1>10. CASE Dispatch
  BY <1>10 DEF Dispatch
<1>11. CASE SelectReady
  BY <1>11 DEF SelectReady
<1>12. CASE SelectNone \/ SelectError
  BY <1>12 DEF SelectNone, SelectError
<1>13. CASE AnswerScan
  BY <1>13 DEF AnswerScan
<1>14. CASE AnswerSend
  BY <1>14 DEF AnswerSend
<1>15. CASE AnswerEnd
  BY <1>15 DEF AnswerEnd
<1>16. CASE WaitForNotify
  BY <1>16 DEF WaitForNotify
<1>17. QED
  BY <1>1, <1>2, <1>3, <1>4, <1>5, <1>6, <1>7, <1>8, <1>9, <1>10, <1>11, <1>12,
     <1>13, <1>14, <1>15, <1>16 DEF ManagerStep

\* A socket a service may close or read is not the socket of an armed element.
LEMMA ArmedNotIdle ==
    ASSUME TypeInv, SocketInv, LoneUser, AnswerInv,
           NEW c \in Clients, pc[c] = "idle",
           NEW s \in Slots, deadline[s] # 0, sd[s] # NoSocket
    PROVE  sd[s] # sock[c]
<1>1. PICK d \in Clients : Owed(d) /\ conn[d] = s
  BY DEF AnswerInv
<1>2. d # c /\ sd[s] = sock[d]
  BY <1>1 DEF Owed, LoneUser, TypeInv, TypeOK
<1>3. QED  BY <1>2 DEF SocketInv

\* Nothing the services do spoils the read_fd_set of a pass of run().
LEMMA ReadSetStep ==
    ASSUME TypeInv, SocketInv, LoneUser, ReadSetInv, AnswerInv, [Next]_vars
    PROVE  ReadSetInv'
<1>1. CASE UNCHANGED vars
  BY <1>1 DEF vars, managerVars, poolVars, clientVars, ReadSetInv, ToAnswer
<1>2. CASE Tick \/ Arrive \/ Suspend \/ Resume
  <2>1. readable \subseteq readable'
    BY <1>2, EnvironmentFrame DEF Arrive
  <2>2. /\ sd' = sd /\ deadline' = deadline /\ read_set' = read_set /\ slot' = slot
        /\ mpc' = mpc \/ (mpc = "wait" /\ mpc' = "begin")
    BY <1>2, EnvironmentFrame DEF poolVars
  <2>3. QED  BY <2>1, <2>2 DEF ReadSetInv, ToAnswer
<1>3. CASE ManagerStep
  BY <1>3, ReadSetManager
<1>4. ASSUME NEW c \in Clients, ClientStep(c) PROVE ReadSetInv'
  <2>1. /\ mpc' = mpc /\ slot' = slot /\ read_set' = read_set /\ deadline' = deadline
    BY <1>4, ClientFrame DEF managerVars
  <2>2. CASE ClaimWrite(c)
    <3>1. /\ pc[c] = "claimWrite" /\ readable' = readable
          /\ sd' = [sd EXCEPT ![conn[c]] = sock[c]] /\ sd[conn[c]] = NoSocket
      BY <2>2 DEF ClaimWrite, LoneUser
    <3>2. sock[c] \notin read_set
      BY <3>1 DEF SocketInv, ReadSetInv
    <3>3. NoSocket \notin read_set
      BY ConstantsOK DEF TypeInv, TypeOK
    <3>4. QED
      BY <2>1, <3>1, <3>2, <3>3 DEF ReadSetInv, ToAnswer, TypeInv, TypeOK
  <2>3. CASE CloseSocket(c) \/ ReadSocket(c)
    <3>1. /\ sd' = sd /\ pc[c] = "idle" /\ readable' = readable \ {sock[c]}
      BY <2>3 DEF CloseSocket, ReadSocket, poolVars
    <3>2. ASSUME NEW s \in Slots, sd[s] \in read_set, ToAnswer(s)
          PROVE  sd[s] \in readable'
      <4>1. deadline[s] # 0 /\ sd[s] # NoSocket /\ sd[s] \in readable
        BY <3>2, ConstantsOK DEF ReadSetInv, TypeInv, TypeOK
      <4>2. QED  BY <3>1, <4>1, ArmedNotIdle
    <3>3. QED  BY <2>1, <3>1, <3>2 DEF ReadSetInv, ToAnswer
  <2>4. CASE sd' = sd /\ readable' = readable
    BY <2>1, <2>4 DEF ReadSetInv, ToAnswer
  <2>5. QED  BY <1>4, <2>2, <2>3, <2>4, ClientFrame
<1>5. QED  BY <1>1, <1>2, <1>3, <1>4 DEF Next

\* run() answers "ready" only for sockets with data and frees only unarmed elements.
LEMMA ElementManager ==
    ASSUME TypeInv, LoneUser, ReadSetInv, ElementInv, ManagerStep
    PROVE  ElementInv'
<1> USE DEF TypeInv, TypeOK, SlotInRange, ElementInv, Owed, poolVars, clientVars
<1>1. CASE Start \/ Begin \/ ScanFree \/ Dispatch
  BY <1>1 DEF Start, Begin, ScanFree, Scanning, Dispatch
<1>2. CASE ScanUnarmed \/ ScanArmed \/ ScanExpired
  BY <1>2 DEF ScanUnarmed, ScanArmed, ScanExpired, Receive, Scanning
<1>3. CASE InvalTake
  BY <1>3 DEF InvalTake
<1>4. CASE InvalWrite
  BY <1>4 DEF InvalWrite
<1>5. CASE Expire
  BY <1>5 DEF Expire, Answer
<1>6. CASE SelectReady \/ SelectNone \/ SelectError \/ WaitForNotify
  BY <1>6 DEF SelectReady, SelectNone, SelectError, WaitForNotify
<1>7. CASE AnswerScan
  <2>1. CASE sd[slot] # NoSocket /\ sd[slot] \in read_set
    <3>1. sd[slot] \in readable
      BY <1>7, <2>1 DEF AnswerScan, ReadSetInv, ToAnswer, Slots
    <3>2. \A c \in Clients : Owed(c) /\ conn[c] = slot => sock[c] = sd[slot]
      BY <2>1 DEF LoneUser
    <3>3. QED  BY <1>7, <2>1, <3>1, <3>2 DEF AnswerScan
  <2>2. CASE ~(sd[slot] # NoSocket /\ sd[slot] \in read_set)
    BY <1>7, <2>2 DEF AnswerScan
  <2>3. QED  BY <2>1, <2>2
<1>8. CASE AnswerSend
  BY <1>8 DEF AnswerSend, Answer
<1>9. CASE AnswerEnd
  BY <1>9 DEF AnswerEnd
<1>10. QED
  BY <1>1, <1>2, <1>3, <1>4, <1>5, <1>6, <1>7, <1>8, <1>9 DEF ManagerStep

\* No service reads or closes the socket another one is told to be ready.
LEMMA ElementClient ==
    ASSUME TypeInv, SocketInv, LoneUser, ElementInv, AnswerInv,
           NEW c \in Clients, ClientStep(c)
    PROVE  ElementInv'
<1> USE DEF TypeInv, TypeOK, ElementInv, Owed, poolVars, clientVars, managerVars,
        ClientPC
<1>1. CASE OpenSocket(c)
  BY <1>1 DEF OpenSocket
<1>2. CASE CloseSocket(c)
  BY <1>2 DEF CloseSocket, SocketInv
<1>3. CASE ReadSocket(c)
  BY <1>3, ConstantsOK DEF ReadSocket, SocketInv
<1>4. CASE CallWaitRx(c)
  BY <1>4 DEF CallWaitRx
<1>5. CASE FindSocket(c)
  BY <1>5 DEF FindSocket, SearchSocket, Settle
<1>6. CASE FindFree(c)
  BY <1>6 DEF FindFree, Settle
<1>7. CASE ClaimTake(c)
  BY <1>7 DEF ClaimTake
<1>8. CASE ClaimWrite(c)
  BY <1>8 DEF ClaimWrite, SocketInv
<1>9. CASE ResetSignal(c)
  BY <1>9 DEF ResetSignal, None
<1>10. CASE SendDeadline(c)
  <2>1. ~\E d \in Clients : Owed(d) /\ conn[d] = conn[c]
    BY <1>10 DEF SendDeadline, LoneUser, Using
  <2>2. ~Answering(conn[c]) /\ rx_signal[conn[c]] = None
    BY <2>1 DEF AnswerInv
  <2>3. QED  BY <1>10, <2>2 DEF SendDeadline, Answering, None
<1>11. CASE NotifyManager(c)
  BY <1>11 DEF NotifyManager
<1>12. CASE ReceiveAnswer(c)
  BY <1>12 DEF ReceiveAnswer, None
<1>13. QED
  BY <1>1, <1>2, <1>3, <1>4, <1>5, <1>6, <1>7, <1>8, <1>9, <1>10, <1>11, <1>12
     DEF ClientStep, WaitRxStep

\* Every step keeps free elements unarmed and ready answers true.
LEMMA ElementStep ==
    ASSUME TypeInv, SocketInv, LoneUser, ReadSetInv, ElementInv, AnswerInv, [Next]_vars
    PROVE  ElementInv'
<1>1. CASE UNCHANGED vars
  BY <1>1 DEF vars, managerVars, poolVars, clientVars, ElementInv, Owed
<1>2. CASE Tick \/ Arrive \/ Suspend \/ Resume
  <2>1. readable \subseteq readable'
    BY <1>2, EnvironmentFrame DEF Arrive
  <2>2. QED
    BY <1>2, <2>1, EnvironmentFrame DEF poolVars, clientVars, ElementInv, Owed
<1>3. QED
  BY <1>1, <1>2, ElementManager, ElementClient DEF Next

-----------------------------------------------------------------------------
(* No lost wakeup, no early timeout.                                       *)

\* A pass of run() carries every answer it finds owed to its next stage, and
\* goes to sleep only with nothing armed and nothing posted before it.
LEMMA WakeManager ==
    ASSUME TypeInv, SocketInv, LoneUser, ReadSetInv, ElementInv, AnswerInv, WakeInv,
           ManagerStep
    PROVE  WakeInv'
<1> USE ConstantsOK DEF TypeInv, TypeOK, SlotInRange, WakeInv, Answering, Owed,
        poolVars, clientVars, Slots, Ticks, None
<1>0. \A s \in Slots : deadline[s] # 0 => sd[s] # NoSocket
  BY DEF ElementInv
<1>00. \A c \in Clients : Owed(c) => sock[c] # NoSocket
  BY DEF SocketInv
<1>1. CASE Start \/ Begin
  BY <1>1 DEF Start, Begin
<1>2. CASE ScanFree
  BY <1>2, <1>0, <1>00 DEF ScanFree, Scanning
<1>3. CASE ScanUnarmed
  BY <1>3 DEF ScanUnarmed, Receive, Scanning
<1>4. CASE ScanArmed
  BY <1>4 DEF ScanArmed, Receive, Scanning
<1>5. CASE ScanExpired
  BY <1>5 DEF ScanExpired, Receive, Scanning
<1>6. CASE InvalTake
  BY <1>6 DEF InvalTake
<1>7. CASE InvalWrite
  BY <1>7, <1>0, <1>00 DEF InvalWrite, ElementInv
<1>8. CASE Expire
  BY <1>8 DEF Expire, Answer, AnswerInv
<1>9. CASE Dispatch
  BY <1>9 DEF Dispatch
<1>10. CASE SelectReady \/ SelectNone \/ SelectError \/ WaitForNotify
  BY <1>10 DEF SelectReady, SelectNone, SelectError, WaitForNotify
<1>11. CASE AnswerScan
  BY <1>11 DEF AnswerScan
<1>12. CASE AnswerSend
  BY <1>12 DEF AnswerSend, Answer
<1>13. CASE AnswerEnd
  BY <1>13 DEF AnswerEnd
<1>14. QED
  BY <1>1, <1>2, <1>3, <1>4, <1>5, <1>6, <1>7, <1>8, <1>9, <1>10, <1>11, <1>12,
     <1>13 DEF ManagerStep

\* wait_rx posts its deadline before it notifies run().
LEMMA WakeClient ==
    ASSUME TypeInv, SocketInv, LoneUser, ElementInv, WakeInv,
           NEW c \in Clients, ClientStep(c)
    PROVE  WakeInv'
<1> USE DEF TypeInv, TypeOK, WakeInv, Answering, Owed, poolVars, clientVars,
        managerVars, ClientPC
<1>1. CASE OpenSocket(c) \/ CloseSocket(c) \/ ReadSocket(c) \/ CallWaitRx(c)
  BY <1>1 DEF OpenSocket, CloseSocket, ReadSocket, CallWaitRx
<1>2. CASE FindSocket(c)
  BY <1>2 DEF FindSocket, SearchSocket, Settle
<1>3. CASE FindFree(c)
  BY <1>3 DEF FindFree, Settle
<1>4. CASE ClaimTake(c)
  BY <1>4 DEF ClaimTake
<1>5. CASE ClaimWrite(c)
  BY <1>5 DEF ClaimWrite, LoneUser, Using, ElementInv
<1>6. CASE ResetSignal(c)
  BY <1>6 DEF ResetSignal, LoneUser, Using
<1>7. CASE SendDeadline(c)
  BY <1>7, ConstantsOK DEF SendDeadline, LoneUser, Using, Ticks, None
<1>8. CASE NotifyManager(c)
  BY <1>8 DEF NotifyManager
<1>9. CASE ReceiveAnswer(c)
  BY <1>9 DEF ReceiveAnswer, LoneUser, Using
<1>10. QED
  BY <1>1, <1>2, <1>3, <1>4, <1>5, <1>6, <1>7, <1>8, <1>9 DEF ClientStep, WaitRxStep

\* No step puts run() to sleep on an answer it owes.
LEMMA WakeStep ==
    ASSUME TypeInv, SocketInv, LoneUser, ReadSetInv, ElementInv, AnswerInv, WakeInv,
           [Next]_vars
    PROVE  WakeInv'
<1>1. CASE UNCHANGED vars
  BY <1>1 DEF vars, managerVars, poolVars, clientVars, WakeInv, Answering, Owed
<1>2. CASE Tick \/ Arrive \/ Suspend \/ Resume
  BY <1>2, EnvironmentFrame DEF poolVars, clientVars, WakeInv, Answering, Owed
<1>3. QED
  BY <1>1, <1>2, WakeManager, WakeClient DEF Next

\* run() gives up on a deadline only when its own clock is past it.
LEMMA LateManager ==
    ASSUME TypeInv, LateInv, ManagerStep
    PROVE  LateInv'
<1> USE ConstantsOK DEF TypeInv, TypeOK, SlotInRange, LateInv, Owed,
        poolVars, clientVars, Slots, Ticks, None
<1>1. CASE Start \/ Begin \/ ScanFree \/ Dispatch
  BY <1>1 DEF Start, Begin, ScanFree, Scanning, Dispatch
<1>2. CASE ScanUnarmed
  BY <1>2 DEF ScanUnarmed, Receive, Scanning
<1>3. CASE ScanArmed
  BY <1>3 DEF ScanArmed, Receive, Scanning, NewDeadline
<1>4. CASE ScanExpired
  BY <1>4 DEF ScanExpired, Receive, Scanning, NewDeadline
<1>5. CASE InvalTake \/ InvalWrite
  BY <1>5 DEF InvalTake, InvalWrite
<1>6. CASE Expire
  BY <1>6 DEF Expire, Answer
<1>7. CASE SelectReady \/ SelectNone \/ SelectError \/ WaitForNotify
  BY <1>7 DEF SelectReady, SelectNone, SelectError, WaitForNotify
<1>8. CASE AnswerScan
  BY <1>8 DEF AnswerScan
<1>9. CASE AnswerSend \/ AnswerEnd
  BY <1>9 DEF AnswerSend, AnswerEnd, Answer
<1>10. QED
  BY <1>1, <1>2, <1>3, <1>4, <1>5, <1>6, <1>7, <1>8, <1>9 DEF ManagerStep

\* The deadline a call of wait_rx posts is the one its element works with.
LEMMA LateClient ==
    ASSUME TypeInv, LoneUser, AnswerInv, LateInv, NEW c \in Clients, ClientStep(c)
    PROVE  LateInv'
<1> USE DEF TypeInv, TypeOK, LateInv, Owed, poolVars, clientVars, managerVars, ClientPC
<1>1. CASE OpenSocket(c) \/ CloseSocket(c) \/ ReadSocket(c) \/ CallWaitRx(c)
  BY <1>1 DEF OpenSocket, CloseSocket, ReadSocket, CallWaitRx
<1>2. CASE FindSocket(c)
  BY <1>2 DEF FindSocket, SearchSocket, Settle
<1>3. CASE FindFree(c)
  BY <1>3 DEF FindFree, Settle
<1>4. CASE ClaimTake(c) \/ ClaimWrite(c)
  BY <1>4 DEF ClaimTake, ClaimWrite
<1>5. CASE ResetSignal(c)
  BY <1>5 DEF ResetSignal, None
<1>6. CASE SendDeadline(c)
  <2>1. \A d \in Clients : Owed(d) => conn[d] # conn[c]
    BY <1>6 DEF SendDeadline, LoneUser, Using
  <2>2. /\ deadline[conn[c]] = 0 /\ ~Answering(conn[c])
        /\ rx_signal[conn[c]] = None
    BY <2>1 DEF AnswerInv
  <2>3. QED  BY <1>6, <2>1, <2>2 DEF SendDeadline, Answering, None
<1>7. CASE NotifyManager(c)
  BY <1>7 DEF NotifyManager
<1>8. CASE ReceiveAnswer(c)
  BY <1>8 DEF ReceiveAnswer, None
<1>9. QED
  BY <1>1, <1>2, <1>3, <1>4, <1>5, <1>6, <1>7, <1>8 DEF ClientStep, WaitRxStep

\* While the tick counter does not wrap, a missed deadline stays missed.
LEMMA LateStep ==
    ASSUME ~TickWraps, TypeInv, LoneUser, AnswerInv, LateInv, [Next]_vars
    PROVE  LateInv'
<1>1. CASE UNCHANGED vars
  BY <1>1 DEF vars, managerVars, poolVars, clientVars, LateInv, Owed
<1>2. CASE Tick \/ Arrive \/ Suspend \/ Resume
  <2>1. now' = now \/ now' = now + 1
    BY <1>2, ConstantsOK DEF Tick, Arrive, Suspend, Resume, TypeInv, TypeOK, Ticks
  <2>2. QED
    BY <1>2, <2>1, EnvironmentFrame
       DEF poolVars, clientVars, LateInv, Owed, TypeInv, TypeOK, Ticks
<1>3. QED
  BY <1>1, <1>2, LateManager, LateClient DEF Next

-----------------------------------------------------------------------------
(* The inductive invariant and what follows from it.                       *)

\* The inductive invariant holds after init().
LEMMA PoolInit == Init => PoolInv
<1> SUFFICES ASSUME Init PROVE PoolInv
    OBVIOUS
<1>1. TypeInv /\ SocketInv
  BY TypeInit, SocketInit
<1>2. MutexHeld
  BY ConstantsOK DEF Init, MutexHeld
<1>3. LoneUser /\ ReadSetInv /\ ElementInv /\ AnswerInv
  BY <1>1 DEF Init, LoneUser, Using, ReadSetInv, ToAnswer, ElementInv, Owed, AnswerInv,
              Answering, TypeInv, TypeOK
<1>4. WakeInv /\ LateInv
  BY <1>1 DEF Init, WakeInv, LateInv, Owed, TypeInv, TypeOK
<1>5. QED  BY <1>1, <1>2, <1>3, <1>4 DEF PoolInv, TypeInv

\* Every step of run(), wait_rx and the environment keeps the inductive invariant.
LEMMA PoolStep == PoolInv /\ [Next]_vars => PoolInv'
<1> SUFFICES ASSUME PoolInv, [Next]_vars PROVE PoolInv'
    OBVIOUS
<1>1. TypeInv /\ MutexHeld /\ SocketInv
  BY DEF PoolInv, TypeInv
<1>2. TypeInv' /\ MutexHeld' /\ SocketInv'
  BY <1>1, TypeStep, MutexStep, SocketStep
<1>3. ASSUME ~raced'
      PROVE  /\ (LoneUser /\ ReadSetInv /\ ElementInv /\ AnswerInv /\ WakeInv)'
             /\ ~TickWraps => LateInv'
  <2>1. /\ LoneUser /\ ReadSetInv /\ ElementInv /\ AnswerInv /\ WakeInv
        /\ ~TickWraps => LateInv
    BY <1>1, <1>3, RacedStays DEF PoolInv
  <2>2. (LoneUser /\ ReadSetInv /\ ElementInv /\ AnswerInv)'
    BY <1>1, <1>3, <2>1, LoneUserStep, ReadSetStep, ElementStep, AnswerStep
  <2>3. WakeInv' /\ (~TickWraps => LateInv')
    BY <1>1, <2>1, WakeStep, LateStep
  <2>4. QED  BY <2>2, <2>3
<1>4. QED  BY <1>2, <1>3 DEF PoolInv, TypeInv

\* The inductive invariant of the pool holds in every reachable state, for any
\* number of services, sockets and elements.
THEOREM PoolCorrect == Spec => []PoolInv
BY PoolInit, PoolStep, PTL DEF Spec

\* As long as no two services have met on an element, every element owes at
\* most one answer, and owes it to a service that is still waiting: run()
\* never blocks on rx_signal and no call sees the answer of another.
THEOREM OneAnswerPerWaiterCorrect == Spec => []OneAnswerPerWaiter
<1>1. PoolInv => OneAnswerPerWaiter
  <2> SUFFICES ASSUME PoolInv, ~raced, NEW s \in Slots
               PROVE  /\ Promises(s) <= 1
                      /\ Promises(s) = 1 => Waiters(s) # {}
    BY DEF OneAnswerPerWaiter
  <2>1. Promises(s) <= 1
    BY DEF PoolInv, AnswerInv, Promises, One
  <2>2. ASSUME Promises(s) = 1 PROVE Waiters(s) # {}
    <3>1. \/ rx_queue[s] # None \/ deadline[s] # 0
          \/ Answering(s) \/ rx_signal[s] # None
      BY <2>2 DEF Promises, One
    <3>2. QED  BY <3>1 DEF PoolInv, AnswerInv, Waiters
  <2>3. QED  BY <2>1, <2>2
<1>2. QED  BY <1>1, PoolCorrect, PTL

\* As long as no two services have met on an element, wait_rx never tells a
\* service that its socket is ready when there is nothing to read.
THEOREM ReadyMeansReadableCorrect == Spec => []ReadyMeansReadable
<1>1. PoolInv => ReadyMeansReadable
  BY DEF PoolInv, ElementInv, Owed, ReadyMeansReadable
<1>2. QED  BY <1>1, PoolCorrect, PTL

\* run() never sleeps in waitForNotify on a service that is alone on an element
\* of the pool and still unanswered: whatever the interleaving of "post, then
\* notify" with "poll, then wait", no wakeup is lost.
THEOREM NoLostWakeupCorrect == Spec => []NoLostWakeup
<1>1. PoolInv => NoLostWakeup
  <2> SUFFICES ASSUME PoolInv, NEW c \in Clients, pc[c] = "wait", ~raced,
                      sd[conn[c]] = sock[c], rx_signal[conn[c]] = None, mpc = "wait"
               PROVE  notified
    BY DEF NoLostWakeup
  <2>1. conn[c] \in Slots /\ Owed(c)
    BY DEF PoolInv, TypeOK, Owed
  <2>2. deadline[conn[c]] = 0
    BY <2>1 DEF PoolInv, WakeInv
  <2>3. rx_queue[conn[c]] # None
    BY <2>1, <2>2 DEF PoolInv, WakeInv, Answering
  <2>4. QED  BY <2>3 DEF PoolInv, WakeInv
<1>2. QED  BY <1>1, PoolCorrect, PTL

\* As long as the uptime stays below 2^32 ticks and no two services have met
\* on an element, wait_rx reports a timeout only after the caller's deadline.
THEOREM NoEarlyTimeoutCorrect ==
    ASSUME ~TickWraps
    PROVE  Spec => []NoEarlyTimeout
<1>1. PoolInv => NoEarlyTimeout
  <2> SUFFICES ASSUME PoolInv, NEW c \in Clients, pc[c] = "wait", ~raced,
                      rx_signal[conn[c]] = 0
               PROVE  now > due[c]
    BY DEF NoEarlyTimeout
  <2>1. due[c] < now
    BY DEF PoolInv, LateInv, Owed
  <2>2. QED  BY <2>1 DEF PoolInv, TypeOK, Ticks
<1>2. QED  BY <1>1, PoolCorrect, PTL
=============================================================================
