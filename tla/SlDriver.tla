------------------------------ MODULE SlDriver ------------------------------
(***************************************************************************)
(* The command and receive paths of the SimpleLink host driver (driver.c), *)
(* with the interrupt route of board_CC3100.c and the spawn task of        *)
(* network.zig: application tasks send commands under GlobalLockObj and    *)
(* wait for the response on CmdSyncObj; the network processor announces    *)
(* messages by interrupts that the timer daemon counts in RxIrqCnt and     *)
(* turns into a signal of CmdSyncObj or a request of the spawn task; one   *)
(* message is read for each count, by the task in the command or by the    *)
(* spawn task.                                                             *)
(*                                                                         *)
(* A message is the task whose command it answers, Event (an asynchronous, *)
(* dummy or receive message, which either context may read) or Abort (the  *)
(* device abort event, after which the driver asks for a restart).         *)
(***************************************************************************)
EXTENDS Naturals, Sequences

CONSTANTS Task,       \* the application tasks that call the driver
          Spawn,      \* the spawn task
          None, Event, Abort,
          QueueLen,   \* the length of the spawn queue (4 in network.zig)
          W,          \* the modulus of RxIrqCnt and RxDoneCnt (2^8)
          MaxAhead    \* the messages the processor announces unread

ASSUME DriverAssumption ==
    /\ Spawn \notin Task
    /\ None \notin Task \cup {Spawn, Event, Abort}
    /\ Event # Abort /\ {Event, Abort} \cap (Task \cup {Spawn}) = {}
    /\ QueueLen \in Nat \ {0} /\ MaxAhead \in Nat \ {0}
    /\ W \in Nat /\ W > MaxAhead + 1

VARIABLES
    lock,       \* the holder of GlobalLockObj, or None
    deleted,    \* GlobalLockObj was deleted
    restart,    \* g_bDeviceRestartIsRequired
    waited,     \* IsCmdRespWaited
    RxIrqCnt, RxDoneCnt,
    CmdSync,    \* the binary semaphore CmdSyncObj
    spawnq,     \* the requests in the spawn queue
    pended,     \* the calls of the handler pended to the timer daemon
    nwp,        \* the messages announced and not yet read, in order
    todo,       \* the tasks whose command the processor has to answer
    halted,     \* the processor has sent an abort event and stopped
    pc, msg,    \* each task's place in the driver and the message it read
    lostIrq, spiError   \* an interrupt was lost, a transfer has failed

vars == <<lock, deleted, restart, waited, RxIrqCnt, RxDoneCnt, CmdSync, spawnq,
          pended, nwp, todo, halted, pc, msg, lostIrq, spiError>>

Proc == Task \cup {Spawn}
Msg == Task \cup {Event, Abort}

TaskPc == {"idle", "lock", "locked", "write", "poll", "read", "done", "sem",
           "unlock", "check", "spawn", "error", "delete"}
SpawnPc == {"idle", "lock", "locked", "read", "done", "error", "delete", "unlock"}

\* Every variable has its type.
TypeOK ==
    /\ lock \in Proc \cup {None}
    /\ deleted \in BOOLEAN /\ restart \in BOOLEAN /\ waited \in BOOLEAN
    /\ RxIrqCnt \in 0..(W-1) /\ RxDoneCnt \in 0..(W-1)
    /\ CmdSync \in BOOLEAN
    /\ spawnq \in 0..QueueLen
    /\ pended \in 0..MaxAhead
    /\ nwp \in Seq(Msg) /\ Len(nwp) <= MaxAhead
    /\ todo \subseteq Task /\ halted \in BOOLEAN
    /\ pc \in [Proc -> TaskPc] /\ pc[Spawn] \in SpawnPc
    /\ msg \in [Proc -> Msg \cup {None}]
    /\ lostIrq \in BOOLEAN /\ spiError \in BOOLEAN

Init ==
    /\ lock = None /\ deleted = FALSE /\ restart = FALSE
    /\ waited = FALSE /\ RxIrqCnt = 0 /\ RxDoneCnt = 0 /\ CmdSync = FALSE
    /\ spawnq = 0 /\ pended = 0 /\ nwp = <<>> /\ todo = {} /\ halted = FALSE
    /\ pc = [p \in Proc |-> "idle"] /\ msg = [p \in Proc |-> None]
    /\ lostIrq = FALSE /\ spiError = FALSE

Inc(n) == (n + 1) % W
\* _SL_PENDING_RX_MSG: an announced message has not been read.
Pending == RxIrqCnt # RxDoneCnt

Goto(p, l) == pc' = [pc EXCEPT ![p] = l]
At(p, l) == pc[p] = l

\* A bound: a behaviour is followed up to its first failed transfer, after which
\* the driver and the processor no longer agree on what was read.
Followed == ~spiError

cb == <<RxIrqCnt, RxDoneCnt, CmdSync, waited>>
device == <<spawnq, pended, nwp, todo, halted>>
faults == <<lostIrq, spiError>>

(***************************************************************************)
(* The network processor, the interrupt and the timer daemon.              *)
(***************************************************************************)

\* The processor queues message m and raises the interrupt.  The service
\* routine pends the handler to the timer daemon and ignores that the call
\* fails when other users have filled the daemon's queue.
Announce(m) ==
    /\ Followed /\ ~halted /\ Len(nwp) < MaxAhead
    /\ nwp' = Append(nwp, m)
    /\ halted' = (m = Abort)
    /\ \/ pended < MaxAhead /\ pended' = pended + 1 /\ UNCHANGED lostIrq
       \/ lostIrq' = TRUE /\ UNCHANGED pended

Answer(t) ==
    /\ t \in todo
    /\ Announce(t)
    /\ todo' = todo \ {t}
    /\ UNCHANGED <<lock, deleted, restart, cb, spawnq, pc, msg, spiError>>

Notify(m) ==
    /\ Announce(m)
    /\ UNCHANGED <<lock, deleted, restart, cb, spawnq, todo, pc, msg, spiError>>

\* _SlDrvRxIrqHandler in the timer daemon, which no task preempts: a request
\* that finds the spawn queue full is dropped.
RxIrqHandler ==
    /\ Followed /\ pended > 0
    /\ pended' = pended - 1
    /\ RxIrqCnt' = Inc(RxIrqCnt)
    /\ IF waited
       THEN CmdSync' = TRUE /\ UNCHANGED spawnq
       ELSE /\ spawnq' = IF spawnq < QueueLen THEN spawnq + 1 ELSE spawnq
            /\ UNCHANGED CmdSync
    /\ UNCHANGED <<lock, deleted, restart, waited, RxDoneCnt, nwp, todo, halted, pc, msg, faults>>

(***************************************************************************)
(* GlobalLockObj and the error handling.  Deleting the mutex wakes no task *)
(* that waits for it, and giving a deleted mutex has no effect.            *)
(***************************************************************************)
TakeLock(p) ==
    /\ Followed /\ At(p, "lock") /\ lock = None /\ ~deleted
    /\ lock' = p /\ Goto(p, "locked")
    /\ UNCHANGED <<deleted, restart, cb, device, msg, faults>>

Unlock == lock' = IF deleted THEN lock ELSE None

\* Where a process goes on after _SlDriverHandleError: the handler of an abort
\* event returns into the read loop or the spawn entry, a timeout to the caller.
AfterError(p) ==
    /\ Goto(p, IF p = Spawn THEN "unlock" ELSE IF msg[p] = Abort THEN "poll" ELSE "idle")
    /\ msg' = [msg EXCEPT ![p] = None]

HandleError(p) ==
    /\ At(p, "error")
    /\ IF restart
       THEN AfterError(p)
       ELSE Goto(p, "delete") /\ UNCHANGED msg
    /\ restart' = TRUE
    /\ UNCHANGED <<lock, deleted, cb, device, faults>>

DeleteLock(p) ==
    /\ At(p, "delete")
    /\ deleted' = TRUE
    /\ AfterError(p)
    /\ UNCHANGED <<lock, restart, cb, device, faults>>

(***************************************************************************)
(* _SlDrvMsgRead reads the message at the head; without one it would poll  *)
(* the bus for a sync pattern.  When a transfer fails the caller unlocks   *)
(* and returns, and the message is or is not consumed.                     *)
(***************************************************************************)
MsgRead(p) ==
    /\ At(p, "read") /\ nwp # <<>>
    /\ \/ /\ nwp' = Tail(nwp)
          /\ msg' = [msg EXCEPT ![p] = Head(nwp)]
          /\ Goto(p, "done")
          /\ UNCHANGED <<lock, spiError>>
       \/ /\ nwp' \in {nwp, Tail(nwp)}
          /\ spiError' = TRUE
          /\ Unlock /\ Goto(p, "idle")
          /\ UNCHANGED msg
    /\ UNCHANGED <<deleted, restart, cb, spawnq, pended, todo, halted, lostIrq>>

(***************************************************************************)
(* A command of task t: _SlDrvCmdOp and _SlDrvMsgReadCmdCtx.               *)
(***************************************************************************)
CmdOp(t) ==
    /\ Followed /\ At(t, "idle") /\ ~restart
    /\ Goto(t, "lock")
    /\ UNCHANGED <<lock, deleted, restart, cb, device, msg, faults>>

SetWaited(t) ==
    /\ At(t, "locked")
    /\ IF restart
       THEN Unlock /\ Goto(t, "idle") /\ UNCHANGED waited
       ELSE waited' = TRUE /\ Goto(t, "write") /\ UNCHANGED lock
    /\ UNCHANGED <<deleted, restart, RxIrqCnt, RxDoneCnt, CmdSync, device, msg, faults>>

\* When the transfer fails the lock is given back and the flag stays set.
MsgWrite(t) ==
    /\ At(t, "write")
    /\ \/ todo' = todo \cup {t} /\ Goto(t, "poll") /\ UNCHANGED <<lock, spiError>>
       \/ spiError' = TRUE /\ Unlock /\ Goto(t, "idle") /\ UNCHANGED todo
    /\ UNCHANGED <<deleted, restart, cb, spawnq, pended, nwp, halted, msg, lostIrq>>

Poll(t) ==
    /\ At(t, "poll")
    /\ Goto(t, IF ~waited THEN "unlock" ELSE IF Pending THEN "read" ELSE "sem")
    /\ UNCHANGED <<lock, deleted, restart, cb, device, msg, faults>>

\* Mutant: any message read in the command context ends the wait.
CmdDoneAny(t) ==
    /\ At(t, "done")
    /\ RxDoneCnt' = Inc(RxDoneCnt)
    /\ waited' = FALSE /\ CmdSync' = FALSE
    /\ Goto(t, "poll") /\ msg' = [msg EXCEPT ![t] = None]
    /\ UNCHANGED <<lock, deleted, restart, RxIrqCnt, device, faults>>

\* A response ends the wait and discards a signal that came with it; the abort
\* event's handler gives the lock back before it reports the error.
CmdDone(t) ==
    /\ At(t, "done")
    /\ RxDoneCnt' = Inc(RxDoneCnt)
    /\ IF msg[t] \in Task
       THEN waited' = FALSE /\ CmdSync' = FALSE
       ELSE UNCHANGED <<waited, CmdSync>>
    /\ IF msg[t] = Abort
       THEN Unlock /\ Goto(t, "error") /\ UNCHANGED msg
       ELSE /\ Goto(t, "poll") /\ msg' = [msg EXCEPT ![t] = None]
            /\ UNCHANGED lock
    /\ UNCHANGED <<deleted, restart, RxIrqCnt, device, faults>>

SemTake(t) ==
    /\ At(t, "sem") /\ CmdSync
    /\ CmdSync' = FALSE /\ Goto(t, "poll")
    /\ UNCHANGED <<lock, deleted, restart, waited, RxIrqCnt, RxDoneCnt, device, msg, faults>>

\* Mutant: the wait for a response has no timeout.
SemWaitForever(t) == FALSE

SemTimeout(t) ==
    /\ At(t, "sem") /\ ~CmdSync
    /\ waited' = FALSE /\ Unlock /\ Goto(t, "error")
    /\ UNCHANGED <<deleted, restart, RxIrqCnt, RxDoneCnt, CmdSync, device, msg, faults>>

UnlockCmd(t) ==
    /\ At(t, "unlock")
    /\ Unlock /\ Goto(t, "check")
    /\ UNCHANGED <<deleted, restart, cb, device, msg, faults>>

\* Mutant: what came in during the command is left to the next interrupt.
CheckNothing(t) ==
    /\ At(t, "check")
    /\ Goto(t, "idle")
    /\ UNCHANGED <<lock, deleted, restart, cb, device, msg, faults>>

CheckPending(t) ==
    /\ At(t, "check")
    /\ Goto(t, IF Pending THEN "spawn" ELSE "idle")
    /\ UNCHANGED <<lock, deleted, restart, cb, device, msg, faults>>

\* sl_Spawn from a task waits for room in the queue.
RequestSpawn(t) ==
    /\ At(t, "spawn") /\ spawnq < QueueLen
    /\ spawnq' = spawnq + 1 /\ Goto(t, "idle")
    /\ UNCHANGED <<lock, deleted, restart, cb, pended, nwp, todo, halted, msg, faults>>

(***************************************************************************)
(* The spawn task: network.zig's loop and _SlDrvMsgReadSpawnCtx.           *)
(***************************************************************************)
SpawnReceive ==
    /\ At(Spawn, "idle") /\ spawnq > 0
    /\ spawnq' = spawnq - 1
    /\ Goto(Spawn, IF restart THEN "idle" ELSE "lock")
    /\ UNCHANGED <<lock, deleted, restart, cb, pended, nwp, todo, halted, msg, faults>>

\* Mutant: the spawn task does not check again after it got the lock.
SpawnCheckTrusts ==
    /\ At(Spawn, "locked")
    /\ Goto(Spawn, "read")
    /\ UNCHANGED <<lock, deleted, restart, cb, device, msg, faults>>

SpawnCheck ==
    /\ At(Spawn, "locked")
    /\ Goto(Spawn, IF Pending THEN "read" ELSE "unlock")
    /\ UNCHANGED <<lock, deleted, restart, cb, device, msg, faults>>

\* A response is "illegal in this context": VERIFY_PROTOCOL returns without
\* giving the lock back.
SpawnDone ==
    /\ At(Spawn, "done")
    /\ RxDoneCnt' = Inc(RxDoneCnt)
    /\ Goto(Spawn, IF msg[Spawn] \in Task THEN "idle"
                   ELSE IF msg[Spawn] = Abort THEN "error" ELSE "unlock")
    /\ msg' = [msg EXCEPT ![Spawn] = None]
    /\ UNCHANGED <<lock, deleted, restart, RxIrqCnt, CmdSync, waited, device, faults>>

\* Mutant: the spawn task keeps the lock.
SpawnKeepsLock ==
    /\ At(Spawn, "unlock")
    /\ Goto(Spawn, "idle")
    /\ UNCHANGED <<lock, deleted, restart, cb, device, msg, faults>>

SpawnUnlock ==
    /\ At(Spawn, "unlock")
    /\ Unlock /\ Goto(Spawn, "idle")
    /\ UNCHANGED <<deleted, restart, cb, device, msg, faults>>

(***************************************************************************)
(* The specification.                                                      *)
(***************************************************************************)
CmdStep(t) ==
    /\ Followed
    /\ \/ SetWaited(t) \/ MsgWrite(t) \/ Poll(t) \/ MsgRead(t) \/ CmdDone(t)
       \/ SemTake(t) \/ SemTimeout(t) \/ UnlockCmd(t) \/ CheckPending(t)
       \/ RequestSpawn(t) \/ HandleError(t) \/ DeleteLock(t)

SpawnStep ==
    /\ Followed
    /\ \/ SpawnReceive \/ SpawnCheck \/ MsgRead(Spawn) \/ SpawnDone \/ SpawnUnlock
       \/ HandleError(Spawn) \/ DeleteLock(Spawn)

Next ==
    \/ \E t \in Task : Answer(t) \/ CmdOp(t) \/ TakeLock(t) \/ CmdStep(t)
    \/ \E m \in {Event, Abort} : Notify(m)
    \/ RxIrqHandler
    \/ TakeLock(Spawn) \/ SpawnStep

Spec == Init /\ [][Next]_vars

\* Each task runs on, and gets into a spawn queue that has room again and again;
\* the daemon runs its calls; the spawn task, which has the higher priority, gets
\* a mutex that is given again and again; and the processor answers what it was
\* sent although it also sends events.
FairSpec ==
    /\ Spec
    /\ \A t \in Task : SF_vars(CmdStep(t)) /\ SF_vars(Answer(t))
    /\ WF_vars(RxIrqHandler)
    /\ WF_vars(SpawnStep) /\ SF_vars(TakeLock(Spawn))

(***************************************************************************)
(* Properties.                                                             *)
(***************************************************************************)
\* No command has timed out, no transfer has failed, no abort was handled.
Undisturbed == ~restart /\ ~spiError /\ \A p \in Proc : pc[p] # "error"

\* The command of a task holds the lock from SetWaited until UnlockCmd.
InCommand == {"write", "poll", "read", "done", "sem", "unlock"}

\* A response is read only by the task whose command it answers: neither by
\* another task's command nor by the spawn task, which calls that illegal
\* (_SlDrvMsgReadSpawnCtx), although both read whatever is at the head.
OwnResponse ==
    Undisturbed => \A p \in Proc : At(p, "done") /\ msg[p] \in Task => msg[p] = p

\* _SlDrvMsgRead is entered only when a message is there to be read: the search
\* for the sync pattern has no timeout in this build and would never end.
ReaderFindsMessage ==
    Undisturbed => \A p \in Proc : At(p, "read") => nwp # <<>>

\* An announced message is not left behind: when every caller and the spawn task
\* are idle and nothing is on its way to them, all counted messages are read.
NoStrandedMessage ==
    Undisturbed /\ pended = 0 /\ spawnq = 0 /\ (\A p \in Proc : At(p, "idle"))
        => ~Pending

\* A command that got the lock comes back to its caller, whatever interrupts are
\* lost, unless a transfer has failed (the reader may then wait for a message).
CommandReturns ==
    \A t \in Task : At(t, "locked") ~> (At(t, "idle") \/ restart \/ spiError)

\* Every message the processor announces is read in the end, unless its interrupt
\* was lost or the driver is waiting to be restarted.
MessagesRead ==
    (nwp # <<>>) ~> (nwp = <<>> \/ restart \/ lostIrq \/ spiError)

(***************************************************************************)
(* The strengthenings that make OwnResponse, ReaderFindsMessage and        *)
(* NoStrandedMessage inductive.                                            *)
(***************************************************************************)
\* An error that was handled leaves the restart flag behind.
ErrorInv ==
    /\ deleted => restart
    /\ \A p \in Proc : At(p, "delete") => restart

\* The lock, and the flag that tells the interrupt handler whom to wake.
CommandInv ==
    /\ \A p \in Proc : pc[p] \in InCommand \cup {"locked"} => lock = p
    /\ waited => \E t \in Task : pc[t] \in InCommand \ {"unlock"}
    /\ \A t \in Task : pc[t] \in {"write", "read", "done", "sem"} => waited

\* The response to t is on its way.
Queued(t) == \E i \in 1..Len(nwp) : nwp[i] = t

\* A response exists once, and only while its command waits for it.
ResponseInv ==
    /\ \A t \in Task : t \in todo \/ Queued(t) \/ msg[t] = t =>
          waited /\ pc[t] \in {"poll", "read", "done", "sem"}
    /\ \A t \in todo : ~Queued(t) /\ msg[t] # t
    /\ \A t \in Task : msg[t] = t => ~Queued(t)
    /\ \A i, j \in 1..Len(nwp) : nwp[i] = nwp[j] /\ nwp[i] \in Task => i = j
    /\ \A p \in Proc : msg[p] \in Task => msg[p] = p

\* The messages that are counted and not read.
Gap(i, d) == IF i >= d THEN i - d ELSE i + W - d
Ahead == Gap(RxIrqCnt, RxDoneCnt)

\* No more messages are counted, or will be, than are there; one that was read
\* stays counted until its reader has updated RxDoneCnt.
CountInv ==
    /\ \A p \in Proc : pc[p] \in {"read", "done"} => Ahead >= 1
    /\ (\A p \in Proc : ~At(p, "done")) => Ahead + pended <= Len(nwp)
    /\ Ahead + pended <= Len(nwp) + 1

\* With one message ahead: a pending message has a request waiting in the spawn
\* queue, the spawn task on its way to it, or a command that will poll again or
\* look at the counters once more; and a message counted while the spawn task
\* finishes another has a request of its own.
ServeInv ==
    /\ Pending => \/ spawnq > 0
                  \/ pc[Spawn] \in {"lock", "locked", "read", "done"}
                  \/ \E t \in Task : pc[t] \in InCommand \cup {"check", "spawn"}
    /\ At(Spawn, "done") /\ Ahead > 1 => spawnq > 0

\* The inductive invariant.
DriverInv ==
    /\ TypeOK /\ ErrorInv
    /\ Undisturbed => CommandInv /\ ResponseInv /\ CountInv
    /\ Undisturbed /\ MaxAhead = 1 => ServeInv
=============================================================================
