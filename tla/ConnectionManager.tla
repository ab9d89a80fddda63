------------------------- MODULE ConnectionManager -------------------------
(***************************************************************************)
(* The network mediator of c/legacy/src/connection.zig: the "select_task"  *)
(* that polls the sockets services are waiting on, the pool of connection  *)
(* elements it owns, and the services that call wait_rx from their tasks.  *)
(*                                                                         *)
(* Every step is one access to memory, a queue or a mutex that another     *)
(* task can see; what lies between two such accesses is merged into one    *)
(* step.  All tasks interleave freely: the manager runs at priority 4, but *)
(* it blocks in sl_Select, in queue sends, in the mutex and whenever the   *)
(* wifi service suspends it, so no order between it and the services can   *)
(* be relied on.                                                           *)
(***************************************************************************)
EXTENDS Integers

CONSTANTS Clients,      \* tasks that call wait_rx (lwm2m, mqtt, http, ntp services)
          Sockets,      \* socket descriptors the network processor hands out
          N,            \* elements in the pool (connections: [4])
          Timeouts,     \* wait_rx timeouts, in ticks (timeout_s * 1024)
          TickModulus,  \* range of the 32-bit tick counter
          TickWraps,    \* FALSE: uptime stays below TickModulus ticks
          NoSocket,     \* the invalid descriptor, -1
          Free, Manager \* mutex states besides "held by client c"

ASSUME ConstantsOK ==
    /\ NoSocket \notin Sockets
    /\ Timeouts \subseteq Nat
    /\ N \in Nat \ {0}
    /\ TickModulus \in Nat \ {0}
    /\ TickWraps \in BOOLEAN
    /\ Free # Manager
    /\ Free \notin Clients
    /\ Manager \notin Clients

None  == -1             \* the empty state of a queue of length 1
Slots == 1..N
Ticks == 0..(TickModulus - 1)

VARIABLES
    now,        \* xTaskGetTickCount()
    sd,         \* conn.sd of each element, NoSocket when the element is free
    deadline,   \* conn.rx_wait_deadline_ms, 0 when the element is not armed
    rx_queue,   \* the deadline waiting in conn.rx_queue, None when empty
    rx_signal,  \* the answer waiting in conn.rx_signal (1 ready, 0 timeout), None when empty
    mutex,      \* Free, Manager or the client that holds it
    notified,   \* a task notification is pending for the manager
    suspended,  \* the manager is suspended by the wifi service
    mpc,        \* where the manager is in run()
    slot,       \* the element its for loop is at
    cur,        \* current_time
    read_set,   \* read_fd_set
    maintenance,\* maintenance # 0
    pc,         \* where each client is in wait_rx
    sock,       \* the client's open socket, NoSocket when it has none
    conn,       \* the element the client is looking at, then the one it uses
    due,        \* deadline_ms of the client's call
    readable,   \* sockets with received data waiting in the network processor
    raced       \* history: two clients have been on one element at the same time

managerVars == <<suspended, mpc, slot, cur, read_set, maintenance>>
poolVars    == <<sd, deadline, rx_queue, rx_signal, mutex, notified>>
clientVars  == <<pc, sock, conn, due, raced>>
vars == <<now, readable, managerVars, poolVars, clientVars>>

ManagerPC == {"start", "begin", "scan", "inval", "invalWrite", "expire",
              "select", "answer", "answerSend", "wait"}
ClientPC  == {"idle", "findSocket", "findFree", "claim", "claimWrite",
              "reset", "send", "notify", "wait", "unreachable"}

\* The client has left the search and works on element conn[c].
Using(c) == pc[c] \in {"claim", "claimWrite", "reset", "send", "notify", "wait"}

\* The client has posted its deadline and is owed an answer.
Owed(c) == pc[c] \in {"notify", "wait"}

Users(s) == {c \in Clients : Using(c) /\ conn[c] = s}
Waiters(s) == {c \in Clients : Owed(c) /\ conn[c] = s}

\* Every variable has its type: descriptors, deadlines, queue contents and
\* program counters stay in the ranges the code gives them.
TypeOK ==
    /\ now \in Ticks
    /\ sd \in [Slots -> Sockets \cup {NoSocket}]
    /\ deadline \in [Slots -> Ticks]
    /\ rx_queue \in [Slots -> Ticks \cup {None}]
    /\ rx_signal \in [Slots -> {0, 1, None}]
    /\ mutex \in Clients \cup {Free, Manager}
    /\ notified \in BOOLEAN
    /\ suspended \in BOOLEAN
    /\ mpc \in ManagerPC
    /\ slot \in 1..(N + 1)
    /\ cur \in Ticks
    /\ read_set \in SUBSET Sockets
    /\ maintenance \in BOOLEAN
    /\ pc \in [Clients -> ClientPC]
    /\ sock \in [Clients -> Sockets \cup {NoSocket}]
    /\ conn \in [Clients -> Slots]
    /\ due \in [Clients -> Ticks]
    /\ readable \in SUBSET Sockets
    /\ raced \in BOOLEAN

\* init() and connectionManagerElement.init(): the task exists and is suspended.
Init ==
    /\ now = 0
    /\ sd = [s \in Slots |-> NoSocket]
    /\ deadline = [s \in Slots |-> 0]
    /\ rx_queue = [s \in Slots |-> None]
    /\ rx_signal = [s \in Slots |-> None]
    /\ mutex = Free
    /\ notified = FALSE
    /\ suspended = TRUE
    /\ mpc = "start"
    /\ slot = 1
    /\ cur = 0
    /\ read_set = {}
    /\ maintenance = FALSE
    /\ pc = [c \in Clients |-> "idle"]
    /\ sock = [c \in Clients |-> NoSocket]
    /\ conn = [c \in Clients |-> 1]
    /\ due = [c \in Clients |-> 0]
    /\ readable = {}
    /\ raced = FALSE

-----------------------------------------------------------------------------
(* The environment: the tick interrupt, the network and the wifi service.  *)

\* Without TickWraps the last tick is never followed by another.
Tick ==
    /\ TickWraps \/ now < TickModulus - 1
    /\ now' = (now + 1) % TickModulus
    /\ UNCHANGED <<readable, managerVars, poolVars, clientVars>>

Arrive ==
    \E c \in Clients :
        /\ sock[c] # NoSocket
        /\ sock[c] \notin readable
        /\ readable' = readable \cup {sock[c]}
        /\ UNCHANGED <<now, managerVars, poolVars, clientVars>>

\* suspend_network_mediator(): vTaskSuspend, wherever the manager is.
Suspend ==
    /\ ~suspended
    /\ suspended' = TRUE
    /\ UNCHANGED <<now, readable, poolVars, clientVars,
                   mpc, slot, cur, read_set, maintenance>>

\* resume_network_mediator(): a task suspended inside xTaskNotifyWait returns
\* from it and takes a notification given meanwhile; one suspended inside a
\* queue call retries; any other goes on, one about to wait included.
Resume ==
    /\ suspended
    /\ suspended' = FALSE
    /\ \/ mpc = "wait" /\ mpc' = "begin" /\ notified' = FALSE
       \/ UNCHANGED <<mpc, notified>>
    /\ UNCHANGED <<now, readable, sd, deadline, rx_queue, rx_signal, mutex,
                   clientVars, slot, cur, read_set, maintenance>>

-----------------------------------------------------------------------------
(* run(): the manager task.                                                *)

\* The mutex.give() before the loop fails on a free mutex and is ignored.
\* Services start after the manager has run this far (see CallWaitRx).
Start ==
    /\ mpc = "start"
    /\ mpc' = "begin"
    /\ UNCHANGED <<now, readable, poolVars, clientVars,
                   suspended, slot, cur, read_set, maintenance>>

Begin ==
    /\ mpc = "begin"
    /\ mpc' = "scan"
    /\ slot' = 1
    /\ cur' = now
    /\ read_set' = {}
    /\ maintenance' = FALSE
    /\ UNCHANGED <<now, readable, poolVars, clientVars, suspended>>

Scanning == mpc = "scan" /\ slot \in Slots

ScanFree ==
    /\ Scanning
    /\ sd[slot] = NoSocket
    /\ slot' = slot + 1
    /\ UNCHANGED <<now, readable, poolVars, clientVars,
                   suspended, mpc, cur, read_set, maintenance>>

\* The element's deadline after a non-blocking receive from rx_queue.
NewDeadline(s) ==
    IF rx_queue[s] # None /\ (rx_queue[s] > deadline[s] \/ rx_queue[s] = 0)
    THEN rx_queue[s]
    ELSE deadline[s]

\* tx_queue has no sender anywhere, so its deadline stays 0 and is left out.
Receive ==
    /\ Scanning
    /\ sd[slot] # NoSocket
    /\ rx_queue' = [rx_queue EXCEPT ![slot] = None]

ScanUnarmed ==
    /\ Receive
    /\ NewDeadline(slot) = 0
    /\ deadline' = [deadline EXCEPT ![slot] = 0]
    /\ mpc' = "inval"
    /\ UNCHANGED <<now, readable, clientVars, sd, rx_signal, mutex, notified,
                   suspended, slot, cur, read_set, maintenance>>

ScanArmed ==
    /\ Receive
    /\ NewDeadline(slot) # 0
    /\ NewDeadline(slot) >= cur
    /\ deadline' = [deadline EXCEPT ![slot] = NewDeadline(slot)]
    /\ read_set' = read_set \cup {sd[slot]}
    /\ slot' = slot + 1
    /\ UNCHANGED <<now, readable, clientVars, sd, rx_signal, mutex, notified,
                   suspended, mpc, cur, maintenance>>

\* Mutant: a deadline counts as missed in the tick it names.
ScanExpiredOneEarly ==
    /\ Receive
    /\ NewDeadline(slot) # 0
    /\ NewDeadline(slot) <= cur
    /\ deadline' = [deadline EXCEPT ![slot] = 0]
    /\ mpc' = "expire"
    /\ UNCHANGED <<now, readable, clientVars, sd, rx_signal, mutex, notified,
                   suspended, slot, cur, read_set, maintenance>>

ScanExpired ==
    /\ Receive
    /\ NewDeadline(slot) # 0
    /\ NewDeadline(slot) < cur
    /\ deadline' = [deadline EXCEPT ![slot] = 0]
    /\ mpc' = "expire"
    /\ UNCHANGED <<now, readable, clientVars, sd, rx_signal, mutex, notified,
                   suspended, slot, cur, read_set, maintenance>>

\* Mutant: the element is invalidated without waiting for the mutex.
InvalTakeUnlocked ==
    /\ mpc = "inval"
    /\ mutex' = Manager
    /\ mpc' = "invalWrite"
    /\ UNCHANGED <<now, readable, clientVars, sd, deadline, rx_queue, rx_signal,
                   notified, suspended, slot, cur, read_set, maintenance>>

InvalTake ==
    /\ mpc = "inval"
    /\ mutex = Free
    /\ mutex' = Manager
    /\ mpc' = "invalWrite"
    /\ UNCHANGED <<now, readable, clientVars, sd, deadline, rx_queue, rx_signal,
                   notified, suspended, slot, cur, read_set, maintenance>>

InvalWrite ==
    /\ mpc = "invalWrite"
    /\ sd' = [sd EXCEPT ![slot] = NoSocket]
    /\ mutex' = Free
    /\ maintenance' = TRUE
    /\ slot' = slot + 1
    /\ mpc' = "scan"
    /\ UNCHANGED <<now, readable, clientVars, deadline, rx_queue, rx_signal,
                   notified, suspended, cur, read_set>>

\* rx_signal.send blocks while the queue of length 1 is full.
Answer(s, timeout) ==
    /\ rx_signal[s] = None
    /\ rx_signal' = [rx_signal EXCEPT ![s] = timeout]

\* Mutant: a missed deadline is cleared but never answered.
ExpireSilently ==
    /\ mpc = "expire"
    /\ maintenance' = TRUE
    /\ slot' = slot + 1
    /\ mpc' = "scan"
    /\ UNCHANGED <<now, readable, clientVars, poolVars, suspended, cur, read_set>>

Expire ==
    /\ mpc = "expire"
    /\ Answer(slot, 0)
    /\ maintenance' = TRUE
    /\ slot' = slot + 1
    /\ mpc' = "scan"
    /\ UNCHANGED <<now, readable, clientVars, sd, deadline, rx_queue, mutex,
                   notified, suspended, cur, read_set>>

\* After the for loop: select, run the loop again, or wait for a notification.
\* The locals of one pass (here and below) are cleared where they go out of use.
Dispatch ==
    /\ mpc = "scan"
    /\ slot = N + 1
    /\ mpc' = IF read_set # {} THEN "select"
              ELSE IF maintenance THEN "begin" ELSE "wait"
    /\ slot' = 1
    /\ cur' = 0
    /\ maintenance' = FALSE
    /\ UNCHANGED <<now, readable, poolVars, clientVars, suspended, read_set>>

\* Mutant: the set still holds every socket asked for, not only the ready ones.
SelectReadyAll ==
    /\ mpc = "select"
    /\ read_set \cap readable # {}
    /\ mpc' = "answer"
    /\ UNCHANGED <<now, readable, poolVars, clientVars,
                   suspended, slot, cur, read_set, maintenance>>

\* sl_Select with a zero timeout leaves in the set the sockets with data.
SelectReady ==
    /\ mpc = "select"
    /\ read_set \cap readable # {}
    /\ read_set' = read_set \cap readable
    /\ mpc' = "answer"
    /\ UNCHANGED <<now, readable, poolVars, clientVars, suspended, slot, cur, maintenance>>

\* No socket is ready: delayTask(50), then the loop again.
SelectNone ==
    /\ mpc = "select"
    /\ read_set \cap readable = {}
    /\ mpc' = "begin"
    /\ read_set' = {}
    /\ UNCHANGED <<now, readable, poolVars, clientVars,
                   suspended, slot, cur, maintenance>>

\* A negative result is only logged.
SelectError ==
    /\ mpc = "select"
    /\ mpc' = "begin"
    /\ read_set' = {}
    /\ UNCHANGED <<now, readable, poolVars, clientVars,
                   suspended, slot, cur, maintenance>>

\* Mutant: the deadline stays armed after the answer.
AnswerScanKeepsDeadline ==
    /\ mpc = "answer"
    /\ slot \in Slots
    /\ IF sd[slot] # NoSocket /\ sd[slot] \in read_set
       THEN mpc' = "answerSend" /\ UNCHANGED slot
       ELSE slot' = slot + 1 /\ UNCHANGED mpc
    /\ UNCHANGED <<now, readable, clientVars, poolVars,
                   suspended, cur, read_set, maintenance>>

AnswerScan ==
    /\ mpc = "answer"
    /\ slot \in Slots
    /\ IF sd[slot] # NoSocket /\ sd[slot] \in read_set
       THEN /\ deadline' = [deadline EXCEPT ![slot] = 0]
            /\ mpc' = "answerSend"
            /\ UNCHANGED slot
       ELSE /\ slot' = slot + 1
            /\ UNCHANGED <<deadline, mpc>>
    /\ UNCHANGED <<now, readable, clientVars, sd, rx_queue, rx_signal, mutex,
                   notified, suspended, cur, read_set, maintenance>>

AnswerSend ==
    /\ mpc = "answerSend"
    /\ Answer(slot, 1)
    /\ slot' = slot + 1
    /\ mpc' = "answer"
    /\ UNCHANGED <<now, readable, clientVars, sd, deadline, rx_queue, mutex,
                   notified, suspended, cur, read_set, maintenance>>

AnswerEnd ==
    /\ mpc = "answer"
    /\ slot = N + 1
    /\ mpc' = "begin"
    /\ slot' = 1
    /\ read_set' = {}
    /\ UNCHANGED <<now, readable, poolVars, clientVars,
                   suspended, cur, maintenance>>

\* waitForNotify(0, 0xFFFFFFFF, null)
WaitForNotify ==
    /\ mpc = "wait"
    /\ notified
    /\ notified' = FALSE
    /\ mpc' = "begin"
    /\ UNCHANGED <<now, readable, clientVars, sd, deadline, rx_queue, rx_signal,
                   mutex, suspended, slot, cur, read_set, maintenance>>

ManagerStep ==
    /\ ~suspended
    /\ \/ Start \/ Begin \/ ScanFree \/ ScanUnarmed \/ ScanArmed \/ ScanExpired
       \/ InvalTake \/ InvalWrite \/ Expire \/ Dispatch
       \/ SelectReady \/ SelectNone \/ SelectError
       \/ AnswerScan \/ AnswerSend \/ AnswerEnd \/ WaitForNotify

-----------------------------------------------------------------------------
(* The services: sockets come and go between calls of wait_rx.             *)

OpenSocket(c) ==
    /\ pc[c] = "idle"
    /\ sock[c] = NoSocket
    /\ \E s \in Sockets :
        /\ \A d \in Clients : sock[d] # s
        /\ sock' = [sock EXCEPT ![c] = s]
    /\ UNCHANGED <<now, readable, managerVars, poolVars, pc, conn, due, raced>>

CloseSocket(c) ==
    /\ pc[c] = "idle"
    /\ sock[c] # NoSocket
    /\ sock' = [sock EXCEPT ![c] = NoSocket]
    /\ readable' = readable \ {sock[c]}
    /\ UNCHANGED <<now, managerVars, poolVars, pc, conn, due, raced>>

ReadSocket(c) ==
    /\ pc[c] = "idle"
    /\ sock[c] \in readable
    /\ readable' = readable \ {sock[c]}
    /\ UNCHANGED <<now, managerVars, poolVars, clientVars>>

\* wait_rx: the deadline is a 32-bit sum.  A build with safety checks stops the
\* program at its overflow, which ends the behaviour (TickWraps = FALSE); the
\* other builds wrap.  The wifi service resumes the manager before it tells the
\* services that the network is up.
CallWaitRx(c) ==
    /\ pc[c] = "idle"
    /\ sock[c] # NoSocket
    /\ mpc # "start"
    /\ \E t \in Timeouts :
        /\ TickWraps \/ now + t < TickModulus - 1
        /\ due' = [due EXCEPT ![c] = (now + t) % TickModulus]
    /\ pc' = [pc EXCEPT ![c] = "findSocket"]
    /\ UNCHANGED <<now, readable, managerVars, poolVars, sock, conn, raced>>

\* Client c settles on the element it is looking at; the history variable
\* records that it is not alone there.
Settle(c, next) ==
    /\ pc' = [pc EXCEPT ![c] = next]
    /\ raced' = (raced \/ Users(conn[c]) # {})

\* One element of an unlocked search for the client's socket in 1..last.
SearchSocket(c, last) ==
    /\ pc[c] = "findSocket"
    /\ \/ /\ sd[conn[c]] = sock[c]
          /\ Settle(c, "reset")
          /\ UNCHANGED conn
       \/ /\ sd[conn[c]] # sock[c]
          /\ conn[c] < last
          /\ conn' = [conn EXCEPT ![c] = @ + 1]
          /\ UNCHANGED <<pc, raced>>
       \/ /\ sd[conn[c]] # sock[c]
          /\ conn[c] >= last
          /\ conn' = [conn EXCEPT ![c] = 1]
          /\ pc' = [pc EXCEPT ![c] = "findFree"]
          /\ UNCHANGED raced
    /\ UNCHANGED <<now, readable, managerVars, poolVars, sock, due>>

\* Mutant: the search stops one element short.
FindSocketShort(c) == SearchSocket(c, N - 1)

\* Mutant: the search runs one element past the pool.
FindSocketLong(c) == SearchSocket(c, N + 1)

FindSocket(c) == SearchSocket(c, N)

\* One element of findFreeSocket's search; running off the end is the
\* "orelse unreachable" of wait_rx.
FindFree(c) ==
    /\ pc[c] = "findFree"
    /\ \/ /\ sd[conn[c]] = NoSocket
          /\ Settle(c, "claim")
          /\ UNCHANGED conn
       \/ /\ sd[conn[c]] # NoSocket
          /\ conn[c] < N
          /\ conn' = [conn EXCEPT ![c] = @ + 1]
          /\ UNCHANGED <<pc, raced>>
       \/ /\ sd[conn[c]] # NoSocket
          /\ conn[c] = N
          /\ pc' = [pc EXCEPT ![c] = "unreachable"]
          /\ UNCHANGED <<conn, raced>>
    /\ UNCHANGED <<now, readable, managerVars, poolVars, sock, due>>

ClaimTake(c) ==
    /\ pc[c] = "claim"
    /\ mutex = Free
    /\ mutex' = c
    /\ pc' = [pc EXCEPT ![c] = "claimWrite"]
    /\ UNCHANGED <<now, readable, managerVars, sd, deadline, rx_queue, rx_signal,
                   notified, sock, conn, due, raced>>

ClaimWrite(c) ==
    /\ pc[c] = "claimWrite"
    /\ sd' = [sd EXCEPT ![conn[c]] = sock[c]]
    /\ mutex' = Free
    /\ pc' = [pc EXCEPT ![c] = "reset"]
    /\ UNCHANGED <<now, readable, managerVars, deadline, rx_queue, rx_signal,
                   notified, sock, conn, due, raced>>

ResetSignal(c) ==
    /\ pc[c] = "reset"
    /\ rx_signal' = [rx_signal EXCEPT ![conn[c]] = None]
    /\ pc' = [pc EXCEPT ![c] = "send"]
    /\ UNCHANGED <<now, readable, managerVars, sd, deadline, rx_queue, mutex,
                   notified, sock, conn, due, raced>>

\* rx_queue.send blocks while the queue of length 1 is full.
SendDeadline(c) ==
    /\ pc[c] = "send"
    /\ rx_queue[conn[c]] = None
    /\ rx_queue' = [rx_queue EXCEPT ![conn[c]] = due[c]]
    /\ pc' = [pc EXCEPT ![c] = "notify"]
    /\ UNCHANGED <<now, readable, managerVars, sd, deadline, rx_signal, mutex,
                   notified, sock, conn, due, raced>>

\* Mutant: the manager is not notified of the new deadline.
NotifyNobody(c) ==
    /\ pc[c] = "notify"
    /\ pc' = [pc EXCEPT ![c] = "wait"]
    /\ UNCHANGED <<now, readable, managerVars, poolVars, sock, conn, due, raced>>

NotifyManager(c) ==
    /\ pc[c] = "notify"
    /\ notified' = TRUE
    /\ pc' = [pc EXCEPT ![c] = "wait"]
    /\ UNCHANGED <<now, readable, managerVars, sd, deadline, rx_queue, rx_signal,
                   mutex, sock, conn, due, raced>>

\* rx_signal.recieve(null): wait_rx returns (rx_signal = 1).
ReceiveAnswer(c) ==
    /\ pc[c] = "wait"
    /\ rx_signal[conn[c]] # None
    /\ rx_signal' = [rx_signal EXCEPT ![conn[c]] = None]
    /\ pc' = [pc EXCEPT ![c] = "idle"]
    /\ conn' = [conn EXCEPT ![c] = 1]
    /\ due' = [due EXCEPT ![c] = 0]
    /\ UNCHANGED <<now, readable, managerVars, sd, deadline, rx_queue, mutex,
                   notified, sock, raced>>

\* The steps of a wait_rx call in progress.
WaitRxStep(c) ==
    \/ FindSocket(c) \/ FindFree(c) \/ ClaimTake(c) \/ ClaimWrite(c)
    \/ ResetSignal(c) \/ SendDeadline(c) \/ NotifyManager(c) \/ ReceiveAnswer(c)

ClientStep(c) ==
    \/ OpenSocket(c) \/ CloseSocket(c) \/ ReadSocket(c) \/ CallWaitRx(c)
    \/ WaitRxStep(c)

Next ==
    \/ Tick \/ Arrive \/ Suspend \/ Resume
    \/ ManagerStep
    \/ \E c \in Clients : ClientStep(c)

Spec == Init /\ [][Next]_vars

-----------------------------------------------------------------------------
(* Fairness.  The tick interrupt never stops.  A task that is runnable     *)
(* again and again is scheduled: FreeRTOS hands a mutex or a queue to the  *)
(* tasks blocked on it.  The wifi service reconnects until it succeeds, so *)
(* a suspended manager is resumed; nothing is promised of the network, of  *)
(* sl_Select or of what services do between calls.                         *)

Fairness ==
    /\ WF_vars(Tick)
    /\ WF_vars(Resume)
    /\ SF_vars(ManagerStep)
    /\ \A c \in Clients : SF_vars(WaitRxStep(c))

FairSpec == Spec /\ Fairness

-----------------------------------------------------------------------------
(* Properties.                                                             *)

\* The mutex is held exactly while its holder is between take and give in
\* findFreeSocket or in the invalidation of run(): sd is never written by
\* two tasks at once, even if the manager is suspended inside.
MutexHeld ==
    /\ mutex = Manager <=> mpc = "invalWrite"
    /\ \A c \in Clients : mutex = c <=> pc[c] = "claimWrite"

\* Although findSocket searches the pool without the mutex, a descriptor is
\* never in two elements at once, so the answer loop of run() never signals
\* one socket twice.
OneSlotPerSocket ==
    \A s, t \in Slots : sd[s] = sd[t] /\ sd[s] # NoSocket => s = t

\* run() is about to send an answer on element s.
Answering(s) == mpc \in {"expire", "answerSend"} /\ slot = s

One(b) == IF b THEN 1 ELSE 0

\* The answers element s still has to deliver: a deadline not yet read, an
\* armed deadline, an answer being sent, an answer not yet received.
Promises(s) == One(rx_queue[s] # None) + One(deadline[s] # 0)
               + One(Answering(s)) + One(rx_signal[s] # None)

\* As long as no two services have met on an element, an element owes at
\* most one answer and only to a service still waiting for it.  No service
\* sees the answer of an earlier call, and the blocking rx_signal.send of
\* run() never finds the queue full.
OneAnswerPerWaiter ==
    ~raced => \A s \in Slots :
        /\ Promises(s) <= 1
        /\ Promises(s) = 1 => Waiters(s) # {}

\* The manager does not sleep in waitForNotify while a service that is alone
\* on an element of the pool waits for an answer: the order "send to
\* rx_queue, then notify" against "poll rx_queue, then wait" loses nothing.
NoLostWakeup ==
    \A c \in Clients :
        /\ pc[c] = "wait" /\ ~raced
        /\ sd[conn[c]] = sock[c]
        /\ rx_signal[conn[c]] = None
        => mpc # "wait" \/ notified

\* wait_rx returns true to a service that is alone on its element only if
\* its own socket has data to read.
ReadyMeansReadable ==
    \A c \in Clients :
        pc[c] = "wait" /\ ~raced /\ rx_signal[conn[c]] = 1 => sock[c] \in readable

\* wait_rx returns false to a service that is alone on its element only
\* after its deadline.  (Uptime below 2^32 ticks: TickWraps = FALSE.)
NoEarlyTimeout ==
    \A c \in Clients :
        pc[c] = "wait" /\ ~raced /\ rx_signal[conn[c]] = 0 => now > due[c]

\* run() invalidated the element of client c between the client's search and
\* its rx_queue.send, so the deadline sits in an element nobody reads.
Stranded(c) == sd[conn[c]] # sock[c] /\ rx_queue[conn[c]] # None

\* A service that waits is answered, by data or by its deadline, unless it is
\* stranded or two services met on an element.
WaitReturns ==
    \A c \in Clients : pc[c] = "wait" ~> (pc[c] = "idle" \/ raced \/ Stranded(c))

-----------------------------------------------------------------------------
(* The strengthenings that make the invariants inductive.                  *)

\* Inside an iteration of one of its for loops run() is at an element.
SlotInRange ==
    mpc \in {"inval", "invalWrite", "expire", "answerSend"} => slot \in Slots

\* The unlocked search stays right: what a client has not found so far is
\* not there, because only the owner of a socket ever adds it to the pool.
SocketInv ==
    /\ \A c, d \in Clients : sock[c] = sock[d] /\ sock[c] # NoSocket => c = d
    /\ \A c \in Clients : IF pc[c] = "idle" THEN conn[c] = 1 ELSE sock[c] # NoSocket
    /\ \A c \in Clients : pc[c] = "findSocket" =>
            \A s \in Slots : s < conn[c] => sd[s] # sock[c]
    /\ \A c \in Clients : pc[c] \in {"findFree", "claim", "claimWrite"} =>
            \A s \in Slots : sd[s] # sock[c]
    /\ OneSlotPerSocket

\* While no two clients have met: an element has one user, who finds it free
\* when it claims it and then sees its own socket there or nothing.
LoneUser ==
    /\ \A c, d \in Clients : Using(c) /\ Using(d) /\ conn[c] = conn[d] => c = d
    /\ \A c \in Clients : pc[c] \in {"claim", "claimWrite"} => sd[conn[c]] = NoSocket
    /\ \A c \in Clients : pc[c] \in {"reset", "send", "notify", "wait"} =>
            sd[conn[c]] \in {sock[c], NoSocket}

\* Element s is still to be looked at by the loop that answers read_set.
ToAnswer(s) == \/ mpc = "answer" /\ s >= slot
               \/ mpc = "answerSend" /\ s > slot

\* While no two clients have met: read_set holds only sockets of armed
\* elements that this pass has already seen, and after sl_Select only
\* sockets with data.
ReadSetInv ==
    /\ \A x \in read_set : \E s \in Slots : sd[s] = x
    /\ mpc \in {"start", "begin", "wait"} => read_set = {}
    /\ \A s \in Slots : sd[s] \in read_set =>
        /\ mpc \in {"scan", "inval", "invalWrite", "expire"} => s < slot
        /\ mpc \notin {"answer", "answerSend"} \/ ToAnswer(s) => deadline[s] # 0
        /\ ToAnswer(s) => sd[s] \in readable

\* While no two clients have met: a free element, or one about to be freed,
\* is not armed, and a ready answer is on its way only to a readable socket.
ElementInv ==
    /\ \A s \in Slots : sd[s] = NoSocket => deadline[s] = 0
    /\ mpc \in {"inval", "invalWrite"} => deadline[slot] = 0
    /\ \A c \in Clients :
        Owed(c) /\ (rx_signal[conn[c]] = 1 \/ (mpc = "answerSend" /\ slot = conn[c]))
            => sock[c] \in readable

\* OneAnswerPerWaiter, one stage of an answer at a time.
AnswerInv ==
    \A s \in Slots :
        /\ rx_queue[s] # None =>
              deadline[s] = 0 /\ ~Answering(s) /\ rx_signal[s] = None
        /\ deadline[s] # 0 => ~Answering(s) /\ rx_signal[s] = None
        /\ Answering(s) => rx_signal[s] = None
        /\ \/ rx_queue[s] # None \/ deadline[s] # 0
           \/ Answering(s) \/ rx_signal[s] # None
           => \E c \in Clients : Owed(c) /\ conn[c] = s

\* While no two clients have met: an answer that is owed on an element still
\* in the pool is in one of its stages or about to be given up with the
\* element; what this pass has seen armed it will select; and a deadline not
\* yet read lies ahead of the pass, or a notification starts another one.
WakeInv ==
    /\ \A c \in Clients :
        Owed(c) /\ sd[conn[c]] = sock[c] /\ rx_signal[conn[c]] = None =>
            \/ rx_queue[conn[c]] # None \/ deadline[conn[c]] # 0
            \/ Answering(conn[c])
            \/ mpc \in {"inval", "invalWrite"} /\ slot = conn[c]
    /\ \A s \in Slots : deadline[s] # 0 =>
        /\ mpc # "wait"
        /\ mpc \in {"scan", "inval", "invalWrite", "expire"} /\ s < slot =>
              sd[s] \in read_set
    /\ \A c \in Clients :
        pc[c] = "wait" /\ sd[conn[c]] = sock[c] /\ rx_queue[conn[c]] # None =>
            \/ notified \/ mpc = "begin"
            \/ mpc \in {"scan", "inval", "invalWrite", "expire"} /\ slot <= conn[c]

\* While no two clients have met and the ticks have not wrapped: the element
\* of a client works with the client's own deadline, and a timeout is on its
\* way only once that deadline is in the past.
LateInv ==
    /\ cur <= now
    /\ \A c \in Clients : Owed(c) =>
        /\ rx_queue[conn[c]] \in {None, due[c]}
        /\ deadline[conn[c]] \in {0, due[c]}
        /\ mpc = "expire" /\ slot = conn[c] => due[c] < now
        /\ rx_signal[conn[c]] = 0 => due[c] < now

\* The inductive invariant.
PoolInv ==
    /\ TypeOK
    /\ SlotInRange
    /\ MutexHeld
    /\ SocketInv
    /\ ~raced => LoneUser /\ ReadSetInv /\ ElementInv /\ AnswerInv /\ WakeInv
    /\ ~raced /\ ~TickWraps => LateInv

-----------------------------------------------------------------------------
(* What the comments and assertions of the code claim.                     *)

\* "Look for the first free position in the pool": the position that
\* findFreeSocket claims is free when it is claimed.
ClaimedPositionIsFree ==
    \A c \in Clients : pc[c] = "claimWrite" => sd[conn[c]] = NoSocket
=============================================================================
