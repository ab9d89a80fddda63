----------------------------- MODULE ActionPool -----------------------------
(***************************************************************************)
(* The pool of action objects of the SimpleLink host driver (driver.c) and *)
(* the calls that use it: sl_Connect, sl_Accept, sl_Select, sl_Recv,       *)
(* sl_NetAppDnsGetHostByName, sl_NetAppPingStart, sl_Start and sl_Stop.    *)
(* A call takes an object, sends a command, waits on the object for the    *)
(* asynchronous answer and releases the object.  The objects are kept in   *)
(* three lists linked by NextIndex: free, pending and active.  One action  *)
(* is one critical section of ProtectionLockObj or one wait.               *)
(***************************************************************************)
EXTENDS Naturals, FiniteSets

CONSTANTS Task, N,            \* MAX_CONCURRENT_ACTIONS
          Action, Recv,       \* the action identifiers; RECV_ID
          Socket, NoSocket,   \* SL_MAX_SOCKETS: the action concerns no socket
          May,                \* the calls [act, sd] each task makes
          Timed               \* the actions whose wait has a timeout

VARIABLES
    ActionID, AdditionalData, NextIndex, SyncObj,   \* the fields of ObjPool
    FreePoolIdx, PendingPoolIdx, ActivePoolIdx,     \* the list heads; N is "none"
    ActiveActions,      \* the sockets and actions whose bit is set in the bitmap
    restart,            \* g_bDeviceRestartIsRequired
    pc, call, ObjIdx,   \* each task's place, its call and its object
    owed,               \* the tasks the network processor owes an answer
    ActionIndex,        \* AsyncExt.ActionIndex while an answer is handled, else N
    answering,          \* the task whose answer has been read and is handled
    leaked              \* the keys of calls that returned without a release

fields == <<ActionID, AdditionalData>>
heads == <<FreePoolIdx, PendingPoolIdx, ActivePoolIdx>>
pool == <<fields, NextIndex, heads, ActiveActions>>
reader == <<ActionIndex, answering>>
vars == <<pool, SyncObj, restart, pc, call, ObjIdx, owed, reader, leaked>>

Obj == 0..(N-1)
NoAction == "no action"
NoCall == [act |-> NoAction, sd |-> NoSocket]

\* An action always concerns a socket (sl_Connect, sl_Accept, a receive) or
\* never does.
ASSUME PoolAssumption ==
    /\ N \in Nat \ {0}
    /\ Recv \in Action /\ NoSocket \notin Socket /\ Socket \cap Action = {}
    /\ NoAction \notin Action \cup Socket
    /\ May \in [Task -> SUBSET [act : Action, sd : Socket \cup {NoSocket}]]
    /\ \A t, u \in Task : \A c \in May[t], d \in May[u] :
          c.act = d.act => (c.sd = NoSocket <=> d.sd = NoSocket)
    /\ Timed \subseteq Action

\* The bit of a call: its socket's, or its action's when it concerns no socket.
Key(c) == IF c.sd \in Socket THEN c.sd ELSE c.act
ObjKey(o) == Key([act |-> ActionID[o], sd |-> AdditionalData[o]])

Owning == {"send", "wait", "release"}

\* The types of the pool and of the calls.
PoolTypeOK ==
    /\ ActionID \in [Obj -> Action \cup {NoAction}]
    /\ AdditionalData \in [Obj -> Socket \cup {NoSocket}]
    /\ NextIndex \in [Obj -> 0..N] /\ SyncObj \in [Obj -> BOOLEAN]
    /\ {FreePoolIdx, PendingPoolIdx, ActivePoolIdx} \subseteq 0..N
    /\ ActiveActions \subseteq Socket \cup Action
    /\ restart \in BOOLEAN
    /\ pc \in [Task -> {"idle", "pend", "recheck"} \cup Owning]
    /\ call \in [Task -> [act : Action \cup {NoAction}, sd : Socket \cup {NoSocket}]]
    /\ \A t \in Task : call[t] \in May[t] \cup {NoCall}
    /\ ObjIdx \in [Task -> 0..N]
    /\ owed \subseteq Task /\ leaked \subseteq Socket \cup Action

\* Every variable has its type; one reader handles one answer at a time.
TypeOK ==
    /\ PoolTypeOK
    /\ ActionIndex \in 0..N
    /\ answering \subseteq Task /\ Cardinality(answering) <= 1

\* _SlDrvDriverCBInit: all objects are in the free list.
Init ==
    /\ ActionID = [o \in Obj |-> NoAction]
    /\ AdditionalData = [o \in Obj |-> NoSocket]
    /\ NextIndex = [o \in Obj |-> o + 1] /\ SyncObj = [o \in Obj |-> FALSE]
    /\ FreePoolIdx = 0 /\ PendingPoolIdx = N /\ ActivePoolIdx = N
    /\ ActiveActions = {} /\ restart = FALSE
    /\ pc = [t \in Task |-> "idle"] /\ call = [t \in Task |-> NoCall]
    /\ ObjIdx = [t \in Task |-> N]
    /\ owed = {} /\ leaked = {}
    /\ ActionIndex = N /\ answering = {}

Goto(t, l) == pc' = [pc EXCEPT ![t] = l]

(***************************************************************************)
(* The linked lists.  A walk starts at a head, follows the links and stops *)
(* at N or at an object of Stop: it visits the least set that has the head *)
(* and, with an object it does not stop at, the next one.  In a list with  *)
(* a cycle it may go on for ever, and then does not visit N.               *)
(***************************************************************************)
Follows(next, Stop, S) == \A o \in S \ (Stop \cup {N}) : next[o] \in S

Visited(next, head, Stop) ==
    {o \in 0..N : \A S \in SUBSET (0..N) :
                     head \in S /\ Follows(next, Stop, S) => o \in S}

Members(next, head) == Visited(next, head, {}) \ {N}
Ends(next, head) == N \in Visited(next, head, {})

\* The first object of Hit on the walk, or N when there is none.
FirstOn(next, head, Hit) ==
    LET hits == Visited(next, head, Hit) \cap Hit
    IN  IF hits = {} THEN N ELSE CHOOSE o \in hits : TRUE

\* Mutant: an object in the middle of a list is not unlinked.
RemoveHeadOnly(next, head, item) ==
    IF next[head] = N THEN [head |-> N, next |-> next]
    ELSE [head |-> IF head = item THEN next[item] ELSE head, next |-> next]

\* _SlRemoveFromList: the head and the links after item was taken out.
RemoveFromList(next, head, item) ==
    LET p == FirstOn(next, head, {o \in Obj : next[o] = item})
    IN  IF next[head] = N THEN [head |-> N, next |-> next]
        ELSE IF head = item THEN [head |-> next[item], next |-> next]
        ELSE [head |-> head,
              next |-> IF p = N THEN next ELSE [next EXCEPT ![p] = next[item]]]

(***************************************************************************)
(* _SlDrvWaitForPoolObj.  An empty pool refuses the call (SL_POOL_IS_EMPTY)*)
(* and changes nothing.                                                    *)
(***************************************************************************)

\* The object joins the active list, or the pending list when the bit is set.
Enlist(t, o, c) ==
    IF Key(c) \in ActiveActions
    THEN /\ NextIndex' = [NextIndex EXCEPT ![o] = PendingPoolIdx]
         /\ PendingPoolIdx' = o
         /\ Goto(t, "pend")
         /\ UNCHANGED <<ActivePoolIdx, ActiveActions>>
    ELSE /\ NextIndex' = [NextIndex EXCEPT ![o] = ActivePoolIdx]
         /\ ActivePoolIdx' = o
         /\ ActiveActions' = ActiveActions \cup {Key(c)}
         /\ Goto(t, "send")
         /\ UNCHANGED PendingPoolIdx

WaitForPoolObj(t, c) ==
    /\ pc[t] = "idle" /\ ~restart /\ FreePoolIdx # N
    /\ LET o == FreePoolIdx IN
       /\ FreePoolIdx' = NextIndex[o]
       /\ ActionID' = [ActionID EXCEPT ![o] = c.act]
       /\ AdditionalData' = IF c.sd = NoSocket THEN AdditionalData
                            ELSE [AdditionalData EXCEPT ![o] = c.sd]
       /\ Enlist(t, o, c)
       /\ ObjIdx' = [ObjIdx EXCEPT ![t] = o]
    /\ call' = [call EXCEPT ![t] = c]
    /\ UNCHANGED <<reader, SyncObj, restart, owed, leaked>>

\* The result of the wait, an abort included, is ignored.
PendingWake(t) ==
    /\ pc[t] = "pend" /\ SyncObj[ObjIdx[t]]
    /\ SyncObj' = [SyncObj EXCEPT ![ObjIdx[t]] = FALSE]
    /\ Goto(t, "recheck")
    /\ UNCHANGED <<reader, pool, restart, call, ObjIdx, owed, leaked>>

\* Mutant: a woken call does not look at the bitmap again.
RecheckOnce(t) ==
    /\ pc[t] = "recheck"
    /\ NextIndex' = [NextIndex EXCEPT ![ObjIdx[t]] = ActivePoolIdx]
    /\ ActivePoolIdx' = ObjIdx[t]
    /\ ActiveActions' = ActiveActions \cup {Key(call[t])}
    /\ Goto(t, "send")
    /\ UNCHANGED <<reader, fields, FreePoolIdx, PendingPoolIdx, SyncObj, restart, call, ObjIdx,
                   owed, leaked>>

Recheck(t) ==
    /\ pc[t] = "recheck"
    /\ Enlist(t, ObjIdx[t], call[t])
    /\ UNCHANGED <<reader, fields, FreePoolIdx, SyncObj, restart, call, ObjIdx, owed, leaked>>

(***************************************************************************)
(* The caller: the command, the wait for the answer, the release.          *)
(***************************************************************************)

\* The call returns its error and leaves its object in the active list.
Leak(t) ==
    /\ leaked' = leaked \cup {Key(call[t])}
    /\ call' = [call EXCEPT ![t] = NoCall]
    /\ ObjIdx' = [ObjIdx EXCEPT ![t] = N]
    /\ Goto(t, "idle")

\* Mutant: the object is released although an answer will come.
SendCommandNoWait(t) ==
    /\ pc[t] = "send" /\ ~restart
    /\ owed' = owed \cup {t} /\ Goto(t, "release")
    /\ UNCHANGED <<reader, pool, SyncObj, restart, call, ObjIdx, leaked>>

\* The command is accepted, rejected by its status, or fails: then only a
\* receive call, which sends no command, still releases its object.
SendCommand(t) ==
    /\ pc[t] = "send"
    /\ \/ ~restart /\ owed' = owed \cup {t} /\ Goto(t, "wait")
          /\ UNCHANGED <<call, ObjIdx, leaked>>
       \/ ~restart /\ Goto(t, "release") /\ UNCHANGED <<call, ObjIdx, owed, leaked>>
       \/ (restart \/ call[t].act # Recv) /\ Leak(t) /\ UNCHANGED owed
    /\ UNCHANGED <<reader, pool, SyncObj, restart>>

\* Mutant: the socket of the answer is not compared.
ActiveObjForAction(c) ==
    FirstOn(NextIndex, ActivePoolIdx, {o \in Obj : ActionID[o] = c.act})

\* _SlFindAndSetActiveObj: the active object that waits for an answer to c.
ActiveObjFor(c) ==
    LET waiting == {o \in Obj : /\ ActionID[o] = c.act
                                /\ \/ AdditionalData[o] = c.sd
                                   \/ c.act # Recv /\ AdditionalData[o] = NoSocket}
    IN  FirstOn(NextIndex, ActivePoolIdx, waiting)

\* _SlDrvMsgRead: the answer to a receive is copied and signalled to its object in
\* one critical section.
DeliverData(t) ==
    /\ t \in owed /\ ~restart /\ answering = {} /\ call[t].act = Recv
    /\ LET o == ActiveObjFor(call[t]) IN
       SyncObj' = IF o = N THEN SyncObj ELSE [SyncObj EXCEPT ![o] = TRUE]
    /\ owed' = owed \ {t}
    /\ UNCHANGED <<pool, reader, restart, pc, call, ObjIdx, leaked>>

\* _SlDrvMsgRead: for any other answer the object is found under the lock, which
\* is given back before the handler runs.
FindActiveObj(t) ==
    /\ t \in owed /\ ~restart /\ answering = {} /\ call[t].act # Recv
    /\ ActionIndex' = ActiveObjFor(call[t])
    /\ answering' = {t}
    /\ UNCHANGED <<pool, SyncObj, restart, pc, call, ObjIdx, owed, leaked>>

\* _sl_HandleAsync_Connect and its like: the object is signalled.  One released
\* meanwhile, after an error, has no pRespArgs: the handler returns.
SignalObj(o) ==
    IF o = N \/ ActionID[o] = NoAction THEN SyncObj ELSE [SyncObj EXCEPT ![o] = TRUE]

\* _SlAsyncEventGenericHandler: the handler of the answer runs.
HandleAsync(t) ==
    /\ t \in answering
    /\ SyncObj' = SignalObj(ActionIndex)
    /\ owed' = owed \ {t}
    /\ answering' = {} /\ ActionIndex' = N
    /\ UNCHANGED <<pool, restart, pc, call, ObjIdx, leaked>>

WaitDone(t) ==
    /\ pc[t] = "wait" /\ SyncObj[ObjIdx[t]]
    /\ SyncObj' = [SyncObj EXCEPT ![ObjIdx[t]] = FALSE]
    /\ IF restart THEN Leak(t) ELSE Goto(t, "release") /\ UNCHANGED <<call, ObjIdx, leaked>>
    /\ UNCHANGED <<reader, pool, restart, owed>>

\* Mutant: the loop over the objects runs once too often.
HandleErrorLong ==
    /\ restart' = TRUE
    /\ SyncObj' = IF restart THEN SyncObj ELSE [o \in 0..N |-> TRUE]

\* _SlDriverHandleError: every object is signalled.
HandleError ==
    /\ restart' = TRUE
    /\ SyncObj' = IF restart THEN SyncObj ELSE [o \in Obj |-> TRUE]

\* A timed wait that expires reports the error and then releases the object.
WaitTimeout(t) ==
    /\ pc[t] = "wait" /\ call[t].act \in Timed /\ ~SyncObj[ObjIdx[t]]
    /\ HandleError
    /\ Goto(t, "release")
    /\ UNCHANGED <<reader, pool, call, ObjIdx, owed, leaked>>

\* A command of another task times out, or the device aborts.
DriverError ==
    /\ ~restart /\ HandleError
    /\ UNCHANGED <<reader, pool, pc, call, ObjIdx, owed, leaked>>

\* Mutant: only calls that concern a socket are woken.
WakesUpSocket(o, p) ==
    ActionID[p] = ActionID[o] /\ AdditionalData[o] \in Socket /\ AdditionalData[p] = AdditionalData[o]

\* A pending object that the release of object o lets go on.
WakesUp(o, p) ==
    /\ ActionID[p] = ActionID[o]
    /\ \/ AdditionalData[p] = NoSocket
       \/ AdditionalData[o] \in Socket /\ AdditionalData[p] = AdditionalData[o]

\* _SlDrvReleasePoolObj: it never returns when the pending list is a cycle
\* without an object to wake.
ReleasePoolObj(t) ==
    /\ pc[t] = "release"
    /\ LET o == ObjIdx[t]
           p == FirstOn(NextIndex, PendingPoolIdx, {q \in Obj : WakesUp(o, q)})
           pending == IF p = N THEN [head |-> PendingPoolIdx, next |-> NextIndex]
                      ELSE RemoveFromList(NextIndex, PendingPoolIdx, p)
           active == RemoveFromList(pending.next, ActivePoolIdx, o)
       IN /\ p # N \/ Ends(NextIndex, PendingPoolIdx)
          /\ PendingPoolIdx' = pending.head
          /\ SyncObj' = IF p = N THEN SyncObj ELSE [SyncObj EXCEPT ![p] = TRUE]
          /\ ActiveActions' = ActiveActions \ {ObjKey(o)}
          /\ ActionID' = [ActionID EXCEPT ![o] = NoAction]
          /\ AdditionalData' = [AdditionalData EXCEPT ![o] = NoSocket]
          /\ ActivePoolIdx' = active.head
          /\ NextIndex' = [active.next EXCEPT ![o] = FreePoolIdx]
          /\ FreePoolIdx' = o
    /\ call' = [call EXCEPT ![t] = NoCall]
    /\ ObjIdx' = [ObjIdx EXCEPT ![t] = N]
    /\ Goto(t, "idle")
    /\ UNCHANGED <<reader, restart, owed, leaked>>

Next ==
    \/ \E t \in Task :
          \/ \E c \in May[t] : WaitForPoolObj(t, c)
          \/ PendingWake(t) \/ Recheck(t) \/ SendCommand(t)
          \/ DeliverData(t) \/ FindActiveObj(t) \/ HandleAsync(t)
          \/ WaitDone(t) \/ WaitTimeout(t) \/ ReleasePoolObj(t)
    \/ DriverError

Spec == Init /\ [][Next]_vars

(***************************************************************************)
(* Properties.                                                             *)
(***************************************************************************)
FreeList == Members(NextIndex, FreePoolIdx)
PendingList == Members(NextIndex, PendingPoolIdx)
ActiveList == Members(NextIndex, ActivePoolIdx)
Owner(o) == {t \in Task : ObjIdx[t] = o}

\* The three lists share the one link of each object and stay what they are: each
\* ends, none shares an object with another, the free list holds exactly the
\* objects nobody uses, the pending list the callers that wait to be woken.
ListsSound ==
    ~restart =>
    /\ \A h \in {FreePoolIdx, PendingPoolIdx, ActivePoolIdx} : Ends(NextIndex, h)
    /\ FreeList \cap (PendingList \cup ActiveList) = {}
    /\ PendingList = {ObjIdx[t] : t \in {u \in Task : pc[u] = "pend" /\ ~SyncObj[ObjIdx[u]]}}
    /\ {ObjIdx[t] : t \in {u \in Task : pc[u] \in Owning}} \subseteq ActiveList
    /\ \A o \in Obj : Cardinality(Owner(o)) <= 1 /\ (o \in FreeList => Owner(o) = {})

\* An answer the processor owes finds the object of the call it belongs to, and
\* that object is still the call's when the handler, which runs without the lock
\* that protected the search, signals it.
RightTaker ==
    ~restart => /\ \A t \in owed : ActiveObjFor(call[t]) = ObjIdx[t]
                /\ \A t \in answering : t \in owed /\ ActionIndex = ObjIdx[t]

\* A signal never outlives its call: no answer is owed to a call that has given its
\* object back, and a free object that is taken by the next call is not signalled,
\* so that call cannot return before its own answer.
NoStaleSignal ==
    ~restart => /\ \A o \in FreeList : ~SyncObj[o]
                /\ \A t \in Task : pc[t] \in {"send", "release"} => ~SyncObj[ObjIdx[t]]
                /\ \A t \in owed : ObjIdx[t] \in Obj /\ ~SyncObj[ObjIdx[t]]

\* Two tasks that use one socket make the same call on it.  A release wakes only
\* calls of its own action, so a socket shared by two actions strands one of them.
OneActionPerSocket ==
    \A t, u \in Task : \A c \in May[t], d \in May[u] :
        t # u /\ c.sd \in Socket /\ d.sd = c.sd => c.act = d.act

\* A pending call is not forgotten: somebody still owns its key and will release
\* it, the key was lost, or a call on the key has been woken and will try again.
NoStrandedPending ==
    \A t \in Task : pc[t] = "pend" /\ ~restart =>
        \/ SyncObj[ObjIdx[t]]
        \/ Key(call[t]) \in leaked
        \/ \E u \in Task \ {t} :
              /\ pc[u] \in Owning \cup {"pend", "recheck"} /\ Key(call[u]) = Key(call[t])
              /\ pc[u] = "pend" => SyncObj[ObjIdx[u]]

\* The pool implements one lock for each key.
Locks == INSTANCE KeyLocks WITH
    Keys <- Socket \cup Action, NoKey <- NoAction,
    held <- [t \in Task |-> IF pc[t] \in Owning THEN Key(call[t]) ELSE NoAction],
    lost <- leaked

LockSpec == Locks!Spec
=============================================================================
