------------------------- MODULE WifiServiceProofs -------------------------
(***************************************************************************)
(* Proofs about the wifi service, for every bound on the events the        *)
(* network processor has not delivered.                                    *)
(***************************************************************************)
EXTENDS WifiService, TLAPS

\* The steps of the processor, of the handlers and of the task keep the
\* variables in their types and the event queue within its room.
LEMMA TypeInit == Init => TypeOK /\ EventsInv
  <1> SUFFICES ASSUME Init PROVE TypeOK /\ EventsInv OBVIOUS
  <1>1. events \in Seq(WlanEvents \cup NetAppEvents) /\ Len(events) = 0
    BY DEF Init
  <1>2. Len(events) <= MaxEvents /\ Len(events) <= MaxEvents + 1
    BY <1>1, MaxEventsOK
  <1>3. /\ connection \in ConnectionStates
        /\ ip \in IpStates
        /\ task \in TaskPC
    BY DEF Init, ConnectionStates, IpStates, TaskPC
  <1>4. leased \in BOOLEAN /\ notified \in BOOLEAN /\ running \in BOOLEAN /\ online \in BOOLEAN
    BY Zenon DEF Init
  <1> QED BY <1>1, <1>2, <1>3, <1>4 DEF Init, TypeOK, EventsInv

\* The steps of the network processor.
LEMMA TypeProcessor ==
  ASSUME TypeOK, EventsInv, ProcessorStep
  PROVE  TypeOK' /\ EventsInv'
  <1> USE MaxEventsOK
  <1>1. UNCHANGED <<handler, statusVars, notifyVars, taskVars>> BY DEF ProcessorStep
  <1>2. /\ link' \in {"off", "down", "joining", "up"}
        /\ events' \in Seq(WlanEvents \cup NetAppEvents)
        /\ Len(events') <= MaxEvents + 1
        /\ EventsInv'
    <2>1. CASE Associate
      BY <1>1, <2>1 DEF Associate, TypeOK, EventsInv, taskVars
    <2>2. CASE Associated
      BY <1>1, <2>2 DEF Associated, Emit, Report, TypeOK, EventsInv, taskVars, WlanEvents
    <2>3. CASE AssociationFails
      BY <1>1, <2>3 DEF AssociationFails, Emit, Report, TypeOK, EventsInv, taskVars, WlanEvents
    <2>4. CASE LinkLost
      BY <1>1, <2>4 DEF LinkLost, Emit, Report, TypeOK, EventsInv, taskVars, WlanEvents
    <2>5. CASE Lease
      BY <1>1, <2>5 DEF Lease, Emit, Report, TypeOK, EventsInv, taskVars, NetAppEvents
    <2>6. CASE Release
      BY <1>1, <2>6 DEF Release, Emit, Report, TypeOK, EventsInv, taskVars, NetAppEvents
    <2>7. CASE OtherEvent
      <3>1. PICK e \in {"otherWlan", "otherNetApp"} : Emit(e) BY <2>7 DEF OtherEvent
      <3>2. e \in WlanEvents \cup NetAppEvents BY DEF WlanEvents, NetAppEvents
      <3> QED BY <1>1, <2>7, <3>1, <3>2 DEF OtherEvent, Emit, Report, TypeOK,
                 EventsInv, taskVars
    <2> QED BY <2>1, <2>2, <2>3, <2>4, <2>5, <2>6, <2>7 DEF ProcessorStep
  <1>3. leased' \in BOOLEAN
    BY Zenon DEF ProcessorStep, Associate, Associated, AssociationFails, LinkLost,
       Lease, Release, OtherEvent, TypeOK
  <1> QED BY <1>1, <1>2, <1>3 DEF TypeOK, statusVars, notifyVars, taskVars

\* The steps of the handlers.
LEMMA TypeHandler ==
  ASSUME TypeOK, EventsInv, HandlerStep
  PROVE  TypeOK' /\ EventsInv'
  <1>1. CASE WlanEvtHdlr
    <2>1. /\ UNCHANGED <<link, leased, ip, notifyVars, taskVars>>
          /\ handler' = "wlan"
          /\ events # <<>>
          /\ events' = Tail(events)
      BY <1>1 DEF WlanEvtHdlr
    <2>2. /\ events' \in Seq(WlanEvents \cup NetAppEvents)
          /\ Len(events') = Len(events) - 1
      BY <2>1 DEF TypeOK
    <2>3. connection' \in ConnectionStates
      BY <1>1 DEF WlanEvtHdlr, TypeOK, ConnectionStates
    <2> QED BY <2>1, <2>2, <2>3, MaxEventsOK DEF TypeOK, EventsInv, notifyVars, taskVars
  <1>2. CASE NetAppEvtHdlr
    <2>1. /\ UNCHANGED <<link, leased, connection, notifyVars, taskVars>>
          /\ handler' = "netapp"
          /\ events # <<>>
          /\ events' = Tail(events)
      BY <1>2 DEF NetAppEvtHdlr
    <2>2. /\ events' \in Seq(WlanEvents \cup NetAppEvents)
          /\ Len(events') = Len(events) - 1
      BY <2>1 DEF TypeOK
    <2>3. ip' \in IpStates
      BY <1>2 DEF NetAppEvtHdlr, TypeOK, IpStates
    <2> QED BY <2>1, <2>2, <2>3, MaxEventsOK DEF TypeOK, EventsInv, notifyVars, taskVars
  <1>3. CASE WlanNotify \/ NetAppNotify
    <2>1. /\ UNCHANGED <<processorVars, statusVars, taskVars>>
          /\ handler' = "idle"
          /\ bits' \in SUBSET Flags
      BY <1>3 DEF WlanNotify, NetAppNotify, Notify, TypeOK
    <2>2. notified' \in BOOLEAN
      BY <1>3, Zenon DEF WlanNotify, NetAppNotify, Notify
    <2> QED BY <2>1, <2>2 DEF TypeOK, EventsInv, processorVars, statusVars, taskVars
  <1> QED BY <1>1, <1>2, <1>3 DEF HandlerStep

\* The branches of the event loop lead to places of the task.
LEMMA BranchType ==
  ASSUME NEW v
  PROVE  /\ FromResume(v) \in TaskPC \ {"boot"}
         /\ FromJoin(v) \in TaskPC \ {"boot"}
         /\ FromOff(v) \in TaskPC \ {"boot"}
  BY DEF FromResume, FromJoin, FromOff, TaskPC

\* The steps of the task.
LEMMA TypeTask ==
  ASSUME TypeOK, EventsInv, TaskStep
  PROVE  TypeOK' /\ EventsInv'
  <1> USE MaxEventsOK, BranchType
  <1>1. task' \in TaskPC /\ (task' = "boot" => Halt)
    BY DEF TaskStep, Goto, Boot, Configure, Reset, SetConnecting, PostConnecting,
       NotifyWait, TellOff, SuspendMediator, SetReconnecting, PostReconnecting,
       Connect, ConnectFails, Halt, ResumeMediator, TellOn, TaskPC
  <1>2. /\ handler' = handler
        /\ ip' = ip
        /\ connection' \in ConnectionStates
    BY DEF TaskStep, Boot, Configure, Reset, SetConnecting, PostConnecting,
       NotifyWait, TellOff, SuspendMediator, SetReconnecting, PostReconnecting,
       Connect, ConnectFails, Halt, ResumeMediator, TellOn, statusVars,
       ConnectionStates, TypeOK
  <1>3. bits' \in SUBSET Flags /\ value' \in SUBSET Flags
    BY DEF TaskStep, Boot, Configure, Reset, SetConnecting, PostConnecting,
       NotifyWait, TellOff, SuspendMediator, SetReconnecting, PostReconnecting,
       Connect, ConnectFails, Halt, ResumeMediator, TellOn, notifyVars, Notify,
       Flags, TypeOK
  <1>4. /\ notified' \in BOOLEAN
        /\ running' \in BOOLEAN
        /\ online' \in BOOLEAN
        /\ leased' \in BOOLEAN
    BY Zenon DEF TaskStep, Boot, Configure, Reset, SetConnecting, PostConnecting,
       NotifyWait, TellOff, SuspendMediator, SetReconnecting, PostReconnecting,
       Connect, ConnectFails, Halt, ResumeMediator, TellOn, notifyVars, Notify,
       processorVars, TypeOK
  <1>5. /\ link' \in {"off", "down", "joining", "up"}
        /\ events' \in Seq(WlanEvents \cup NetAppEvents)
        /\ Len(events') <= MaxEvents + 1
        /\ EventsInv'
    <2>1. CASE Boot
      BY <2>1 DEF Boot, Goto, TypeOK, EventsInv
    <2>2. CASE Configure
      BY <2>2 DEF Configure, Goto, Report, TypeOK, EventsInv, WlanEvents
    <2>3. CASE Reset
      BY <2>3 DEF Reset, Goto, TypeOK, EventsInv
    <2>4. CASE Connect
      BY <2>4, <1>1 DEF Connect, Goto, Report, TypeOK, EventsInv, WlanEvents, Halt,
         processorVars
    <2>5. CASE Halt
      BY <2>5 DEF Halt, Goto, TypeOK, EventsInv
    <2>6. CASE UNCHANGED processorVars
      BY <2>6, <1>1 DEF Halt, TypeOK, EventsInv, processorVars
    <2> QED BY <2>1, <2>2, <2>3, <2>4, <2>5, <2>6 DEF TaskStep, SetConnecting,
               PostConnecting, NotifyWait, TellOff, SuspendMediator,
               SetReconnecting, PostReconnecting, ConnectFails, ResumeMediator, TellOn
  <1> QED BY <1>1, <1>2, <1>3, <1>4, <1>5 DEF TypeOK

\* The types, one step at a time.
LEMMA TypeStep ==
  ASSUME TypeOK, EventsInv, [Next]_vars
  PROVE  TypeOK' /\ EventsInv'
  <1>1. CASE UNCHANGED vars
    BY <1>1 DEF vars, processorVars, statusVars, notifyVars, taskVars, TypeOK, EventsInv
  <1> QED BY <1>1, TypeProcessor, TypeHandler, TypeTask DEF Next

\* TypeOK: the variables of the wifi service keep their types, and at most
\* one event joins the MaxEvents the processor may have outstanding.
THEOREM TypeCorrect == Spec => []TypeOK
  <1>1. Init => TypeOK /\ EventsInv BY TypeInit
  <1>2. TypeOK /\ EventsInv /\ [Next]_vars => (TypeOK /\ EventsInv)' BY TypeStep
  <1> QED BY <1>1, <1>2, PTL DEF Spec

\* An event that is reported stays reported when another one is appended.
LEMMA LossKept ==
  ASSUME TypeOK, LossReported, NEW e, events' = Append(events, e)
  PROVE  LossReported'
  <1>1. PICK i \in 1..Len(events) : events[i] \in {"disconnect", "failed"}
    BY DEF LossReported
  <1>2. Len(events') = Len(events) + 1 /\ events'[i] = events[i]
    BY <1>1 DEF TypeOK
  <1>3. Len(events) \in Nat BY DEF TypeOK
  <1> QED BY <1>1, <1>2, <1>3 DEF LossReported

\* The report of a loss is a reported loss.
LEMMA LossAdded ==
  ASSUME TypeOK, NEW e \in {"disconnect", "failed"}, events' = Append(events, e)
  PROVE  LossReported'
  <1>1. Len(events) \in Nat BY DEF TypeOK
  <1>2. Len(events') = Len(events) + 1 /\ events'[Len(events) + 1] = e
    BY DEF TypeOK
  <1> QED BY <1>1, <1>2 DEF LossReported

\* Delivering an event that is no loss leaves the reported losses.
LEMMA LossDelivered ==
  ASSUME TypeOK, LossReported, events # <<>>, events' = Tail(events),
         Head(events) \notin {"disconnect", "failed"}
  PROVE  LossReported'
  <1>1. PICK i \in 1..Len(events) : events[i] \in {"disconnect", "failed"}
    BY DEF LossReported
  <1>2. Len(events) \in Nat /\ Len(events') = Len(events) - 1 BY DEF TypeOK
  <1>3. i # 1 BY <1>1 DEF TypeOK
  <1>4. i - 1 \in 1..Len(events') BY <1>1, <1>2, <1>3
  <1>5. events'[i - 1] = events[i] BY <1>1, <1>2, <1>3, <1>4 DEF TypeOK
  <1> QED BY <1>1, <1>4, <1>5 DEF LossReported

\* No step forgets that the link is lost.
LEMMA LossStep ==
  ASSUME TypeOK, EventsInv, LossNotForgotten, Next
  PROVE  LossNotForgotten'
  <1> SUFFICES ASSUME link' = "down" PROVE ReconnectDue' BY DEF LossNotForgotten
  <1>1. CASE ProcessorStep
    <2>1. UNCHANGED <<handler, connection, notified, bits, task>>
      BY <1>1 DEF ProcessorStep, statusVars, notifyVars, taskVars
    <2>2. CASE AssociationFails \/ LinkLost
      <3>1. LossReported'
        BY <2>2, LossAdded DEF AssociationFails, LinkLost, Emit, Report
      <3> QED BY <3>1 DEF ReconnectDue
    <2>3. CASE Associate \/ Associated
      BY <2>3 DEF Associate, Associated
    <2>4. CASE Lease \/ Release \/ OtherEvent
      <3>1. link = "down" /\ \E e : events' = Append(events, e)
        BY <2>4 DEF Lease, Release, OtherEvent, Emit, Report
      <3>2. LossReported => LossReported' BY <3>1, LossKept
      <3>3. ReconnectDue BY <3>1 DEF LossNotForgotten
      <3> QED BY <2>1, <3>2, <3>3 DEF ReconnectDue
    <2> QED BY <1>1, <2>2, <2>3, <2>4 DEF ProcessorStep
  <1>2. CASE HandlerStep
    <2>1. link = "down" /\ task' = task
      BY <1>2 DEF HandlerStep, WlanEvtHdlr, WlanNotify, NetAppEvtHdlr, NetAppNotify,
         processorVars, taskVars
    <2>2. ReconnectDue BY <2>1 DEF LossNotForgotten
    <2>3. CASE WlanEvtHdlr
      <3>1. /\ events # <<>> /\ events' = Tail(events)
            /\ handler = "idle" /\ handler' = "wlan"
            /\ notified' = notified /\ bits' = bits
        BY <2>3 DEF WlanEvtHdlr, notifyVars
      <3>2. CASE Head(events) \in {"disconnect", "failed"}
        <4>1. connection' = "disconnected" BY <2>3, <3>2 DEF WlanEvtHdlr
        <4> QED BY <3>1, <4>1 DEF ReconnectDue
      <3>3. CASE Head(events) \notin {"disconnect", "failed"}
        <4>1. LossReported => LossReported' BY <3>1, <3>3, LossDelivered
        <4> QED BY <2>1, <2>2, <3>1, <4>1 DEF ReconnectDue
      <3> QED BY <3>2, <3>3
    <2>4. CASE WlanNotify
      BY <2>1, <2>2, <2>4 DEF WlanNotify, Notify, ReconnectDue, LossReported,
         processorVars, statusVars, Flags
    <2>5. CASE NetAppEvtHdlr
      <3>1. /\ events # <<>> /\ events' = Tail(events)
            /\ Head(events) \notin {"disconnect", "failed"}
            /\ handler = "idle"
            /\ notified' = notified /\ bits' = bits
        BY <2>5 DEF NetAppEvtHdlr, notifyVars, NetAppEvents
      <3>2. LossReported => LossReported' BY <3>1, LossDelivered
      <3> QED BY <2>1, <2>2, <3>1, <3>2 DEF ReconnectDue
    <2>6. CASE NetAppNotify
      BY <2>1, <2>2, <2>6 DEF NetAppNotify, Notify, ReconnectDue, LossReported,
         processorVars, statusVars
    <2> QED BY <1>2, <2>3, <2>4, <2>5, <2>6 DEF HandlerStep
  <1>3. CASE TaskStep
    <2>1. CASE \/ Boot \/ Configure \/ Reset \/ SetConnecting \/ TellOff
               \/ SuspendMediator \/ SetReconnecting \/ ConnectFails
      BY <2>1 DEF Boot, Configure, Reset, SetConnecting, TellOff, SuspendMediator,
         SetReconnecting, ConnectFails, Goto, ReconnectDue
    <2>2. CASE PostConnecting \/ PostReconnecting
      BY <2>2 DEF PostConnecting, PostReconnecting, Notify, Flags, ReconnectDue
    <2>3. CASE NotifyWait
      <3>1. /\ link = "down" /\ task = "wait" /\ task' = FromOff(bits)
            /\ UNCHANGED <<handler, connection, events>>
        BY <2>3 DEF NotifyWait, Goto, processorVars, statusVars
      <3>2. ReconnectDue BY <3>1 DEF LossNotForgotten
      <3>3. bits \cap {"disconnected", "connecting"} # {} => task' \in {"off", "join"}
        BY <3>1 DEF FromOff, FromJoin
      <3> QED BY <3>1, <3>2, <3>3 DEF ReconnectDue, LossReported
    <2>4. CASE Connect
      BY <2>4 DEF Connect, processorVars
    <2>5. CASE Halt
      BY <2>5 DEF Halt
    <2>6. CASE ResumeMediator \/ TellOn
      <3>1. /\ link = "down" /\ task \in {"resume", "on"}
            /\ UNCHANGED <<handler, connection, events, notified, bits>>
        BY <2>6 DEF ResumeMediator, TellOn, Goto, processorVars, statusVars, notifyVars
      <3>2. ReconnectDue BY <3>1 DEF LossNotForgotten
      <3> QED BY <3>1, <3>2 DEF ReconnectDue, LossReported
    <2> QED BY <1>3, <2>1, <2>2, <2>3, <2>4, <2>5, <2>6 DEF TaskStep
  <1> QED BY <1>1, <1>2, <1>3 DEF Next

\* An event that is appended leaves the connect events before it true: the
\* link stays as it is, comes up, or the event is itself the loss.
LEMMA ConnectAppend ==
  ASSUME TypeOK, ConnectInv, NEW e, events' = Append(events, e),
         \/ e \in {"disconnect", "failed"}
         \/ link' = "up"
         \/ link' = link /\ e # "connect"
  PROVE  ConnectInv'
  <1>1. /\ Len(events) \in Nat
        /\ Len(events') = Len(events) + 1
        /\ \A i \in 1..Len(events) : events'[i] = events[i]
        /\ events'[Len(events) + 1] = e
    BY DEF TypeOK
  <1> SUFFICES ASSUME NEW i \in 1..Len(events'), events'[i] = "connect",
                      link' # "up"
               PROVE  \E j \in (i+1)..Len(events') : events'[j] \in {"disconnect", "failed"}
    BY DEF ConnectInv
  <1>2. CASE e \in {"disconnect", "failed"}
    <2>1. i # Len(events) + 1 BY <1>1, <1>2
    <2>2. Len(events) + 1 \in (i+1)..Len(events') BY <1>1, <2>1
    <2> QED BY <1>1, <1>2, <2>2
  <1>3. CASE link' = link /\ e # "connect"
    <2>1. i \in 1..Len(events) /\ events[i] = "connect" BY <1>1, <1>3
    <2>2. PICK j \in (i+1)..Len(events) : events[j] \in {"disconnect", "failed"}
      BY <1>3, <2>1 DEF ConnectInv
    <2>3. j \in (i+1)..Len(events') /\ events'[j] = events[j] BY <1>1, <2>1, <2>2
    <2> QED BY <2>2, <2>3
  <1> QED BY <1>2, <1>3

\* A delivered event leaves the connect events behind it true.
LEMMA ConnectDelivered ==
  ASSUME TypeOK, ConnectInv, events # <<>>, events' = Tail(events), link' = link
  PROVE  ConnectInv'
  <1>1. /\ Len(events) \in Nat
        /\ Len(events') = Len(events) - 1
        /\ \A i \in 1..Len(events') : events'[i] = events[i + 1]
    BY DEF TypeOK
  <1> SUFFICES ASSUME NEW i \in 1..Len(events'), events'[i] = "connect",
                      link # "up"
               PROVE  \E j \in (i+1)..Len(events') : events'[j] \in {"disconnect", "failed"}
    BY DEF ConnectInv
  <1>2. i + 1 \in 1..Len(events) /\ events[i + 1] = "connect" BY <1>1
  <1>3. PICK j \in (i+2)..Len(events) : events[j] \in {"disconnect", "failed"}
    BY <1>1, <1>2 DEF ConnectInv
  <1>4. j - 1 \in (i+1)..Len(events') BY <1>1, <1>3
  <1>5. j - 1 \in 1..Len(events') /\ events'[j - 1] = events[j] BY <1>1, <1>3, <1>4
  <1> QED BY <1>3, <1>4, <1>5

\* The event that is delivered next, if it is a connect event, is true.
LEMMA ConnectNext ==
  ASSUME TypeOK, ConnectInv, events # <<>>, events' = Tail(events),
         Head(events) = "connect"
  PROVE  link = "up" \/ LossReported'
  <1>1. /\ Len(events) \in Nat /\ 1 \in 1..Len(events)
        /\ Len(events') = Len(events) - 1
        /\ events[1] = "connect"
        /\ \A i \in 1..Len(events') : events'[i] = events[i + 1]
    BY DEF TypeOK
  <1>2. SUFFICES ASSUME link # "up" PROVE LossReported' OBVIOUS
  <1>3. PICK j \in 2..Len(events) : events[j] \in {"disconnect", "failed"}
    BY <1>1, <1>2 DEF ConnectInv
  <1>4. j - 1 \in 1..Len(events') /\ events'[j - 1] = events[j] BY <1>1, <1>3
  <1> QED BY <1>3, <1>4 DEF LossReported

\* Every step keeps the undelivered connect events and the status true.
LEMMA ConnectedStep ==
  ASSUME TypeOK, EventsInv, ConnectInv, ConnectedIsTrue, Next
  PROVE  ConnectInv' /\ ConnectedIsTrue'
  <1>1. CASE ProcessorStep
    <2>1. connection' = connection /\ task' = task
      BY <1>1 DEF ProcessorStep, statusVars, taskVars
    <2>2. CASE Associate
      <3>1. link # "up" /\ link' # "up" /\ events' = events BY <2>2 DEF Associate
      <3> QED BY <2>1, <3>1 DEF ConnectInv, ConnectedIsTrue, LossReported
    <2>3. CASE Associated
      <3>1. link' = "up" /\ events' = Append(events, "connect")
        BY <2>3 DEF Associated, Emit, Report
      <3> QED BY <3>1, ConnectAppend DEF ConnectedIsTrue
    <2>4. CASE AssociationFails \/ LinkLost
      <3>1. PICK e \in {"disconnect", "failed"} : events' = Append(events, e)
        BY <2>4 DEF AssociationFails, LinkLost, Emit, Report
      <3>2. ConnectInv' BY <3>1, ConnectAppend
      <3>3. LossReported' BY <3>1, LossAdded
      <3> QED BY <3>2, <3>3 DEF ConnectedIsTrue
    <2>5. CASE Lease \/ Release \/ OtherEvent
      <3>1. PICK e : events' = Append(events, e) /\ e # "connect"
        BY <2>5 DEF Lease, Release, OtherEvent, Emit, Report
      <3>2. link' = link BY <2>5 DEF Lease, Release, OtherEvent
      <3>3. ConnectInv' BY <3>1, <3>2, ConnectAppend
      <3>4. LossReported => LossReported' BY <3>1, LossKept
      <3> QED BY <2>1, <3>2, <3>3, <3>4 DEF ConnectedIsTrue
    <2> QED BY <1>1, <2>2, <2>3, <2>4, <2>5 DEF ProcessorStep
  <1>2. CASE WlanEvtHdlr
    <2>1. /\ events # <<>> /\ events' = Tail(events)
          /\ link' = link /\ task' = task
      BY <1>2 DEF WlanEvtHdlr, taskVars
    <2>2. ConnectInv' BY <2>1, ConnectDelivered
    <2>3. CASE Head(events) = "connect"
      BY <2>1, <2>2, <2>3, ConnectNext DEF ConnectedIsTrue
    <2>4. CASE Head(events) \in {"disconnect", "failed"}
      <3>1. connection' = "disconnected" BY <1>2, <2>4 DEF WlanEvtHdlr
      <3> QED BY <2>2, <3>1 DEF ConnectedIsTrue
    <2>5. CASE Head(events) \notin {"connect", "disconnect", "failed"}
      <3>1. connection' = connection BY <1>2, <2>5 DEF WlanEvtHdlr
      <3>2. LossReported => LossReported' BY <2>1, <2>5, LossDelivered
      <3> QED BY <2>1, <2>2, <3>1, <3>2 DEF ConnectedIsTrue
    <2> QED BY <2>3, <2>4, <2>5
  <1>3. CASE NetAppEvtHdlr
    <2>1. /\ events # <<>> /\ events' = Tail(events)
          /\ Head(events) \notin {"disconnect", "failed"}
          /\ link' = link /\ task' = task /\ connection' = connection
      BY <1>3 DEF NetAppEvtHdlr, taskVars, NetAppEvents
    <2>2. ConnectInv' BY <2>1, ConnectDelivered
    <2>3. LossReported => LossReported' BY <2>1, LossDelivered
    <2> QED BY <2>1, <2>2, <2>3 DEF ConnectedIsTrue
  <1>4. CASE WlanNotify \/ NetAppNotify
    BY <1>4 DEF WlanNotify, NetAppNotify, processorVars, statusVars, taskVars,
       ConnectInv, ConnectedIsTrue, LossReported
  <1>5. CASE Boot
    BY <1>5 DEF Boot, Goto, EventsInv, ConnectInv, ConnectedIsTrue
  <1>6. CASE Configure
    <2>1. task = "configure" /\ connection' = connection
      BY <1>6 DEF Configure, Goto, statusVars
    <2>2. CASE link = "up"
      <3>1. events' = Append(events, "disconnect") BY <1>6, <2>2 DEF Configure, Report
      <3>2. ConnectInv' BY <3>1, ConnectAppend
      <3>3. LossReported' BY <3>1, LossAdded
      <3> QED BY <3>2, <3>3 DEF ConnectedIsTrue
    <2>3. CASE link # "up"
      <3>1. events' = events /\ link' # "up" BY <1>6, <2>3 DEF Configure
      <3> QED BY <2>1, <2>3, <3>1 DEF ConnectInv, ConnectedIsTrue, LossReported
    <2> QED BY <2>2, <2>3
  <1>7. CASE Reset \/ Halt
    BY <1>7 DEF Reset, Halt, Goto, ConnectInv, ConnectedIsTrue
  <1>8. CASE SetConnecting \/ SetReconnecting
    BY <1>8 DEF SetConnecting, SetReconnecting, processorVars, ConnectInv, ConnectedIsTrue
  <1>9. CASE Connect
    <2>1. task = "join" /\ connection' = connection
      BY <1>9 DEF Connect, Goto, statusVars
    <2>2. CASE link # "up" /\ link' = "joining" /\ events' = events
      BY <2>1, <2>2 DEF ConnectInv, ConnectedIsTrue, LossReported
    <2>3. CASE link = "up" /\ link' = link
      <3>1. events' = events \/ events' = Append(events, "disconnect")
        BY <1>9, <2>3 DEF Connect, processorVars, Report
      <3>2. ConnectInv' BY <2>3, <3>1, ConnectAppend DEF ConnectInv
      <3> QED BY <2>3, <3>2 DEF ConnectedIsTrue
    <2>4. CASE events' = Append(events, "disconnect")
      BY <2>4, ConnectAppend, LossAdded DEF ConnectedIsTrue
    <2> QED BY <1>9, <2>2, <2>3, <2>4 DEF Connect, processorVars, Report
  <1>10. CASE \/ PostConnecting \/ NotifyWait \/ TellOff \/ SuspendMediator
              \/ PostReconnecting \/ ConnectFails \/ ResumeMediator \/ TellOn
    <2>1. UNCHANGED <<link, events, connection>> /\ task \notin {"boot", "connect"}
      BY <1>10 DEF PostConnecting, NotifyWait, TellOff, SuspendMediator, PostReconnecting,
         ConnectFails, ResumeMediator, TellOn, Goto, processorVars, statusVars
    <2> QED BY <2>1 DEF ConnectInv, ConnectedIsTrue, LossReported
  <1> QED BY <1>1, <1>2, <1>3, <1>4, <1>5, <1>6, <1>7, <1>8, <1>9, <1>10
          DEF Next, HandlerStep, TaskStep

\* The inductive invariant holds: nothing the processor, a handler or the
\* task of wifi_service.c does breaks it.
THEOREM WifiCorrect == Spec => []WifiInv
  <1>1. Init => WifiInv
    <2> SUFFICES ASSUME Init PROVE WifiInv OBVIOUS
    <2>1. TypeOK /\ EventsInv BY TypeInit
    <2>2. ConnectInv BY DEF Init, ConnectInv
    <2> QED BY <2>1, <2>2 DEF Init, WifiInv, LossNotForgotten, ConnectedIsTrue
  <1>2. WifiInv /\ [Next]_vars => WifiInv'
    <2> SUFFICES ASSUME WifiInv, [Next]_vars PROVE WifiInv' OBVIOUS
    <2>1. TypeOK' /\ EventsInv' BY TypeStep DEF WifiInv
    <2>2. CASE Next
      BY <2>1, <2>2, LossStep, ConnectedStep DEF WifiInv
    <2>3. CASE UNCHANGED vars
      <3>1. LossNotForgotten' /\ ConnectedIsTrue' /\ ConnectInv'
        BY <2>3 DEF WifiInv, vars, processorVars, statusVars, notifyVars, taskVars,
           LossNotForgotten, ReconnectDue, LossReported, ConnectedIsTrue, ConnectInv
      <3> QED BY <2>1, <3>1 DEF WifiInv
    <2> QED BY <2>2, <2>3
  <1> QED BY <1>1, <1>2, PTL DEF Spec

\* LossNotForgotten: while the link is down wifi_task has a reconnection
\* ahead of it, however its notification merged the events.
THEOREM LossNotForgottenCorrect == Spec => []LossNotForgotten
  <1>1. WifiInv => LossNotForgotten BY DEF WifiInv
  <1> QED BY <1>1, WifiCorrect, PTL

\* ConnectedIsTrue: network_is_connected() is true of a lost link only until
\* the loss is delivered or the processor restarted.
THEOREM ConnectedIsTrueCorrect == Spec => []ConnectedIsTrue
  <1>1. WifiInv => ConnectedIsTrue BY DEF WifiInv
  <1> QED BY <1>1, WifiCorrect, PTL

\* Between resume_network_mediator and the announcement the mediator runs,
\* and between the withdrawal and suspend_network_mediator nobody is told
\* that the network is up.
GateInv ==
    /\ task = "on" => running
    /\ task = "suspend" => ~online

\* GateSpec: the wifi service implements ConnectivityGate, so a service that
\* was told of connectivity has a mediator that answers its wait_rx.
THEOREM GateCorrect == Spec => GateSpec
  <1>1. Init => GateInv /\ Gate!GateInit
    BY DEF Init, GateInv, Gate!GateInit
  <1>2. GateInv /\ [Next]_vars => GateInv' /\ [Gate!GateNext]_(Gate!gateVars)
    <2> SUFFICES ASSUME GateInv, [Next]_vars
                 PROVE  GateInv' /\ [Gate!GateNext]_(Gate!gateVars)
      OBVIOUS
    <2> USE DEF GateInv, Gate!GateNext, Gate!StartMediator, Gate!Announce,
                Gate!Withdraw, Gate!StopMediator, Gate!gateVars
    <2>1. CASE ProcessorStep \/ HandlerStep \/ UNCHANGED vars
      BY <2>1 DEF ProcessorStep, HandlerStep, WlanEvtHdlr, WlanNotify, NetAppEvtHdlr,
         NetAppNotify, vars, taskVars
    <2>2. CASE TellOff
      BY <2>2 DEF TellOff, Goto
    <2>3. CASE SuspendMediator
      BY <2>3 DEF SuspendMediator, Goto
    <2>4. CASE ResumeMediator
      BY <2>4 DEF ResumeMediator, Goto
    <2>5. CASE TellOn
      BY <2>5 DEF TellOn, Goto
    <2>6. CASE \/ Boot \/ Configure \/ Reset \/ SetConnecting \/ PostConnecting
               \/ SetReconnecting \/ PostReconnecting \/ Connect \/ ConnectFails
               \/ Halt \/ NotifyWait
      <3>1. running' = running /\ online' = online
        BY <2>6 DEF Boot, Configure, Reset, SetConnecting, PostConnecting,
           SetReconnecting, PostReconnecting, Connect, ConnectFails, Halt, NotifyWait
      <3>2. task' \notin {"on", "suspend"}
        BY <2>6 DEF Boot, Configure, Reset, SetConnecting, PostConnecting,
           SetReconnecting, PostReconnecting, Connect, ConnectFails, Halt, NotifyWait,
           Goto, FromOff, FromJoin, FromResume
      <3> QED BY <3>1, <3>2
    <2> QED BY <2>1, <2>2, <2>3, <2>4, <2>5, <2>6 DEF Next, TaskStep
  <1> QED BY <1>1, <1>2, PTL DEF Spec, GateSpec, Gate!GateSpec
=============================================================================
