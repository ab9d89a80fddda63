---------------------------- MODULE WifiService ----------------------------
(***************************************************************************)
(* The wifi service of c/legacy/src/wifi_service.c: the task that connects *)
(* the CC3100 network processor to the access point, the event handlers    *)
(* the SimpleLink driver calls, and the task notification between them.    *)
(*                                                                         *)
(* The driver calls one handler at a time, in the order of the events, but *)
(* from whatever task reads the processor (the spawn task, or a service    *)
(* inside an sl_ call), so the wifi task may run between the assignment    *)
(* and the notification of a handler.                                      *)
(***************************************************************************)
EXTENDS Naturals, Sequences

CONSTANT MaxEvents      \* events the network processor has not delivered yet

ASSUME MaxEventsOK == MaxEvents \in Nat \ {0}

VARIABLES
    link,        \* network processor: "off", "down", "joining" or "up"
    leased,      \* network processor: it has an IP address
    events,      \* network processor: events not yet delivered, oldest first
    handler,     \* "idle", or the handler that still has to notify the task
    connection,  \* wifi_status.connection
    ip,          \* wifi_status.ip
    notified,    \* a task notification is pending
    bits,        \* the notification value of wifi_task_handle
    task,        \* where wifi_task is
    value,       \* ulNotifiedValue
    running,     \* the network mediator is not suspended
    online       \* the last miso_notify_event was miso_connectivity_on

processorVars == <<link, leased, events>>
statusVars    == <<connection, ip>>
notifyVars    == <<notified, bits>>
taskVars      == <<task, value, running, online>>
vars == <<processorVars, handler, statusVars, notifyVars, taskVars>>

WlanEvents   == {"connect", "disconnect", "failed", "otherWlan"}
NetAppEvents == {"acquire", "release", "otherNetApp"}

ConnectionStates == {"initial", "disconnected", "connecting", "connected"}
IpStates         == {"not_acquired", "acquired", "released"}

\* The bits of the notification value that the task acts on: it only logs
\* WIFI_CONNECTED_STATE and WIFI_IP_RELEASED, and the initial states are 0.
\* wifi_ip_v4_acquired and wifi_ip_v6_acquired share the bit WIFI_IP_ACQUIRED.
Flags == {"disconnected", "connecting", "acquired"}

TaskPC == {"boot", "configure", "reset", "connect", "post", "wait", "off",
           "suspend", "reconnect", "repost", "join", "resume", "on", "halt"}

\* Every variable has its type; only a disconnection the task asked for may
\* join MaxEvents events that wait.
TypeOK ==
    /\ link \in {"off", "down", "joining", "up"}
    /\ leased \in BOOLEAN
    /\ events \in Seq(WlanEvents \cup NetAppEvents)
    /\ Len(events) <= MaxEvents + 1
    /\ handler \in {"idle", "wlan", "netapp"}
    /\ connection \in ConnectionStates
    /\ ip \in IpStates
    /\ notified \in BOOLEAN
    /\ bits \in SUBSET Flags
    /\ task \in TaskPC
    /\ value \in SUBSET Flags
    /\ running \in BOOLEAN
    /\ online \in BOOLEAN

Init ==
    /\ link = "off"
    /\ leased = FALSE
    /\ events = <<>>
    /\ handler = "idle"
    /\ connection = "initial"
    /\ ip = "not_acquired"
    /\ notified = FALSE
    /\ bits = {}
    /\ task = "boot"
    /\ value = {}
    /\ running = FALSE
    /\ online = FALSE

-----------------------------------------------------------------------------
(* The network processor.  Its connection policy is auto connect.          *)

Report(e) == events' = Append(events, e)

Emit(e) == Len(events) < MaxEvents /\ Report(e)

Associate ==
    /\ link = "down"
    /\ link' = "joining"
    /\ UNCHANGED <<leased, events>>

Associated ==
    /\ link = "joining"
    /\ link' = "up"
    /\ Emit("connect")
    /\ UNCHANGED leased

AssociationFails ==
    /\ link = "joining"
    /\ link' = "down"
    /\ Emit("failed")
    /\ UNCHANGED leased

LinkLost ==
    /\ link = "up"
    /\ link' = "down"
    /\ leased' = FALSE
    /\ Emit("disconnect")

Lease ==
    /\ link = "up"
    /\ ~leased
    /\ leased' = TRUE
    /\ Emit("acquire")
    /\ UNCHANGED link

Release ==
    /\ leased
    /\ leased' = FALSE
    /\ Emit("release")
    /\ UNCHANGED link

\* SmartConfig, P2P, access point and other events the handlers only pass on.
OtherEvent ==
    /\ link # "off"
    /\ \E e \in {"otherWlan", "otherNetApp"} : Emit(e)
    /\ UNCHANGED <<link, leased>>

ProcessorStep ==
    /\ \/ Associate \/ Associated \/ AssociationFails \/ LinkLost
       \/ Lease \/ Release \/ OtherEvent
    /\ UNCHANGED <<handler, statusVars, notifyVars, taskVars>>

-----------------------------------------------------------------------------
(* The event handlers.                                                     *)

\* xTaskNotify(wifi_task_handle, state | WIFI_PENDING_STATE, eSetBits)
Notify(state) ==
    /\ notified' = TRUE
    /\ bits' = bits \cup ({state} \cap Flags)

\* Mutant: only a failed attempt, not a lost link, changes the status.
WlanEvtHdlrFailedOnly ==
    /\ handler = "idle"
    /\ events # <<>>
    /\ Head(events) \in WlanEvents
    /\ events' = Tail(events)
    /\ connection' = CASE Head(events) = "connect" -> "connected"
                       [] Head(events) = "failed" -> "disconnected"
                       [] OTHER -> connection
    /\ handler' = "wlan"
    /\ UNCHANGED <<link, leased, ip, notifyVars, taskVars>>

\* CC3100_WlanEvtHdlr up to the end of its switch.
WlanEvtHdlr ==
    /\ handler = "idle"
    /\ events # <<>>
    /\ Head(events) \in WlanEvents
    /\ events' = Tail(events)
    /\ connection' = CASE Head(events) = "connect" -> "connected"
                       [] Head(events) \in {"disconnect", "failed"} -> "disconnected"
                       [] OTHER -> connection
    /\ handler' = "wlan"
    /\ UNCHANGED <<link, leased, ip, notifyVars, taskVars>>

\* Mutant: a failed connection attempt is not passed on to the task.
WlanNotifyConnectedOnly ==
    /\ handler = "wlan"
    /\ IF connection = "connected" THEN Notify(connection) ELSE UNCHANGED notifyVars
    /\ handler' = "idle"
    /\ UNCHANGED <<processorVars, statusVars, taskVars>>

\* The status is read again for the notification.
WlanNotify ==
    /\ handler = "wlan"
    /\ Notify(connection)
    /\ handler' = "idle"
    /\ UNCHANGED <<processorVars, statusVars, taskVars>>

\* CC3100_NetAppEvtHdlr up to the end of its switch.
NetAppEvtHdlr ==
    /\ handler = "idle"
    /\ events # <<>>
    /\ Head(events) \in NetAppEvents
    /\ events' = Tail(events)
    /\ ip' = CASE Head(events) = "acquire" -> "acquired"
               [] Head(events) = "release" -> "released"
               [] OTHER -> ip
    /\ handler' = "netapp"
    /\ UNCHANGED <<link, leased, connection, notifyVars, taskVars>>

NetAppNotify ==
    /\ handler = "netapp"
    /\ Notify(ip)
    /\ handler' = "idle"
    /\ UNCHANGED <<processorVars, statusVars, taskVars>>

HandlerStep == WlanEvtHdlr \/ WlanNotify \/ NetAppEvtHdlr \/ NetAppNotify

-----------------------------------------------------------------------------
(* wifi_task.                                                              *)

Goto(from, to) == task = from /\ task' = to

\* From restart: to the first sl_Start.
Boot ==
    /\ Goto("boot", "configure")
    /\ connection' = "disconnected"
    /\ link' = "down"
    /\ value' = {}
    /\ UNCHANGED <<leased, events, handler, ip, notifyVars, running, online>>

\* sl_WlanDisconnect() drops a link the processor has made on its own.
Configure ==
    /\ Goto("configure", "reset")
    /\ IF link = "up"
       THEN link' = "down" /\ leased' = FALSE /\ Report("disconnect")
       ELSE link' = "down" /\ UNCHANGED <<leased, events>>
    /\ UNCHANGED <<handler, statusVars, notifyVars, value, running, online>>

\* sl_Stop(0) and the second sl_Start; the events of before are gone.
Reset ==
    /\ Goto("reset", "connect")
    /\ link' = "down"
    /\ leased' = FALSE
    /\ events' = <<>>
    /\ UNCHANGED <<handler, statusVars, notifyVars, value, running, online>>

SetConnecting ==
    /\ Goto("connect", "post")
    /\ connection' = "connecting"
    /\ UNCHANGED <<processorVars, handler, ip, notifyVars, value, running, online>>

PostConnecting ==
    /\ Goto("post", "wait")
    /\ Notify("connecting")
    /\ UNCHANGED <<processorVars, handler, statusVars, value, running, online>>

\* Mutant: a pass that saw a disconnection does not resume the mediator.
FromResumeUnlessLost(v) ==
    IF "acquired" \in v /\ "disconnected" \notin v THEN "resume" ELSE "wait"

\* The branches of the event loop are tried in the order disconnected,
\* connecting, IP acquired.
FromResume(v) == IF "acquired" \in v THEN "resume" ELSE "wait"
FromJoin(v)   == IF "connecting" \in v THEN "join" ELSE FromResume(v)
FromOff(v)    == IF "disconnected" \in v THEN "off" ELSE FromJoin(v)

\* xTaskNotifyWait clears every bit on exit.  A timeout only logs.
NotifyWait ==
    /\ notified
    /\ Goto("wait", FromOff(bits))
    /\ value' = bits
    /\ bits' = {}
    /\ notified' = FALSE
    /\ UNCHANGED <<processorVars, handler, statusVars, running, online>>

\* miso_notify_event(miso_connectivity_off)
TellOff ==
    /\ Goto("off", "suspend")
    /\ online' = FALSE
    /\ UNCHANGED <<processorVars, handler, statusVars, notifyVars, value, running>>

SuspendMediator ==
    /\ Goto("suspend", "reconnect")
    /\ running' = FALSE
    /\ UNCHANGED <<processorVars, handler, statusVars, notifyVars, value, online>>

SetReconnecting ==
    /\ Goto("reconnect", "repost")
    /\ connection' = "connecting"
    /\ UNCHANGED <<processorVars, handler, ip, notifyVars, value, running, online>>

PostReconnecting ==
    /\ Goto("repost", FromJoin(value))
    /\ Notify("connecting")
    /\ UNCHANGED <<processorVars, handler, statusVars, value, running, online>>

\* sl_WlanConnect accepts the request: a processor that is already connected
\* stays connected or associates anew.
Connect ==
    /\ Goto("join", FromResume(value))
    /\ \/ link # "up" /\ link' = "joining" /\ UNCHANGED <<leased, events>>
       \/ link = "up" /\ UNCHANGED processorVars
       \/ link = "up" /\ link' = "joining" /\ leased' = FALSE /\ Report("disconnect")
    /\ UNCHANGED <<handler, statusVars, notifyVars, value, running, online>>

\* Mutant: a refused request is repeated without restarting the processor.
ConnectFailsRepeats ==
    /\ Goto("join", "wait")
    /\ Notify("connecting")
    /\ UNCHANGED <<processorVars, handler, statusVars, value, running, online>>

\* sl_WlanConnect fails: the loop is left.
ConnectFails ==
    /\ Goto("join", "halt")
    /\ UNCHANGED <<processorVars, handler, statusVars, notifyVars, value, running, online>>

\* sl_Stop(0xff); goto restart.
Halt ==
    /\ Goto("halt", "boot")
    /\ link' = "off"
    /\ leased' = FALSE
    /\ events' = <<>>
    /\ UNCHANGED <<handler, statusVars, notifyVars, value, running, online>>

\* Mutant: the services are told before the mediator is resumed.
TellOnFirst ==
    /\ Goto("resume", "on")
    /\ online' = TRUE
    /\ UNCHANGED <<processorVars, handler, statusVars, notifyVars, value, running>>

ResumeMediator ==
    /\ Goto("resume", "on")
    /\ running' = TRUE
    /\ UNCHANGED <<processorVars, handler, statusVars, notifyVars, value, online>>

\* miso_notify_event(miso_connectivity_on)
TellOn ==
    /\ Goto("on", "wait")
    /\ online' = TRUE
    /\ UNCHANGED <<processorVars, handler, statusVars, notifyVars, value, running>>

TaskStep ==
    \/ Boot \/ Configure \/ Reset \/ SetConnecting \/ PostConnecting
    \/ NotifyWait \/ TellOff \/ SuspendMediator \/ SetReconnecting
    \/ PostReconnecting \/ Connect \/ ConnectFails \/ Halt
    \/ ResumeMediator \/ TellOn

Next == ProcessorStep \/ HandlerStep \/ TaskStep

Spec == Init /\ [][Next]_vars

\* The driver delivers its events and the wifi task, at priority 4, is not
\* starved.  Nothing is promised of the network processor or the radio.
FairSpec == Spec /\ WF_vars(HandlerStep) /\ WF_vars(TaskStep)

-----------------------------------------------------------------------------
(* Properties.                                                             *)

\* The order the services rely on: an implementation of ConnectivityGate.
Gate == INSTANCE ConnectivityGate
GateSpec == Gate!GateSpec

\* The link is gone and a handler has still to be told.
LossReported == \E i \in 1..Len(events) : events[i] \in {"disconnect", "failed"}

\* A reconnection that the task has still to make: it has not reached the
\* event loop, it is on its way through it with the request in hand, or a
\* handler or an event will ask for it.
ReconnectDue ==
    \/ task \in {"boot", "configure", "reset", "connect", "post", "halt"}
    \/ task \in {"off", "suspend", "reconnect", "repost", "join"}
    \/ notified /\ bits \cap {"disconnected", "connecting"} # {}
    \/ handler = "wlan" /\ connection \in {"disconnected", "connecting"}
    \/ LossReported

\* Whatever the order of events, handlers and the task, a lost or failed
\* link is never forgotten: while the link is down a reconnection is due,
\* although the notification merges events and connection is overwritten.
LossNotForgotten == link = "down" => ReconnectDue

\* The service retries for ever: the link never stays down.
KeepsTrying == []<>(link # "down")

\* Once the processor keeps its address the mediator ends up running and the
\* services are told, whatever was pending from the connections before.
ComesOnline == <>[]leased => <>[](running /\ online)

\* network_is_connected() is never true of a lost link for longer than it
\* takes to deliver the event or to restart the processor, although handlers
\* and task both write connection without a lock.
ConnectedIsTrue ==
    connection = "connected" =>
        \/ link = "up"
        \/ LossReported
        \/ task \in {"boot", "connect"}

-----------------------------------------------------------------------------
(* The strengthenings that make the invariants inductive.                  *)

\* Events wait only while the processor runs, an address goes with a link,
\* and there is room for the report of a link that is up.
EventsInv ==
    /\ leased => link = "up"
    /\ task = "boot" => link = "off" /\ events = <<>>
    /\ link = "up" => Len(events) <= MaxEvents

\* A connect event not yet delivered is true or will be taken back.
ConnectInv ==
    \A i \in 1..Len(events) : events[i] = "connect" =>
        \/ link = "up"
        \/ \E j \in (i+1)..Len(events) : events[j] \in {"disconnect", "failed"}

\* The inductive invariant.
WifiInv == TypeOK /\ EventsInv /\ LossNotForgotten /\ ConnectedIsTrue /\ ConnectInv

-----------------------------------------------------------------------------
(* What a comment of the code claims.                                      *)

\* The task is back at its wait and has seen every event of the processor;
\* at most its own request to connect is pending.
Settled == /\ task = "wait"
           /\ handler = "idle"
           /\ events = <<>>
           /\ bits \subseteq {"connecting"}

\* "Suspend all the apps that need networking": after a pass of the event
\* loop that saw the loss of the link, and with the link still gone, the
\* mediator is suspended.
SuspendedAfterLoss ==
    Settled /\ "disconnected" \in value /\ link \in {"down", "joining"} => ~running
=============================================================================
