---------------------------- MODULE SpiTransport ----------------------------
(***************************************************************************)
(* The SPI transport to the CC3100 network processor, board_CC3100.c: the  *)
(* SimpleLink driver opens, closes, reads and writes it, one call at a     *)
(* time; a call starts an asynchronous transfer and waits, for at most a   *)
(* second, for the completion that the interrupt posts to a queue.         *)
(*                                                                         *)
(* A call that gives up does not abort its transfer.  A transfer and its   *)
(* completion are tagged "own" while the call that started them runs.      *)
(***************************************************************************)
EXTENDS Naturals

Dirs == {"rx", "tx"}    \* IfRead with rx_queue, IfWrite with tx_queue

NoTransfer == [dir |-> "none", own |-> FALSE]
Transfers  == [dir : Dirs, own : BOOLEAN]

\* A queue of length one: NULL, empty, or holding a transfer_status.
Null   == [status |-> "null", own |-> FALSE]
Empty  == [status |-> "empty", own |-> FALSE]
Status == {"ok", "error"}
Completions == [status : Status, own : BOOLEAN]

VARIABLES
    fd,       \* IfOpen returned BOARD_CC3100_FD
    queue,    \* rx_queue and tx_queue
    xfer,     \* the transfer of the SPI driver, NoTransfer when it is idle
    selected, \* the chip select line is low
    stage,    \* where the call is
    dir,      \* which call it is
    result,   \* the transfer_status it goes by, NoResult before
    slipped   \* history: a completion came between a reset and a start

spiVars == <<fd, queue, xfer, selected, stage, dir, result, slipped>>

NoResult == [status |-> "none", own |-> FALSE]

\* Every variable has its type; a transfer runs only on an open interface.
SpiTypeOK ==
    /\ fd \in BOOLEAN
    /\ queue \in [Dirs -> Completions \cup {Null, Empty}]
    /\ xfer \in Transfers \cup {NoTransfer}
    /\ selected \in BOOLEAN
    /\ stage \in {"idle", "reset", "start", "wait", "deselect"}
    /\ dir \in Dirs
    /\ result \in Completions \cup {NoResult}
    /\ slipped \in BOOLEAN
    /\ xfer # NoTransfer => fd

SpiInit ==
    /\ fd = FALSE
    /\ queue = [d \in Dirs |-> Null]
    /\ xfer = NoTransfer
    /\ selected = FALSE
    /\ stage = "idle"
    /\ dir = "rx"
    /\ result = NoResult
    /\ slipped = FALSE

-----------------------------------------------------------------------------
(* Opening and closing.                                                    *)

\* xQueueCreate returns NULL when the heap is exhausted, which nobody checks.
IfOpen ==
    /\ stage = "idle"
    /\ ~fd
    /\ \E made \in SUBSET {d \in Dirs : queue[d] = Null} :
        queue' = [d \in Dirs |-> IF d \in made THEN Empty ELSE queue[d]]
    /\ \/ fd' = TRUE /\ selected' = FALSE
       \/ UNCHANGED <<fd, selected>>        \* SPIDRV_Init fails
    /\ UNCHANGED <<xfer, stage, dir, result, slipped>>

\* SPIDRV_DeInit stops a transfer in flight without calling back.
IfClose ==
    /\ stage = "idle"
    /\ fd
    /\ fd' = FALSE
    /\ selected' = FALSE
    /\ xfer' = NoTransfer
    /\ queue' = [d \in Dirs |-> Null]
    /\ UNCHANGED <<stage, dir, result, slipped>>

-----------------------------------------------------------------------------
(* IfRead and IfWrite.                                                     *)

\* Select the chip; without a queue the call fails at once.
Call(d) ==
    /\ stage = "idle"
    /\ fd
    /\ dir' = d
    /\ selected' = TRUE
    /\ result' = NoResult
    /\ stage' = IF queue[d] = Null THEN "deselect" ELSE "reset"
    /\ UNCHANGED <<fd, queue, xfer, slipped>>

\* Mutant: a completion left in the queue is not removed.
ResetNothing ==
    /\ stage = "reset"
    /\ stage' = "start"
    /\ UNCHANGED <<fd, queue, xfer, selected, dir, result, slipped>>

ResetQueue ==
    /\ stage = "reset"
    /\ queue' = [queue EXCEPT ![dir] = Empty]
    /\ stage' = "start"
    /\ UNCHANGED <<fd, xfer, selected, dir, result, slipped>>

\* SPIDRV_MReceive, SPIDRV_MTransmit
StartTransfer ==
    /\ stage = "start"
    /\ xfer = NoTransfer
    /\ xfer' = [dir |-> dir, own |-> TRUE]
    /\ stage' = "wait"
    /\ UNCHANGED <<fd, queue, selected, dir, result, slipped>>

\* The SPI driver is busy with a transfer that a call gave up on.
StartRefused ==
    /\ stage = "start"
    /\ xfer # NoTransfer
    /\ stage' = "deselect"
    /\ UNCHANGED <<fd, queue, xfer, selected, dir, result, slipped>>

ReceiveStatus ==
    /\ stage = "wait"
    /\ queue[dir] \in Completions
    /\ result' = queue[dir]
    /\ queue' = [queue EXCEPT ![dir] = Empty]
    /\ stage' = "deselect"
    /\ UNCHANGED <<fd, xfer, selected, dir, slipped>>

\* CC3100_SPI_RX_TIMEOUT_MS, CC3100_SPI_TX_TIMEOUT_MS: ecode is TIMEOUT.
Timeout ==
    /\ stage = "wait"
    /\ queue[dir] = Empty
    /\ stage' = "deselect"
    /\ UNCHANGED <<fd, queue, xfer, selected, dir, result, slipped>>

\* cc3100_spi_deselect and return; what is still in flight or in a queue is
\* from now on that of an earlier call.
Disown(x) == [x EXCEPT !.own = FALSE]

Return ==
    /\ stage = "deselect"
    /\ selected' = FALSE
    /\ stage' = "idle"
    /\ result' = NoResult
    /\ xfer' = Disown(xfer)
    /\ queue' = [d \in Dirs |-> IF queue[d] \in Completions THEN Disown(queue[d]) ELSE queue[d]]
    /\ UNCHANGED <<fd, dir, slipped>>

-----------------------------------------------------------------------------
(* recieve_callback and send_callback, in the interrupt of the transfer:   *)
(* xQueueSendFromISR drops the status when the queue is full.              *)

Post(d, completion) == queue' = [queue EXCEPT ![d] = IF @ = Empty THEN completion ELSE @]

\* Mutant: the callback posts to the other queue.
CompleteSwapped ==
    /\ xfer # NoTransfer
    /\ \E s \in Status :
        Post(IF xfer.dir = "rx" THEN "tx" ELSE "rx", [status |-> s, own |-> xfer.own])
    /\ xfer' = NoTransfer
    /\ slipped' = (slipped \/ (stage = "start" /\ xfer.dir = dir))
    /\ UNCHANGED <<fd, selected, stage, dir, result>>

Complete ==
    /\ xfer # NoTransfer
    /\ \E s \in Status : Post(xfer.dir, [status |-> s, own |-> xfer.own])
    /\ xfer' = NoTransfer
    /\ slipped' = (slipped \/ (stage = "start" /\ xfer.dir = dir))
    /\ UNCHANGED <<fd, selected, stage, dir, result>>

CallStep == ResetQueue \/ StartTransfer \/ StartRefused \/ ReceiveStatus \/ Timeout \/ Return

SpiNext == IfOpen \/ IfClose \/ (\E d \in Dirs : Call(d)) \/ CallStep \/ Complete

SpiSpec == SpiInit /\ [][SpiNext]_spiVars

-----------------------------------------------------------------------------
(* Properties.                                                             *)

\* A call that succeeds goes by the completion of its own transfer, which is
\* over: no stale status of a call that gave up, no buffer still written and
\* no chip deselected in mid-transfer.  The one gap: the transfer of such a
\* call completes between xQueueReset and the start of the next transfer.
OwnCompletion ==
    stage = "deselect" /\ result # NoResult /\ ~slipped => result.own /\ xfer = NoTransfer

\* The order "reset the queue, then start" loses no completion: a call that
\* waits has its transfer in flight or a status in its queue, so it times
\* out only if the transfer really is late.
NoLostCompletion ==
    stage = "wait" => xfer = [dir |-> dir, own |-> TRUE] \/ queue[dir] \in Completions

-----------------------------------------------------------------------------
(* The strengthening that makes the invariants inductive.                  *)

\* A call that uses its queue has one; before it starts its transfer, only
\* transfers of earlier calls are in flight; then only its own is.  It has
\* no result before it leaves the queue.
CallInv ==
    /\ stage \in {"reset", "start", "wait"} => fd /\ queue[dir] # Null
    /\ stage # "deselect" => result = NoResult
    /\ stage \in {"idle", "reset", "start"} => ~xfer.own
    /\ stage = "wait" /\ xfer # NoTransfer => xfer = [dir |-> dir, own |-> TRUE]

\* Unless a completion slipped in, the queue is empty when the transfer
\* starts and then holds its completion or nothing.
QueueInv ==
    ~slipped =>
        /\ stage = "start" => queue[dir] = Empty
        /\ stage = "wait" /\ queue[dir] \in Completions =>
              queue[dir].own /\ xfer = NoTransfer

\* The inductive invariant.
SpiInv == SpiTypeOK /\ CallInv /\ QueueInv /\ OwnCompletion /\ NoLostCompletion
=============================================================================
