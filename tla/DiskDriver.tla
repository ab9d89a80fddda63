----------------------------- MODULE DiskDriver -----------------------------
(***************************************************************************)
(* The SD card driver under the file system (sdmm.c, over the SPI of       *)
(* board_sd_card.c), at the level of card commands and data blocks.  The   *)
(* card programs a block after it has accepted it, addresses its memory by *)
(* block or by byte, may fail or reject any step, and may be taken out and *)
(* put in, or exchanged, between any two steps.                            *)
(***************************************************************************)
EXTENDS Naturals, Sequences

CONSTANTS Card, NoCard,
          Kind,         \* how a card addresses: "block" (CCS bit set) or "byte"
          Sectors,      \* the sectors of a card
          BlockLen,     \* 512
          DWord,        \* 2^32, the modulus of a command's argument
          Value,        \* the contents of a sector
          MaxCount      \* bound: blocks of a request

Sector == 0..(Sectors-1)

ASSUME DiskAssumption ==
    /\ Sectors \in Nat \ {0} /\ BlockLen \in Nat \ {0} /\ DWord \in Nat \ {0}
    /\ NoCard \notin Card /\ Kind \in [Card -> {"block", "byte"}]
    /\ Sectors <= DWord /\ Sectors * BlockLen <= DWord
    /\ MaxCount \in Nat \ {0}

\* The calls of disk_read and disk_write; a read's data only counts its blocks.
Request == {r \in [f : {"read", "write"}, sector : Sector,
                   data : UNION {[1..n -> Value] : n \in 1..MaxCount}] :
              r.sector + Len(r.data) <= Sectors}
NoRequest == [f |-> "none", sector |-> 0, data |-> <<>>]

VARIABLES
    cur, live,      \* the card in the socket; it was initialised since put in
    mem, busy,      \* what the cards store; the block cur is programming, if any
    Stat, CardType, \* the driver's status flags and the kind it has detected
    pc, req, sect,  \* the call in progress and the argument of its command
    moved, got,     \* the blocks transferred, and those read
    ok              \* the last read, write or sync returned RES_OK

card == <<cur, live, mem, busy>>
call == <<req, sect, moved, got>>
vars == <<card, Stat, CardType, pc, call, ok>>

\* Every variable has its type.
TypeOK ==
    /\ cur \in Card \cup {NoCard} /\ live \in BOOLEAN
    /\ mem \in [Card -> [Sector -> Value]]
    /\ busy \subseteq Sector \X Value
    /\ Stat \subseteq {"NOINIT", "NODISK"}
    /\ CardType \in {"none", "block", "byte"}
    /\ pc \in {"idle", "cmd", "data", "stop"}
    /\ req \in Request \cup {NoRequest}
    /\ sect \in 0..(DWord-1)
    /\ moved \in 0..Len(req.data)
    /\ got \in Seq(Value) /\ Len(got) <= MaxCount
    /\ ok \in BOOLEAN

Init ==
    /\ cur \in Card \cup {NoCard} /\ live = FALSE
    /\ \E v \in Value : mem = [c \in Card |-> [s \in Sector |-> v]]
    /\ busy = {} /\ Stat = {"NOINIT"} /\ CardType = "none"
    /\ pc = "idle" /\ req = NoRequest /\ sect = 0 /\ moved = 0 /\ got = <<>>
    /\ ok = FALSE

(***************************************************************************)
(* The card.                                                               *)
(***************************************************************************)
\* Contents f once the blocks in b are programmed.
Programmed(f, b) ==
    [s \in Sector |-> IF \E v \in Value : <<s, v>> \in b
                      THEN CHOOSE v \in Value : <<s, v>> \in b ELSE f[s]]

\* The accepted block is programmed.
Program ==
    /\ busy # {}
    /\ mem' = [mem EXCEPT ![cur] = Programmed(@, busy)]
    /\ busy' = {}
    /\ UNCHANGED <<cur, live, Stat, CardType, pc, call, ok>>

\* A block being programmed is lost with the power.
Remove ==
    /\ cur # NoCard
    /\ cur' = NoCard /\ live' = FALSE /\ busy' = {}
    /\ UNCHANGED <<mem, Stat, CardType, pc, call, ok>>

Insert(c) ==
    /\ cur = NoCard /\ cur' = c
    /\ UNCHANGED <<live, mem, busy, Stat, CardType, pc, call, ok>>

\* The card takes a command: it is initialised and has finished programming
\* (wait_ready), and knows the address.
Responds == live /\ busy = {}
CardSector(arg) == IF Kind[cur] = "block" THEN arg ELSE arg \div BlockLen
Accepts(arg) ==
    /\ Responds
    /\ Kind[cur] = "byte" => arg % BlockLen = 0
    /\ CardSector(arg) \in Sector

(***************************************************************************)
(* The driver.                                                             *)
(***************************************************************************)
\* disk_status: only the card detect pin is looked at.
Status == IF cur = NoCard THEN Stat \cup {"NODISK"} ELSE Stat \ {"NODISK"}

DiskStatus ==
    /\ pc = "idle" /\ Stat' = Status
    /\ UNCHANGED <<card, CardType, pc, call, ok>>

\* disk_initialize: nothing is done when no flag is set.  The card that answers
\* tells its kind; a failure ends in disk_disable, with the card reset or not.
DiskInitialize ==
    /\ pc = "idle" /\ Status # {}
    /\ \/ /\ cur # NoCard /\ busy = {}
          /\ live' = TRUE /\ CardType' = Kind[cur] /\ Stat' = {}
       \/ /\ live' \in {FALSE, live} /\ CardType' = "none"
          /\ Stat' = {"NOINIT"} \cup (Status \cap {"NODISK"})
    /\ UNCHANGED <<cur, mem, busy, pc, call, ok>>

\* Mutant: the conversion is forgotten.
AddressOfBlock(s) == s

\* "Convert LBA to byte address if needed", in 32 bits.
Address(s) == IF CardType = "block" THEN s ELSE (s * BlockLen) % DWord

\* disk_read and disk_write up to the first command.
Begin(r) ==
    /\ pc = "idle" /\ Stat' = Status
    /\ IF "NOINIT" \in Status
       THEN ok' = FALSE /\ UNCHANGED <<pc, call>>
       ELSE /\ pc' = "cmd" /\ req' = r /\ moved' = 0 /\ got' = <<>>
            /\ sect' = Address(r.sector)
            /\ UNCHANGED ok
    /\ UNCHANGED <<card, CardType>>

\* The result of a call; deselect() leaves the card alone.
Return(r) ==
    /\ pc' = "idle" /\ req' = NoRequest /\ moved' = 0
    /\ ok' = r
    /\ UNCHANGED <<sect, got>>

\* send_cmd of the read or write command.
Command ==
    /\ pc = "cmd"
    /\ \/ Accepts(sect) /\ pc' = "data" /\ UNCHANGED <<call, ok>>
       \/ Return(FALSE)
    /\ UNCHANGED <<card, Stat, CardType>>

Left == Len(req.data) - moved
Block == CardSector(sect) + moved

\* Mutant: the wait for the data token has no bound.
ReadBlockWaits ==
    /\ pc = "data" /\ req.f = "read" /\ Left > 0 /\ Responds
    /\ got' = Append(got, mem[cur][Block]) /\ moved' = moved + 1
    /\ UNCHANGED <<card, Stat, CardType, pc, req, sect, ok>>

\* rcvr_datablock: a data packet, or a timeout or an error token.
ReadBlock ==
    /\ pc = "data" /\ req.f = "read" /\ Left > 0
    /\ \/ /\ Responds /\ got' = Append(got, mem[cur][Block]) /\ moved' = moved + 1
          /\ UNCHANGED pc
       \/ pc' = "stop" /\ UNCHANGED <<got, moved>>
    /\ UNCHANGED <<card, Stat, CardType, req, sect, ok>>

\* xmit_datablock: the block is accepted by a card that is ready, or is not.
WriteBlock ==
    /\ pc = "data" /\ req.f = "write" /\ Left > 0
    /\ \/ /\ Responds /\ busy' = {<<Block, req.data[moved + 1]>>} /\ moved' = moved + 1
          /\ UNCHANGED pc
       \/ pc' = "stop" /\ UNCHANGED <<busy, moved>>
    /\ UNCHANGED <<cur, live, mem, Stat, CardType, req, sect, got, ok>>

\* After a write that broke off, sectors the card has pre-erased (ACMD23) or begun
\* to write hold anything.
Spoil(s, v) ==
    /\ pc = "stop" /\ req.f = "write" /\ live
    /\ s \in Block..(Block + Left - 1)
    /\ mem' = [mem EXCEPT ![cur][s] = v]
    /\ UNCHANGED <<cur, live, busy, Stat, CardType, pc, call, ok>>

\* The end of a call.  The stop command of a read has no influence on the result; the
\* stop token that ends a write of several blocks is sent once the line reads ready,
\* as it also does with an empty socket.
StopToken == req.f = "write" /\ Len(req.data) > 1

Finish ==
    /\ pc = "stop" \/ (pc = "data" /\ Left = 0)
    /\ \/ (StopToken => busy = {}) /\ Return(Left = 0)
       \/ StopToken /\ Return(FALSE)
    /\ UNCHANGED <<card, Stat, CardType>>

\* Mutant: CTRL_SYNC returns without waiting for the card.
SyncNoWait ==
    /\ pc = "idle" /\ Stat' = Status
    /\ ok' = ("NOINIT" \notin Status)
    /\ UNCHANGED <<card, CardType, pc, call>>

\* disk_ioctl(CTRL_SYNC): select() waits until the card is ready; an empty socket
\* or a card that was never initialised reads as ready.
Sync ==
    /\ pc = "idle" /\ Stat' = Status
    /\ \/ "NOINIT" \notin Status /\ busy = {} /\ ok' = TRUE
       \/ ok' = FALSE
    /\ UNCHANGED <<card, CardType, pc, call>>

Driver ==
    \/ DiskStatus \/ DiskInitialize \/ Command \/ ReadBlock \/ WriteBlock \/ Finish \/ Sync
    \/ \E r \in Request : Begin(r)

Next ==
    \/ Driver
    \/ Program \/ Remove \/ \E c \in Card : Insert(c)
    \/ \E s \in Sector, v \in Value : Spoil(s, v)

Spec == Init /\ [][Next]_vars

\* The driver's task runs on: every wait of sdmm.c is a bounded loop.
FairSpec == Spec /\ WF_vars(Command \/ ReadBlock \/ WriteBlock \/ Finish)

(***************************************************************************)
(* Properties.                                                             *)
(***************************************************************************)
\* A command addresses the sector of the request on the card that takes it, even
\* when the card was exchanged for one of the other kind: the detected kind is that
\* of every card that answers.
RightSector ==
    /\ live => CardType = Kind[cur] \/ "NOINIT" \in Stat
    /\ pc = "data" /\ live => CardSector(sect) = req.sector

\* What the cards will hold once the accepted block is programmed, and the sector
\* that is lost if the card is taken out before.
Stored == [c \in Card |-> IF c = cur THEN Programmed(mem[c], busy) ELSE mem[c]]
Unsafe == {b[1] : b \in busy}

Device == INSTANCE BlockDevice WITH
    Media <- Card, NoMedia <- NoCard, media <- cur,
    store <- Stored, dirty <- Unsafe

\* The driver implements a block device: RES_OK from disk_read and disk_write means
\* every block moved, a failed write touches only its own sectors, and after RES_OK
\* from CTRL_SYNC no block can be lost, whatever the card does in between.
DeviceSpec == Device!Spec

\* Every disk_read and disk_write comes back, with the card dead or gone too.
CallReturns == (pc # "idle") ~> (pc = "idle")

(***************************************************************************)
(* The strengthening that makes RightSector inductive.                     *)
(***************************************************************************)
\* Only an initialised card in the socket programs, one block at a time.
CardInv ==
    /\ live => cur # NoCard
    /\ busy = {} \/ (live /\ \E s \in Sector, v \in Value : busy = {<<s, v>>})

\* A call is in progress from its first command to its result, and counts what it
\* has moved.
CallInv ==
    /\ pc = "idle" <=> req = NoRequest
    /\ pc \in {"idle", "cmd"} => moved = 0
    /\ req.f = "read" => Len(got) = moved

\* The kind of the card that answers is known before an address is computed.
AddressInv ==
    /\ live => CardType = Kind[cur] \/ "NOINIT" \in Stat
    /\ pc # "idle" /\ live => CardSector(sect) = req.sector
    /\ pc # "idle" \/ busy # {} => "NOINIT" \notin Stat

DiskInv == TypeOK /\ CardInv /\ CallInv /\ AddressInv
=============================================================================
