-------------------------- MODULE DiskDriverProofs --------------------------
(***************************************************************************)
(* For any cards, any size and any length of requests: the disk driver     *)
(* addresses the right sector and implements a block device.               *)
(***************************************************************************)
EXTENDS DiskDriver, SequenceTheorems, TLAPS

\* A byte address that fits 32 bits leads back to its sector.
LEMMA ByteAddress ==
    ASSUME NEW s \in Sector
    PROVE  /\ s * BlockLen \in 0..(DWord - 1)
           /\ (s * BlockLen) % DWord = s * BlockLen
           /\ (s * BlockLen) \div BlockLen = s
<1>1. s \in Nat /\ s <= Sectors - 1 /\ BlockLen \in Nat /\ BlockLen > 0 /\ Sectors \in Nat
      /\ Sectors * BlockLen <= DWord /\ DWord \in Nat
    BY DiskAssumption DEF Sector
<1>2. s * BlockLen \in Nat /\ s * BlockLen <= (Sectors - 1) * BlockLen
    BY <1>1
<1>3. (Sectors - 1) * BlockLen = Sectors * BlockLen - BlockLen
    BY <1>1
<1>4. s * BlockLen \in 0..(DWord - 1)
    BY <1>1, <1>2, <1>3
<1>5. (s * BlockLen) % DWord = s * BlockLen
    BY <1>1, <1>4
<1>6. (s * BlockLen) \div BlockLen = s
    BY <1>1
<1> QED BY <1>4, <1>5, <1>6

\* The data of a request is a short sequence of blocks inside the card.
LEMMA RequestData ==
    ASSUME NEW r \in Request
    PROVE  /\ r.f \in {"read", "write"} /\ r.sector \in Sector
           /\ r.data \in Seq(Value) /\ Len(r.data) \in 1..MaxCount
           /\ r.sector + Len(r.data) <= Sectors /\ r # NoRequest
<1>1. PICK n \in 1..MaxCount : r.data \in [1..n -> Value]
    BY DEF Request
<1>2. n \in Nat /\ r.data \in Seq(Value) /\ Len(r.data) = n
    BY <1>1, DiskAssumption, SeqDef
<1>3. /\ r.f \in {"read", "write"} /\ r.sector \in Sector
      /\ r.sector + Len(r.data) <= Sectors /\ r # NoRequest
    BY DEF Request, NoRequest
<1> QED BY <1>1, <1>2, <1>3

\* The request of a state, with the one that stands for none.
LEMMA CallFacts ==
    ASSUME TypeOK
    PROVE  /\ req.f \in {"read", "write", "none"} /\ req.sector \in Nat
           /\ req.data \in Seq(Value) /\ Len(req.data) \in 0..MaxCount
           /\ req # NoRequest => req \in Request
           /\ req = NoRequest => Len(req.data) = 0 /\ req.f = "none"
           /\ moved \in 0..Len(req.data)
<1>1. CASE req = NoRequest
    BY <1>1, DiskAssumption DEF NoRequest, TypeOK
<1>2. CASE req # NoRequest
    BY <1>2, RequestData DEF TypeOK, Sector
<1> QED BY <1>1, <1>2

\* The block a call is about to move is a sector of the card and of the request.
LEMMA BlockInside ==
    ASSUME DiskInv, pc # "idle", live, Left > 0
    PROVE  /\ cur \in Card /\ Block \in Sector /\ Block = req.sector + moved
           /\ moved + 1 \in 1..Len(req.data) /\ req.data[moved + 1] \in Value
           /\ mem[cur][Block] \in Value
<1>1. TypeOK /\ cur \in Card /\ req \in Request /\ CardSector(sect) = req.sector
    BY CallFacts DEF DiskInv, CardInv, CallInv, AddressInv, TypeOK
<1>2. /\ req.sector \in Sector /\ req.data \in Seq(Value) /\ Len(req.data) \in Nat
      /\ req.sector + Len(req.data) <= Sectors /\ moved \in 0..Len(req.data) /\ moved < Len(req.data)
    BY <1>1, RequestData, CallFacts DEF Left
<1>3. Block = req.sector + moved /\ Block \in Sector
    BY <1>1, <1>2, DiskAssumption DEF Block, Sector
<1>4. moved + 1 \in 1..Len(req.data)
    BY <1>2
<1> QED BY <1>1, <1>2, <1>3, <1>4 DEF TypeOK

LEMMA InvInit == Init => DiskInv
<1> SUFFICES ASSUME Init PROVE DiskInv
    OBVIOUS
<1>1. PICK v \in Value : mem = [c \in Card |-> [s \in Sector |-> v]]
    BY DEF Init
<1>2. Len(req.data) = 0 /\ <<>> \in Seq(Value) /\ Len(<<>>) = 0 /\ 0 \in 0..(DWord - 1) /\ 0 <= MaxCount
    BY DiskAssumption DEF Init, NoRequest
<1>3. TypeOK
  <2>1. mem \in [Card -> [Sector -> Value]]
      BY <1>1
  <2>2. moved \in 0..Len(req.data) /\ sect \in 0..(DWord - 1) /\ got \in Seq(Value) /\ Len(got) <= MaxCount
      BY <1>2 DEF Init
  <2> QED BY <2>1, <2>2 DEF Init, TypeOK
<1>4. CardInv /\ AddressInv
    BY DEF Init, CardInv, AddressInv
<1>5. CallInv
    BY <1>2 DEF Init, CallInv, NoRequest
<1> QED BY <1>3, <1>4, <1>5 DEF DiskInv

\* The steps of the driver and of the card, one by one.
LEMMA StepCases ==
    ASSUME [Next]_vars
    PROVE  \/ DiskStatus \/ DiskInitialize \/ Command \/ ReadBlock \/ WriteBlock \/ Finish \/ Sync
           \/ \E r \in Request : Begin(r)
           \/ Program \/ Remove \/ (\E c \in Card : Insert(c))
           \/ (\E s \in Sector, v \in Value : Spoil(s, v))
           \/ UNCHANGED vars
BY Zenon DEF Next, Driver

\* The result of a call.
LEMMA ReturnStep ==
    ASSUME DiskInv, NEW b \in BOOLEAN, Return(b), UNCHANGED <<card, Stat, CardType>>
    PROVE  DiskInv'
<1>1. UNCHANGED <<cur, live, mem, busy, Stat, CardType, sect, got>> /\ ok' = b
      /\ pc' = "idle" /\ req' = NoRequest /\ moved' = 0
    BY DEF Return, card
<1>2. Len(NoRequest.data) = 0 /\ NoRequest.f = "none"
    BY DEF NoRequest
<1>3. moved' \in 0..Len(req'.data)
    BY <1>1, <1>2
<1>4. TypeOK'
    BY <1>1, <1>3 DEF DiskInv, TypeOK
<1>5. CardInv'
    BY <1>1 DEF DiskInv, CardInv
<1>6. CallInv'
    BY <1>1, <1>2 DEF CallInv
<1>7. AddressInv'
    BY <1>1 DEF DiskInv, AddressInv
<1> QED BY <1>4, <1>5, <1>6, <1>7 DEF DiskInv

\* DiskInv is inductive.
LEMMA InvStep == DiskInv /\ [Next]_vars => DiskInv'
<1> SUFFICES ASSUME DiskInv, [Next]_vars PROVE DiskInv'
    OBVIOUS
<1>0. TypeOK /\ CardInv /\ CallInv /\ AddressInv /\ NoCard \notin Card /\ Kind \in [Card -> {"block", "byte"}]
    BY DiskAssumption DEF DiskInv
<1> USE <1>0 DEF card, call
<1>1. ASSUME DiskStatus PROVE DiskInv'
    BY <1>1 DEF DiskStatus, DiskInv, TypeOK, CardInv, CallInv, AddressInv, Status, CardSector
<1>2. ASSUME DiskInitialize PROVE DiskInv'
  <2>1. pc = "idle" /\ UNCHANGED <<cur, mem, busy, pc, req, sect, moved, got, ok>>
      BY <1>2 DEF DiskInitialize
  <2>2. CASE cur # NoCard /\ busy = {} /\ live' = TRUE /\ CardType' = Kind[cur] /\ Stat' = {}
    <3>1. TypeOK'
        BY <2>1, <2>2 DEF TypeOK
    <3> QED BY <2>1, <2>2, <3>1 DEF DiskInv, CardInv, CallInv, AddressInv
  <2>3. CASE /\ live' \in {FALSE, live} /\ CardType' = "none"
             /\ Stat' = {"NOINIT"} \cup (Status \cap {"NODISK"}) /\ Status # {}
    <3>1. "NOINIT" \in Stat' /\ Stat' \subseteq {"NOINIT", "NODISK"} /\ live' \in BOOLEAN
        BY <2>3 DEF TypeOK
    <3>2. TypeOK'
        BY <2>1, <2>3, <3>1 DEF TypeOK
    <3>3. busy = {}
      <4>1. busy # {} => cur # NoCard /\ "NOINIT" \notin Stat
          BY DEF CardInv, AddressInv
      <4>2. busy # {} => Status = {}
          BY <4>1 DEF Status, TypeOK
      <4> QED BY <2>3, <4>2
    <3>4. CardInv' /\ CallInv' /\ AddressInv'
        BY <2>1, <2>3, <3>1, <3>3 DEF CardInv, CallInv, AddressInv
    <3> QED BY <3>2, <3>4 DEF DiskInv
  <2> QED BY <1>2, <2>2, <2>3 DEF DiskInitialize
<1>3. ASSUME Command PROVE DiskInv'
  <2>1. CASE Return(FALSE)
      BY <1>3, <2>1, ReturnStep DEF Command
  <2>2. CASE pc = "cmd" /\ pc' = "data" /\ UNCHANGED <<call, ok>>
    <3>1. UNCHANGED <<cur, live, mem, busy, Stat, CardType, req, sect, moved, got, ok>>
        BY <1>3, <2>2 DEF Command
    <3> QED BY <2>2, <3>1 DEF DiskInv, TypeOK, CardInv, CallInv, AddressInv, CardSector
  <2> QED BY <1>3, <2>1, <2>2 DEF Command
<1>4. ASSUME ReadBlock PROVE DiskInv'
  <2>1. pc = "data" /\ req.f = "read" /\ Left > 0
        /\ UNCHANGED <<cur, live, mem, busy, Stat, CardType, req, sect, ok>>
      BY <1>4 DEF ReadBlock
  <2>2. CASE pc' = "stop" /\ UNCHANGED <<got, moved>>
      BY <2>1, <2>2 DEF DiskInv, TypeOK, CardInv, CallInv, AddressInv, CardSector
  <2>3. CASE Responds /\ got' = Append(got, mem[cur][Block]) /\ moved' = moved + 1 /\ pc' = pc
    <3>1. mem[cur][Block] \in Value
        BY <2>1, <2>3, BlockInside DEF Responds, DiskInv
    <3>2. moved' \in 0..Len(req'.data) /\ Len(req.data) \in 0..MaxCount /\ Len(got) = moved
        BY <2>1, <2>3, CallFacts DEF Left, CallInv
    <3>3. got' \in Seq(Value) /\ Len(got') = Len(got) + 1
        BY <2>3, <3>1, AppendProperties DEF TypeOK
    <3>4. Len(got') = moved' /\ Len(got') <= MaxCount
      <4>1. moved \in Nat
          BY CallFacts
      <4> QED BY <2>1, <2>3, <3>2, <3>3, <4>1, DiskAssumption
    <3>5. TypeOK'
        BY <2>1, <2>3, <3>2, <3>3, <3>4 DEF TypeOK
    <3> QED BY <2>1, <2>3, <3>4, <3>5 DEF DiskInv, CardInv, CallInv, AddressInv, CardSector
  <2> QED BY <1>4, <2>2, <2>3 DEF ReadBlock
<1>5. ASSUME WriteBlock PROVE DiskInv'
  <2>1. pc = "data" /\ req.f = "write" /\ Left > 0
        /\ UNCHANGED <<cur, live, mem, Stat, CardType, req, sect, got, ok>>
      BY <1>5 DEF WriteBlock
  <2>2. CASE pc' = "stop" /\ UNCHANGED <<busy, moved>>
      BY <2>1, <2>2 DEF DiskInv, TypeOK, CardInv, CallInv, AddressInv, CardSector
  <2>3. CASE Responds /\ busy' = {<<Block, req.data[moved + 1]>>} /\ moved' = moved + 1 /\ pc' = pc
    <3>1. Block \in Sector /\ req.data[moved + 1] \in Value
        BY <2>1, <2>3, BlockInside DEF Responds, DiskInv
    <3>2. moved' \in 0..Len(req'.data)
        BY <2>1, <2>3, CallFacts DEF Left
    <3>3. TypeOK'
        BY <2>1, <2>3, <3>1, <3>2 DEF TypeOK
    <3>4. CardInv'
        BY <2>1, <2>3, <3>1 DEF CardInv, Responds
    <3> QED BY <2>1, <2>3, <3>3, <3>4 DEF DiskInv, CallInv, AddressInv, CardSector
  <2> QED BY <1>5, <2>2, <2>3 DEF WriteBlock
<1>6. ASSUME Finish PROVE DiskInv'
    BY <1>6, ReturnStep DEF Finish
<1>7. ASSUME Sync PROVE DiskInv'
    BY <1>7 DEF Sync, DiskInv, TypeOK, CardInv, CallInv, AddressInv, Status, CardSector
<1>8. ASSUME NEW r \in Request, Begin(r) PROVE DiskInv'
  <2>1. pc = "idle" /\ Stat' = Status /\ UNCHANGED <<cur, live, mem, busy, CardType>>
        /\ Stat' \subseteq {"NOINIT", "NODISK"}
      BY <1>8 DEF Begin, Status, TypeOK
  <2>2. CASE "NOINIT" \in Status
    <3>1. UNCHANGED <<pc, req, sect, moved, got>> /\ ok' = FALSE
        BY <1>8, <2>2 DEF Begin
    <3>2. TypeOK' /\ CardInv' /\ CallInv'
        BY <2>1, <3>1 DEF TypeOK, CardInv, CallInv
    <3>3. busy = {}
        BY <2>2 DEF AddressInv, Status
    <3> QED BY <2>1, <2>2, <3>1, <3>2, <3>3 DEF DiskInv, AddressInv
  <2>3. CASE "NOINIT" \notin Status
    <3>1. /\ pc' = "cmd" /\ req' = r /\ moved' = 0 /\ got' = <<>>
          /\ sect' = Address(r.sector) /\ ok' = ok
        BY <1>8, <2>3 DEF Begin
    <3>2. sect' \in 0..(DWord - 1)
      <4>1. r.sector \in Sector /\ Sectors \in Nat /\ DWord \in Nat /\ Sectors <= DWord
          BY RequestData, DiskAssumption
      <4>2. r.sector \in 0..(DWord - 1)
          BY <4>1 DEF Sector
      <4> QED BY <3>1, <4>1, <4>2, ByteAddress DEF Address
    <3>3. moved' \in 0..Len(req'.data) /\ got' \in Seq(Value) /\ Len(got') = 0 /\ Len(got') <= MaxCount
        BY <3>1, RequestData, DiskAssumption
    <3>4. TypeOK'
        BY <2>1, <3>1, <3>2, <3>3 DEF TypeOK
    <3>5. CallInv'
        BY <3>1, <3>3, RequestData DEF CallInv
    <3>6. live => CardType = Kind[cur] /\ cur \in Card
        BY <2>3 DEF AddressInv, CardInv, TypeOK, Status
    <3>7. live => CardSector(sect)' = r.sector
        BY <2>1, <3>1, <3>6, RequestData, ByteAddress DEF CardSector, Address
    <3>8. AddressInv'
        BY <2>1, <2>3, <3>1, <3>6, <3>7 DEF AddressInv
    <3> QED BY <2>1, <3>4, <3>5, <3>8 DEF DiskInv, CardInv
  <2> QED BY <2>2, <2>3
<1>9. ASSUME Program PROVE DiskInv'
  <2>1. busy' = {} /\ UNCHANGED <<cur, live, Stat, CardType, pc, req, sect, moved, got, ok>>
        /\ mem' = [mem EXCEPT ![cur] = Programmed(mem[cur], busy)] /\ cur \in Card
      BY <1>9 DEF Program, CardInv, TypeOK
  <2>2. Programmed(mem[cur], busy) \in [Sector -> Value]
    <3>1. mem[cur] \in [Sector -> Value]
        BY <2>1 DEF TypeOK
    <3>2. ASSUME NEW s \in Sector, \E v \in Value : <<s, v>> \in busy
          PROVE  (CHOOSE v \in Value : <<s, v>> \in busy) \in Value
        BY <3>2, Zenon
    <3> QED BY <3>1, <3>2 DEF Programmed
  <2>3. TypeOK'
      BY <2>1, <2>2 DEF TypeOK
  <2> QED BY <2>1, <2>3 DEF DiskInv, CardInv, CallInv, AddressInv, CardSector
<1>10. ASSUME Remove PROVE DiskInv'
    BY <1>10 DEF Remove, DiskInv, TypeOK, CardInv, CallInv, AddressInv, CardSector
<1>11. ASSUME NEW c \in Card, Insert(c) PROVE DiskInv'
    BY <1>11 DEF Insert, DiskInv, TypeOK, CardInv, CallInv, AddressInv, CardSector
<1>12. ASSUME NEW s \in Sector, NEW v \in Value, Spoil(s, v) PROVE DiskInv'
    BY <1>12 DEF Spoil, DiskInv, TypeOK, CardInv, CallInv, AddressInv, CardSector
<1>13. ASSUME UNCHANGED vars PROVE DiskInv'
    BY <1>13 DEF vars, DiskInv, TypeOK, CardInv, CallInv, AddressInv, CardSector
<1> QED
    BY <1>1, <1>2, <1>3, <1>4, <1>5, <1>6, <1>7, <1>8, <1>9, <1>10, <1>11, <1>12, <1>13, StepCases, Zenon

\* The inductive invariant of sdmm.c and the card holds.
THEOREM DiskCorrect == Spec => []DiskInv
BY InvInit, InvStep, PTL DEF Spec

\* Every variable of the disk driver keeps its type, and a command's argument its
\* 32 bits.
THEOREM TypeCorrect == Spec => []TypeOK
<1>1. DiskInv => TypeOK
    BY DEF DiskInv
<1> QED BY <1>1, DiskCorrect, PTL

\* Whatever cards are exchanged, a command of disk_read or disk_write addresses the
\* sector of the request on the card that takes it.
THEOREM RightSectorCorrect == Spec => []RightSector
<1>1. DiskInv => RightSector
    BY DEF DiskInv, RightSector, AddressInv
<1> QED BY <1>1, DiskCorrect, PTL

(***************************************************************************)
(* The refinement of BlockDevice.                                          *)
(***************************************************************************)
\* Programming nothing, one block, or anything.
LEMMA ProgrammedBlock ==
    ASSUME NEW f \in [Sector -> Value]
    PROVE  /\ Programmed(f, {}) = f
           /\ \A s \in Sector, v \in Value : Programmed(f, {<<s, v>>}) = [f EXCEPT ![s] = v]
<1>1. Programmed(f, {}) = f
    BY DEF Programmed
<1>2. ASSUME NEW s \in Sector, NEW v \in Value
      PROVE  Programmed(f, {<<s, v>>}) = [f EXCEPT ![s] = v]
  <2>1. \A x \in Sector : (\E w \in Value : <<x, w>> \in {<<s, v>>}) <=> x = s
      OBVIOUS
  <2>2. (CHOOSE w \in Value : <<s, w>> \in {<<s, v>>}) = v
      OBVIOUS
  <2> QED BY <2>1, <2>2 DEF Programmed
<1> QED BY <1>1, <1>2

\* The device sees no difference when the card is left alone.
LEMMA StoredSame ==
    ASSUME UNCHANGED <<cur, mem, busy>>
    PROVE  Stored' = Stored /\ Unsafe' = Unsafe
BY DEF Stored, Unsafe

LEMMA RefineInit == Init => Device!Init
<1> SUFFICES ASSUME Init PROVE Device!Init
    OBVIOUS
<1>1. TypeOK /\ busy = {}
    BY InvInit DEF DiskInv, Init
<1>2. Stored \in [Card -> [Sector -> Value]] /\ Unsafe = {}
    BY <1>1, ProgrammedBlock DEF Stored, Unsafe, TypeOK
<1> QED BY <1>2 DEF Init, Device!Init, NoRequest, Device!NoRequest

\* Every step of the driver or of the card is a step of the block device, or none.
LEMMA RefineStep == DiskInv /\ DiskInv' /\ [Next]_vars => [Device!Next]_Device!vars
<1> SUFFICES ASSUME DiskInv, DiskInv', [Next]_vars PROVE [Device!Next]_Device!vars
    OBVIOUS
<1>0. TypeOK /\ CardInv /\ CallInv /\ AddressInv /\ TypeOK' /\ NoCard \notin Card
      /\ NoRequest = Device!NoRequest
    BY DiskAssumption DEF DiskInv, NoRequest, Device!NoRequest
<1> USE <1>0 DEF card, call
<1>1. ASSUME DiskStatus PROVE UNCHANGED Device!vars
    BY <1>1, StoredSame DEF DiskStatus, Device!vars
<1>2. ASSUME DiskInitialize PROVE UNCHANGED Device!vars
    BY <1>2, StoredSame DEF DiskInitialize, Device!vars
<1>3. ASSUME Command PROVE Device!Return(FALSE) \/ UNCHANGED Device!vars
  <2>1. Stored' = Stored /\ Unsafe' = Unsafe /\ cur' = cur /\ pc = "cmd"
      BY <1>3, StoredSame DEF Command
  <2>2. CASE Return(FALSE)
      BY <2>1, <2>2 DEF Return, Device!Return, Device!Idle, CallInv
  <2>3. CASE UNCHANGED <<call, ok>>
      BY <2>1, <2>3 DEF Device!vars
  <2> QED BY <1>3, <2>2, <2>3 DEF Command
<1>4. ASSUME ReadBlock PROVE Device!Read \/ UNCHANGED Device!vars
  <2>1. /\ Stored' = Stored /\ Unsafe' = Unsafe /\ UNCHANGED <<cur, req, ok>>
        /\ pc = "data" /\ req.f = "read" /\ Left > 0
      BY <1>4, StoredSame DEF ReadBlock
  <2>2. CASE UNCHANGED <<got, moved>>
      BY <2>1, <2>2 DEF Device!vars
  <2>3. CASE Responds /\ got' = Append(got, mem[cur][Block]) /\ moved' = moved + 1
    <3>1. cur \in Card /\ Block = req.sector + moved /\ moved < Len(req.data)
        BY <2>1, <2>3, BlockInside, CallFacts DEF Responds, Left
    <3>2. Stored[cur] = mem[cur]
        BY <2>3, <3>1, ProgrammedBlock DEF Stored, Responds, TypeOK
    <3>3. cur # NoCard /\ got' = Append(got, Stored[cur][req.sector + moved])
        BY <2>3, <3>1, <3>2
    <3> QED BY <2>1, <2>3, <3>1, <3>3 DEF Device!Read
  <2> QED BY <1>4, <2>2, <2>3 DEF ReadBlock
<1>5. ASSUME WriteBlock PROVE Device!Write \/ UNCHANGED Device!vars
  <2>1. /\ UNCHANGED <<cur, mem, req, got, ok>>
        /\ pc = "data" /\ req.f = "write" /\ Left > 0
      BY <1>5 DEF WriteBlock
  <2>2. CASE UNCHANGED <<busy, moved>>
      BY <2>1, <2>2, StoredSame DEF Device!vars
  <2>3. CASE Responds /\ busy' = {<<Block, req.data[moved + 1]>>} /\ moved' = moved + 1
    <3>1. /\ cur \in Card /\ Block = req.sector + moved /\ Block \in Sector
          /\ req.data[moved + 1] \in Value /\ moved < Len(req.data)
        BY <2>1, <2>3, BlockInside, CallFacts DEF Responds, Left
    <3>2. mem[cur] \in [Sector -> Value] /\ busy = {}
        BY <2>3, <3>1 DEF Responds, TypeOK
    <3>3. /\ Programmed(mem[cur], busy) = mem[cur]
          /\ Programmed(mem[cur], busy') = [mem[cur] EXCEPT ![Block] = req.data[moved + 1]]
        BY <2>3, <3>1, <3>2, ProgrammedBlock
    <3>6. Stored = mem
        BY <3>2, <3>3 DEF Stored, TypeOK
    <3>7. Stored' = [c \in Card |-> IF c = cur THEN [mem[cur] EXCEPT ![Block] = req.data[moved + 1]] ELSE mem[c]]
        BY <2>1, <3>3 DEF Stored
    <3>4. Stored' = [Stored EXCEPT ![cur][req.sector + moved] = req.data[moved + 1]]
        BY <3>1, <3>6, <3>7 DEF TypeOK
    <3>5. Unsafe' = {req.sector + moved}
        BY <2>3, <3>1 DEF Unsafe
    <3> QED BY <2>1, <2>3, <3>1, <3>4, <3>5 DEF Device!Write
  <2> QED BY <1>5, <2>2, <2>3 DEF WriteBlock
<1>6. ASSUME Finish PROVE \E b \in BOOLEAN : Device!Return(b)
  <2>1. Stored' = Stored /\ Unsafe' = Unsafe /\ cur' = cur /\ pc # "idle"
      BY <1>6, StoredSame DEF Finish
  <2>2. req # NoRequest
      BY <2>1 DEF CallInv
  <2>3. CASE Return(FALSE)
      BY <2>1, <2>2, <2>3 DEF Return, Device!Return, Device!Idle
  <2>4. CASE Return(Left = 0)
    <3>1. Left = 0 => moved = Len(req.data)
        BY CallFacts, DiskAssumption DEF Left
    <3>2. Device!Return(Left = 0)
        BY <2>1, <2>2, <2>4, <3>1 DEF Return, Device!Return, Device!Idle
    <3> QED BY <3>2
  <2> QED BY <1>6, <2>3, <2>4 DEF Finish
<1>7. ASSUME Sync PROVE Device!Sync \/ Device!Refuse
  <2>1. /\ Stored' = Stored /\ Unsafe' = Unsafe /\ UNCHANGED <<cur, req, moved, got>> /\ Device!Idle
      BY <1>7, StoredSame DEF Sync, Device!Idle, CallInv
  <2>2. CASE busy = {} /\ ok' = TRUE
      BY <2>1, <2>2 DEF Unsafe, Device!Sync
  <2>3. CASE ok' = FALSE
      BY <2>1, <2>3 DEF Device!Refuse
  <2> QED BY <1>7, <2>2, <2>3 DEF Sync
<1>8. ASSUME NEW r \in Request, Begin(r) PROVE Device!Call(r) \/ Device!Refuse
  <2>1. Stored' = Stored /\ Unsafe' = Unsafe /\ cur' = cur /\ Device!Idle
      BY <1>8, StoredSame DEF Begin, Device!Idle, CallInv
  <2>2. CASE ok' = FALSE /\ UNCHANGED <<pc, call>>
      BY <2>1, <2>2 DEF Device!Refuse
  <2>3. CASE req' = r /\ moved' = 0 /\ got' = <<>> /\ UNCHANGED ok
      BY <2>1, <2>3 DEF Device!Call
  <2> QED BY <1>8, <2>2, <2>3 DEF Begin
<1>9. ASSUME Program PROVE Device!Settle
  <2>1. cur \in Card /\ busy' = {} /\ mem' = [mem EXCEPT ![cur] = Programmed(mem[cur], busy)]
        /\ UNCHANGED <<cur, req, moved, got, ok>>
      BY <1>9 DEF Program, CardInv, TypeOK
  <2>2. mem'[cur] \in [Sector -> Value] /\ Programmed(mem'[cur], {}) = mem'[cur]
      BY <2>1, ProgrammedBlock DEF TypeOK
  <2>3. Stored' = Stored
      BY <2>1, <2>2 DEF Stored, TypeOK
  <2> QED BY <2>1, <2>3 DEF Unsafe, Device!Settle
<1>10. ASSUME Remove PROVE Device!Remove
  <2>1. cur \in Card /\ cur' = NoCard /\ busy' = {} /\ UNCHANGED <<mem, req, moved, got, ok>>
      BY <1>10 DEF Remove, TypeOK
  <2>2. mem[cur] \in [Sector -> Value]
      BY <2>1 DEF TypeOK
  <2>3. \A s \in Sector \ Unsafe : mem[cur][s] = Stored[cur][s]
      BY <2>1, <2>2 DEF Unsafe, Stored, Programmed
  <2>4. Stored' = mem
      BY <2>1 DEF Stored, TypeOK
  <2>5. mem = [Stored EXCEPT ![cur] = mem[cur]]
      BY <2>1 DEF Stored, TypeOK
  <2>6. Unsafe' = {}
      BY <2>1 DEF Unsafe
  <2> QED BY <2>1, <2>2, <2>3, <2>4, <2>5, <2>6 DEF Device!Remove
<1>11. ASSUME NEW c \in Card, Insert(c) PROVE Device!Insert(c)
  <2>1. cur = NoCard /\ cur' = c /\ busy = {} /\ UNCHANGED <<mem, busy, req, moved, got, ok>>
      BY <1>11 DEF Insert, CardInv
  <2>2. Programmed(mem[c], {}) = mem[c]
      BY ProgrammedBlock DEF TypeOK
  <2>3. Stored' = Stored /\ Unsafe' = Unsafe
      BY <2>1, <2>2 DEF Stored, Unsafe
  <2> QED BY <2>1, <2>3 DEF Device!Insert
<1>12. ASSUME NEW s \in Sector, NEW v \in Value, Spoil(s, v)
       PROVE  Device!Spoil(s, v) \/ UNCHANGED Device!vars
  <2>1. /\ pc = "stop" /\ req.f = "write" /\ live /\ s \in Block..(Block + Left - 1)
        /\ mem' = [mem EXCEPT ![cur][s] = v] /\ UNCHANGED <<cur, busy, req, moved, got, ok>>
      BY <1>12 DEF Spoil
  <2>2. cur \in Card /\ mem[cur] \in [Sector -> Value] /\ mem'[cur] = [mem[cur] EXCEPT ![s] = v]
      BY <2>1 DEF CardInv, TypeOK
  <2>3. s \in (req.sector + moved)..(req.sector + Len(req.data) - 1)
    <3>1. CardSector(sect) = req.sector
        BY <2>1 DEF AddressInv
    <3> QED BY <2>1, <3>1, CallFacts DEF Block, Left
  <2>4. CASE \E w \in Value : <<s, w>> \in busy
    <3>1. Programmed(mem'[cur], busy) = Programmed(mem[cur], busy)
        BY <2>2, <2>4 DEF Programmed
    <3>2. Stored' = Stored /\ Unsafe' = Unsafe
        BY <2>1, <3>1 DEF Stored, Unsafe, TypeOK
    <3> QED BY <2>1, <3>2 DEF Device!vars
  <2>5. CASE ~\E w \in Value : <<s, w>> \in busy
    <3>1. Programmed(mem'[cur], busy) = [Programmed(mem[cur], busy) EXCEPT ![s] = v]
        BY <2>2, <2>5 DEF Programmed
    <3>2. Stored' = [Stored EXCEPT ![cur][s] = v] /\ Unsafe' = Unsafe
        BY <2>1, <2>2, <3>1 DEF Stored, Unsafe, TypeOK
    <3>3. cur # NoCard
        BY <2>2
    <3> QED BY <2>1, <2>3, <3>2, <3>3 DEF Device!Spoil
  <2> QED BY <2>4, <2>5
<1>13. ASSUME UNCHANGED vars PROVE UNCHANGED Device!vars
    BY <1>13, StoredSame DEF vars, Device!vars
<1> QED
    BY <1>1, <1>2, <1>3, <1>4, <1>5, <1>6, <1>7, <1>8, <1>9, <1>10, <1>11, <1>12, <1>13, StepCases, Zenon
       DEF Device!Next

\* The driver of sdmm.c implements the block device.
THEOREM DeviceCorrect == Spec => DeviceSpec
BY RefineInit, RefineStep, DiskCorrect, PTL DEF Spec, DeviceSpec, Device!Spec
=============================================================================
