------------------------------ MODULE NvmProofs ------------------------------
(***************************************************************************)
(* The non-volatile memory for any further objects and any number of       *)
(* requests: init() is all or nothing, and requests survive resets.        *)
(***************************************************************************)
EXTENDS Nvm, FiniteSetTheorems, TLAPS

\* init() writes nine objects, so nine is how many it counts.
LEMMA NineDefaults ==
    /\ Len(Defaults) = 9
    /\ DefaultKeys = Before(10)
    /\ IsFiniteSet(DefaultKeys) /\ Cardinality(DefaultKeys) = 9
  <1> DEFINE A == {"start_counter", "reset_counter", "timestamp"}
             B == A \cup {"firmware_download_counter"} \cup {"device_uuid"}
             C == B \cup {"config_sha256"} \cup {"boot_request"}
             D == C \cup {"update_request"} \cup {"firmware_size"}
  <1>1. Len(Defaults) = 9
    BY DEF Defaults
  <1>2. DefaultKeys = Before(10)
    BY <1>1 DEF DefaultKeys, Before
  <1>3. DefaultKeys = D
    <2>1. 1..9 = {1, 2, 3, 4, 5, 6, 7, 8, 9}
      OBVIOUS
    <2>2. DefaultKeys = {Defaults[1], Defaults[2], Defaults[3], Defaults[4], Defaults[5],
                         Defaults[6], Defaults[7], Defaults[8], Defaults[9]}
      BY <1>1, <2>1 DEF DefaultKeys
    <2> QED
      BY <2>2 DEF Defaults
  <1>4. IsFiniteSet(A) /\ Cardinality(A) = 3
    <2>1. IsFiniteSet({"start_counter"}) /\ Cardinality({"start_counter"}) = 1
      BY FS_Singleton
    <2>2. /\ IsFiniteSet({"start_counter"} \cup {"reset_counter"})
          /\ Cardinality({"start_counter"} \cup {"reset_counter"}) = 2
      BY <2>1, FS_AddElement
    <2>3. A = {"start_counter"} \cup {"reset_counter"} \cup {"timestamp"}
      OBVIOUS
    <2> QED
      BY <2>2, <2>3, FS_AddElement
  <1>5. IsFiniteSet(B) /\ Cardinality(B) = 5
    <2>1. /\ IsFiniteSet(A \cup {"firmware_download_counter"})
          /\ Cardinality(A \cup {"firmware_download_counter"}) = 4
      BY <1>4, FS_AddElement
    <2> QED
      BY <2>1, FS_AddElement
  <1>6. IsFiniteSet(C) /\ Cardinality(C) = 7
    <2>1. IsFiniteSet(B \cup {"config_sha256"}) /\ Cardinality(B \cup {"config_sha256"}) = 6
      BY <1>5, FS_AddElement
    <2> QED
      BY <2>1, FS_AddElement
  <1>7. IsFiniteSet(D) /\ Cardinality(D) = 9
    <2>1. IsFiniteSet(C \cup {"update_request"}) /\ Cardinality(C \cup {"update_request"}) = 8
      BY <1>6, FS_AddElement
    <2> QED
      BY <2>1, FS_AddElement
  <1> QED
    BY <1>1, <1>2, <1>3, <1>7

\* The count of init() tells a complete flash from one that lacks a default.
LEMMA CountTells ==
    ASSUME TypeOK
    PROVE  /\ DefaultKeys \subseteq objects => ~(Cardinality(objects) < 9)
           /\ objects \subseteq DefaultKeys /\ ~(Cardinality(objects) < 9)
                => DefaultKeys \subseteq objects
  <1>1. IsFiniteSet(objects) /\ Cardinality(objects) \in Nat
    <2>1. IsFiniteSet(Keys)
      BY NineDefaults, OtherKeysOK, FS_Union DEF Keys
    <2>2. objects \in SUBSET Keys
      BY DEF TypeOK
    <2>3. IsFiniteSet(objects)
      BY <2>1, <2>2, FS_Subset
    <2> QED
      BY <2>3, FS_CardinalityType
  <1>2. DefaultKeys \subseteq objects => Cardinality(DefaultKeys) <= Cardinality(objects)
    BY <1>1, FS_Subset
  <1>3. ASSUME objects \subseteq DefaultKeys, ~(Cardinality(objects) < 9)
        PROVE  DefaultKeys = objects
    <2>1. Cardinality(objects) <= Cardinality(DefaultKeys)
      BY <1>3, NineDefaults, FS_Subset
    <2>2. Cardinality(DefaultKeys) = Cardinality(objects)
      BY <1>1, <1>3, <2>1, NineDefaults
    <2> QED
      BY <1>3, <2>2, NineDefaults, FS_Subset
  <1> QED
    BY <1>1, <1>2, <1>3, NineDefaults

\* The n-th default is a key, and new after those before it.
LEMMA NextDefault ==
    ASSUME NEW n \in 1..Len(Defaults)
    PROVE  /\ Defaults[n] \in DefaultKeys
           /\ Before(n) \cup {Defaults[n]} = Before(n + 1)
           /\ Before(n) \subseteq DefaultKeys
           /\ ~(DefaultKeys \subseteq Before(n))
  <1>1. n \in 1..9 /\ n \in Nat
    BY NineDefaults
  <1>2. Defaults[n] \in DefaultKeys
    BY DEF DefaultKeys
  <1>3. Before(n) \cup {Defaults[n]} = Before(n + 1)
    <2>1. 1..((n + 1) - 1) = 1..(n - 1) \cup {n}
      BY <1>1
    <2> QED
      BY <2>1 DEF Before
  <1>4. Before(n) \subseteq DefaultKeys
    BY <1>1, NineDefaults DEF Before, DefaultKeys
  <1>5. Defaults[n] \notin Before(n)
    <2> SUFFICES ASSUME NEW i \in 1..(n - 1) PROVE Defaults[i] # Defaults[n]
      BY DEF Before
    <2>1. i \in 1..9 /\ i # n
      BY <1>1
    <2> QED
      BY <1>1, <2>1 DEF Defaults
  <1> QED
    BY <1>2, <1>3, <1>4, <1>5

------------------------------------------------------------------------------
(* The invariant.                                                          *)

\* An empty flash.
LEMMA NvmInit ==
    ASSUME Init
    PROVE  NvmInv
  <1> USE DEF Init
  <1>1. TypeOK
    <2>1. 0 \in 0..MaxRequest /\ 1 \in 1..Len(Defaults)
      BY BoundsOK, NineDefaults
    <2> QED
      BY <2>1 DEF TypeOK
  <1>2. CountInv
    BY DEF CountInv
  <1>3. FlashInv
    BY DEF FlashInv
  <1> QED
    BY <1>1, <1>2, <1>3 DEF NvmInv

\* Erasing, wholly or in part, a flash that lacks a default loses no request.
LEMMA KeepInv ==
    ASSUME NvmInv, pc = "erase", NEW left \in SUBSET objects, Keep(left),
           pc' \in {"count", "write", "failed"}, step' \in 1..Len(Defaults),
           pc' = "write" => left = Before(step'), UNCHANGED history
    PROVE  NvmInv'
  <1>1. /\ objects' = left /\ asked' = asked /\ bootAsked' = bootAsked /\ patched' = patched
        /\ boot' = (IF "boot_request" \in left THEN boot ELSE 0)
        /\ update' = (IF "update_request" \in left THEN update ELSE 0)
    BY DEF Keep, history
  <1>2. TypeOK'
    BY <1>1, BoundsOK DEF NvmInv, TypeOK
  <1>3. CountInv'
    BY <1>1, BoundsOK DEF NvmInv, TypeOK, CountInv
  <1>4. FlashInv'
    <2> SUFFICES ASSUME ~patched
                 PROVE  /\ left \subseteq DefaultKeys /\ ~(DefaultKeys \subseteq left)
                        /\ asked = 0 /\ bootAsked = 0 /\ update = asked /\ boot = bootAsked
      BY <1>1 DEF FlashInv
    <2>1. /\ ~(DefaultKeys \subseteq objects) /\ objects \subseteq DefaultKeys
          /\ ~(asked > 0) /\ ~(bootAsked > 0) /\ update = asked /\ boot = bootAsked
      BY DEF NvmInv, FlashInv
    <2>2. asked \in Nat /\ bootAsked \in Nat
      BY BoundsOK DEF NvmInv, TypeOK
    <2> QED
      BY <2>1, <2>2
  <1> QED
    BY <1>2, <1>3, <1>4 DEF NvmInv

\* A step of init(), or a reset.
LEMMA InitStep ==
    ASSUME NvmInv, CountObjects \/ EraseAll \/ WriteDefault \/ InitFails \/ Reset
    PROVE  NvmInv'
  <1>1. 1 \in 1..Len(Defaults) /\ step \in 1..Len(Defaults) /\ Before(1) = {} /\ 9 \in 1..Len(Defaults)
    BY NineDefaults DEF NvmInv, TypeOK, Before
  <1>2. CASE CountObjects
    <2>1. /\ pc = "count" /\ UNCHANGED <<objects, boot, update, step, asked, bootAsked, patched>>
          /\ pc' = IF Cardinality(objects) < 9 THEN "erase" ELSE "ready"
      BY <1>2 DEF CountObjects, counters, history
    <2>2. TypeOK' /\ CountInv'
      BY <2>1 DEF NvmInv, TypeOK, CountInv
    <2>3. FlashInv'
      BY <2>1, CountTells DEF NvmInv, FlashInv
    <2> QED
      BY <2>2, <2>3 DEF NvmInv
  <1>3. CASE EraseAll
    BY <1>1, <1>3, KeepInv DEF EraseAll
  <1>4. CASE WriteDefault
    <2>1. /\ pc = "write" /\ objects' = objects \cup {Defaults[step]}
          /\ UNCHANGED <<boot, update, asked, bootAsked, patched>>
          /\ \/ step = 9 /\ pc' = "ready" /\ step' = step
             \/ step # 9 /\ step' = step + 1 /\ pc' = "write"
      BY <1>4, NineDefaults DEF WriteDefault, counters, history
    <2>2. objects = Before(step)
      BY <2>1 DEF NvmInv, FlashInv
    <2>3. objects' = Before(step + 1) /\ Defaults[step] \in Keys
      BY <1>1, <2>1, <2>2, NextDefault DEF Keys
    <2>4. step' \in 1..Len(Defaults)
      BY <1>1, <2>1, NineDefaults
    <2>5. TypeOK'
      BY <2>1, <2>3, <2>4 DEF NvmInv, TypeOK
    <2>6. CountInv'
      BY <2>1 DEF NvmInv, CountInv
    <2>7. CASE step = 9
      <3>1. pc' = "ready" /\ objects' = DefaultKeys
        BY <2>1, <2>3, <2>7, NineDefaults
      <3>2. FlashInv'
        BY <2>1, <3>1 DEF NvmInv, FlashInv
      <3> QED
        BY <2>5, <2>6, <3>2 DEF NvmInv
    <2>8. CASE step # 9
      <3>1. pc' = "write" /\ step' = step + 1 /\ objects' = Before(step')
        BY <2>1, <2>3, <2>8
      <3>2. objects' \subseteq DefaultKeys /\ ~(DefaultKeys \subseteq objects')
        BY <2>4, <3>1, NextDefault
      <3>3. ~patched => ~(asked > 0) /\ ~(bootAsked > 0) /\ update = asked /\ boot = bootAsked
        BY <1>1, <2>1, <2>2, NextDefault DEF NvmInv, FlashInv
      <3>4. FlashInv'
        BY <2>1, <3>1, <3>2, <3>3 DEF FlashInv
      <3> QED
        BY <2>5, <2>6, <3>4 DEF NvmInv
    <2> QED
      BY <2>7, <2>8
  <1>5. ASSUME UNCHANGED <<objects, boot, update, asked, bootAsked, patched>>,
               pc' \in {"count", "failed"}, step' \in 1..Len(Defaults)
        PROVE  NvmInv'
    <2>1. TypeOK' /\ CountInv'
      BY <1>5 DEF NvmInv, TypeOK, CountInv
    <2>2. FlashInv'
      BY <1>5 DEF NvmInv, FlashInv
    <2> QED
      BY <2>1, <2>2 DEF NvmInv
  <1>6. CASE InitFails
    <2>1. CASE UNCHANGED <<objects, counters>>
      BY <1>1, <1>5, <1>6, <2>1 DEF InitFails, counters, history
    <2>2. CASE pc = "erase" /\ \E left \in SUBSET objects : Keep(left)
      BY <1>1, <1>6, <2>2, KeepInv DEF InitFails
    <2> QED
      BY <1>6, <2>1, <2>2 DEF InitFails
  <1>7. CASE Reset
    <2>1. CASE UNCHANGED <<objects, counters>>
      BY <1>1, <1>5, <1>7, <2>1 DEF Reset, counters, history
    <2>2. CASE pc = "erase" /\ \E left \in SUBSET objects : Keep(left)
      BY <1>1, <1>7, <2>2, KeepInv DEF Reset
    <2> QED
      BY <1>7, <2>1, <2>2 DEF Reset
  <1> QED
    BY <1>2, <1>3, <1>4, <1>6, <1>7

\* A call of the application or the bootloader.
LEMMA CallStep ==
    ASSUME NvmInv,
           \/ WriteData \/ SetFirmwareSize \/ SetBootRequest \/ ClearBootRequest
           \/ SetUpdateRequest \/ ClearUpdateRequest
    PROVE  NvmInv'
  <1>1. /\ pc \in {"ready", "failed"} /\ pc' = pc /\ step' = step
        /\ patched' = (patched \/ pc = "failed")
    BY DEF WriteData, SetFirmwareSize, SetBootRequest, ClearBootRequest, SetUpdateRequest,
       ClearUpdateRequest, Started, Wrote, counters, history
  <1>2. objects \subseteq objects' /\ objects' \subseteq Keys
    <2>1. "firmware_size" \in Keys /\ "boot_request" \in Keys /\ "update_request" \in Keys
      <3>1. {Defaults[7], Defaults[8], Defaults[9]} \subseteq DefaultKeys
        BY NineDefaults DEF DefaultKeys
      <3> QED
        BY <3>1 DEF Keys, Defaults
    <2>2. objects \subseteq Keys
      BY DEF NvmInv, TypeOK
    <2> QED
      BY <2>1, <2>2 DEF WriteData, SetFirmwareSize, SetBootRequest, ClearBootRequest,
         SetUpdateRequest, ClearUpdateRequest, Keys
  <1>3. /\ \/ boot' = boot /\ bootAsked' = bootAsked
           \/ boot' = boot + 1 /\ bootAsked' = bootAsked + 1 /\ bootAsked < MaxRequest
              /\ "boot_request" \in objects
           \/ boot' = 0 /\ bootAsked' = 0
        /\ \/ update' = update /\ asked' = asked
           \/ update' = update + 1 /\ asked' = asked + 1 /\ asked < MaxRequest
              /\ "update_request" \in objects
           \/ update' = 0 /\ asked' = 0
    BY DEF WriteData, SetFirmwareSize, SetBootRequest, ClearBootRequest, SetUpdateRequest,
       ClearUpdateRequest, counters
  <1>4. /\ boot \in 0..MaxRequest /\ update \in 0..MaxRequest /\ MaxRequest \in Nat
        /\ asked \in 0..MaxRequest /\ bootAsked \in 0..MaxRequest
        /\ boot <= bootAsked /\ update <= asked
    BY BoundsOK DEF NvmInv, TypeOK, CountInv
  <1>5. /\ boot' \in 0..MaxRequest /\ bootAsked' \in 0..MaxRequest /\ boot' <= bootAsked'
        /\ update' \in 0..MaxRequest /\ asked' \in 0..MaxRequest /\ update' <= asked'
    BY <1>3, <1>4
  <1>6. /\ "boot_request" \notin objects' => boot' = 0
        /\ "update_request" \notin objects' => update' = 0
    BY <1>2, <1>3 DEF NvmInv, TypeOK
  <1>7. TypeOK'
    <2>1. patched' \in BOOLEAN
      BY <1>1 DEF NvmInv, TypeOK
    <2> QED
      BY <1>1, <1>2, <1>5, <1>6, <2>1 DEF NvmInv, TypeOK
  <1>8. CountInv'
    BY <1>5 DEF CountInv
  <1>9. FlashInv'
    <2> SUFFICES ASSUME ~patched'
                 PROVE  DefaultKeys \subseteq objects' /\ update' = asked' /\ boot' = bootAsked'
      BY <1>1 DEF FlashInv
    <2>1. pc = "ready" /\ ~patched
      BY <1>1
    <2>2. DefaultKeys \subseteq objects /\ update = asked /\ boot = bootAsked
      BY <2>1 DEF NvmInv, FlashInv
    <2> QED
      BY <1>2, <1>3, <2>2
  <1> QED
    BY <1>7, <1>8, <1>9 DEF NvmInv

\* NvmInv is an invariant, wherever resets and errors strike.
THEOREM NvmCorrect == Spec => []NvmInv
  <1>1. Init => NvmInv
    BY NvmInit
  <1>2. NvmInv /\ [Next]_vars => NvmInv'
    <2> SUFFICES ASSUME NvmInv, [Next]_vars PROVE NvmInv'
      OBVIOUS
    <2>1. CASE UNCHANGED vars
      BY <2>1 DEF vars, counters, history, NvmInv, TypeOK, CountInv, FlashInv
    <2> QED
      BY <2>1, InitStep, CallStep DEF Next
  <1> QED
    BY <1>1, <1>2, PTL DEF Spec

\* TypeOK: the counters stay in range, and one that is absent counts nothing.
THEOREM TypeCorrect == Spec => []TypeOK
  <1>1. NvmInv => TypeOK
    BY DEF NvmInv
  <1> QED
    BY <1>1, NvmCorrect, PTL

\* InitComplete: an init() that returns without an error has left, or found,
\* every object it writes, whatever interrupted the ones before it.
THEOREM InitCompleteCorrect == Spec => []InitComplete
  <1>1. NvmInv => InitComplete
    BY DEF NvmInv, FlashInv, InitComplete
  <1> QED
    BY <1>1, NvmCorrect, PTL

\* RequestsKept: isUpdateRequested and isBootRequested report the requests made
\* before any number of resets.
THEOREM RequestsKeptCorrect == Spec => []RequestsKept
  <1>1. NvmInv => RequestsKept
    <2> SUFFICES ASSUME NvmInv, ~patched
                 PROVE  (asked > 0 => update # 0) /\ (bootAsked > 2 => boot > 2)
      BY DEF RequestsKept, isUpdateRequested, isBootRequested
    <2>1. update = asked /\ boot = bootAsked /\ asked \in Nat
      BY BoundsOK DEF NvmInv, FlashInv, TypeOK
    <2> QED
      BY <2>1
  <1> QED
    BY <1>1, NvmCorrect, PTL
==============================================================================
