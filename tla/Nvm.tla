-------------------------------- MODULE Nvm --------------------------------
(***************************************************************************)
(* The non-volatile memory of c/legacy/src/nvm.zig: the first-start        *)
(* initialisation, which a reset may interrupt anywhere, and the counters  *)
(* by which the application and the bootloader ask each other for an       *)
(* update or a boot.  The NVM3 library makes the write of one object       *)
(* atomic against resets; erasing everything is not.                       *)
(***************************************************************************)
EXTENDS Naturals, Sequences, FiniteSets

CONSTANTS OtherKeys,    \* further objects the application writes: URIs, keys, ...
          MaxRequest    \* bound: requests made before a request is cleared

ASSUME BoundsOK == MaxRequest \in Nat \ {0}

\* The objects of init(), in the order it writes them.
Defaults == <<"start_counter", "reset_counter", "timestamp",
              "firmware_download_counter", "device_uuid", "config_sha256",
              "boot_request", "update_request", "firmware_size">>

DefaultKeys == {Defaults[i] : i \in 1..Len(Defaults)}
Keys == DefaultKeys \cup OtherKeys

ASSUME OtherKeysOK == IsFiniteSet(OtherKeys) /\ OtherKeys \cap DefaultKeys = {}

VARIABLES
    objects,    \* keys present in the flash
    boot,       \* value of the boot_request counter, 0 when it is absent
    update,     \* value of the update_request counter, 0 when it is absent
    pc,         \* "count", "erase", "write", or init() has returned: "ready", "failed"
    step,       \* the default init() writes next
    asked,      \* history: calls of setUpdateRequest since the last clear
    bootAsked,  \* history: calls of setBootRequest since the last clear
    patched     \* history: the application wrote after init() had failed

counters == <<boot, update>>
history  == <<asked, bootAsked, patched>>
vars == <<objects, counters, pc, step, history>>

\* Every variable has its type, and a counter that is absent counts nothing.
TypeOK ==
    /\ objects \subseteq Keys
    /\ boot \in 0..MaxRequest
    /\ update \in 0..MaxRequest
    /\ pc \in {"count", "erase", "write", "ready", "failed"}
    /\ step \in 1..Len(Defaults)
    /\ asked \in 0..MaxRequest
    /\ bootAsked \in 0..MaxRequest
    /\ patched \in BOOLEAN
    /\ "boot_request" \notin objects => boot = 0
    /\ "update_request" \notin objects => update = 0

\* A device that leaves the factory with an empty flash.
Init ==
    /\ objects = {}
    /\ boot = 0
    /\ update = 0
    /\ pc = "count"
    /\ step = 1
    /\ asked = 0
    /\ bootAsked = 0
    /\ patched = FALSE

-----------------------------------------------------------------------------
(* init()                                                                  *)

\* Mutant: one default object less than init() writes.
CountObjectsShort ==
    /\ pc = "count"
    /\ pc' = IF Cardinality(objects) < 8 THEN "erase" ELSE "ready"
    /\ UNCHANGED <<objects, counters, step, history>>

\* Mutant: nine objects do not count as initialised.
CountObjectsLong ==
    /\ pc = "count"
    /\ pc' = IF Cardinality(objects) <= 9 THEN "erase" ELSE "ready"
    /\ UNCHANGED <<objects, counters, step, history>>

CountObjects ==
    /\ pc = "count"
    /\ pc' = IF Cardinality(objects) < 9 THEN "erase" ELSE "ready"
    /\ UNCHANGED <<objects, counters, step, history>>

\* What is left of the flash after an erasure, complete or not.
Keep(left) ==
    /\ objects' = left
    /\ boot' = IF "boot_request" \in left THEN boot ELSE 0
    /\ update' = IF "update_request" \in left THEN update ELSE 0

EraseAll ==
    /\ pc = "erase"
    /\ Keep({})
    /\ pc' = "write"
    /\ step' = 1
    /\ UNCHANGED history

\* writeCounter(key, 0) or writeData(key, default): the counters are absent
\* before, so their values stay 0.
WriteDefault ==
    /\ pc = "write"
    /\ objects' = objects \cup {Defaults[step]}
    /\ IF step = Len(Defaults)
       THEN pc' = "ready" /\ UNCHANGED step
       ELSE step' = step + 1 /\ UNCHANGED pc
    /\ UNCHANGED <<counters, history>>

\* "try": the first error ends init().
InitFails ==
    /\ pc \in {"erase", "write"}
    /\ pc' = "failed"
    /\ \/ pc = "write" /\ UNCHANGED <<objects, counters>>
       \/ pc = "erase" /\ \E left \in SUBSET objects : Keep(left)
    /\ UNCHANGED <<step, history>>

\* A reset anywhere, also in the middle of eraseAll.
Reset ==
    /\ pc' = "count"
    /\ step' = 1
    /\ \/ UNCHANGED <<objects, counters>>
       \/ pc = "erase" /\ \E left \in SUBSET objects : Keep(left)
    /\ UNCHANGED history

-----------------------------------------------------------------------------
(* The application and the bootloader, after init().                       *)

Started == pc \in {"ready", "failed"}

Wrote == patched' = (patched \/ pc = "failed")

\* writeData, writeDataCString of a key that init() does not write.
WriteData ==
    /\ Started
    /\ \E k \in OtherKeys : objects' = objects \cup {k}
    /\ Wrote
    /\ UNCHANGED <<counters, pc, step, asked, bootAsked>>

\* setFirmwareSize; the size itself is left out.
SetFirmwareSize ==
    /\ Started
    /\ objects' = objects \cup {"firmware_size"}
    /\ Wrote
    /\ UNCHANGED <<counters, pc, step, asked, bootAsked>>

\* incrementCounter fails on a counter that does not exist.
SetBootRequest ==
    /\ Started
    /\ "boot_request" \in objects
    /\ bootAsked < MaxRequest
    /\ boot' = boot + 1
    /\ bootAsked' = bootAsked + 1
    /\ Wrote
    /\ UNCHANGED <<objects, update, pc, step, asked>>

\* writeCounter creates the counter where it does not exist.
ClearBootRequest ==
    /\ Started
    /\ objects' = objects \cup {"boot_request"}
    /\ boot' = 0
    /\ bootAsked' = 0
    /\ Wrote
    /\ UNCHANGED <<update, pc, step, asked>>

\* Mutant: the error of an absent counter is taken for success.
SetUpdateRequestUnchecked ==
    /\ Started
    /\ asked < MaxRequest
    /\ update' = update + 1
    /\ asked' = asked + 1
    /\ Wrote
    /\ UNCHANGED <<objects, boot, pc, step, bootAsked>>

SetUpdateRequest ==
    /\ Started
    /\ "update_request" \in objects
    /\ asked < MaxRequest
    /\ update' = update + 1
    /\ asked' = asked + 1
    /\ Wrote
    /\ UNCHANGED <<objects, boot, pc, step, bootAsked>>

ClearUpdateRequest ==
    /\ Started
    /\ objects' = objects \cup {"update_request"}
    /\ update' = 0
    /\ asked' = 0
    /\ Wrote
    /\ UNCHANGED <<boot, pc, step, bootAsked>>

isBootRequested   == boot > 2
isUpdateRequested == update # 0

Next ==
    \/ CountObjects \/ EraseAll \/ WriteDefault \/ InitFails \/ Reset
    \/ WriteData \/ SetFirmwareSize \/ SetBootRequest \/ ClearBootRequest
    \/ SetUpdateRequest \/ ClearUpdateRequest

Spec == Init /\ [][Next]_vars

-----------------------------------------------------------------------------
(* Properties.                                                             *)

\* However often resets and write errors interrupt init(), once it succeeds
\* all its objects are there, unless the application went on writing after a
\* failed init(): then nine objects may be any nine.
InitComplete == pc = "ready" /\ ~patched => DefaultKeys \subseteq objects

\* Requests to the other side of a reset are kept: an update request is
\* reported from the first call, a boot request from the third, after any
\* number of resets; no later init() erases an initialised memory.  (Requests
\* made after a failed init() may be erased: fewer than nine objects exist.)
RequestsKept ==
    ~patched =>
        /\ asked > 0 => isUpdateRequested
        /\ bootAsked > 2 => isBootRequested

(***************************************************************************)
(* The inductive invariant.                                                *)
(***************************************************************************)

\* The defaults before the one that init() writes next.
Before(n) == {Defaults[i] : i \in 1..(n - 1)}

\* A counter never counts more than the requests made.
CountInv == boot <= bootAsked /\ update <= asked

\* Until the application writes after a failed init(), the flash has all defaults
\* or nothing else, init() erases only a flash that lacks one, and requests are
\* counted only where all defaults are.
FlashInv ==
    /\ pc = "write" => objects = Before(step)
    /\ ~patched =>
          /\ DefaultKeys \subseteq objects \/ objects \subseteq DefaultKeys
          /\ pc = "ready" => DefaultKeys \subseteq objects
          /\ pc \in {"erase", "write"} => ~(DefaultKeys \subseteq objects)
          /\ asked > 0 \/ bootAsked > 0 => DefaultKeys \subseteq objects
          /\ update = asked /\ boot = bootAsked

NvmInv == TypeOK /\ CountInv /\ FlashInv
=============================================================================
