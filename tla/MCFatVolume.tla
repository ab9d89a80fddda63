---------------------------- MODULE MCFatVolume -----------------------------
(* A small volume for TLC: three clusters in two sectors of the FAT, three *)
(* names in two sectors of the directory, so that a chain and a rename     *)
(* stay within a sector or leave it.                                       *)
EXTENDS FatVolume, TLC

CONSTANTS a, b, c

MCSectorOf == (2 :> "fat1") @@ (3 :> "fat2") @@ (4 :> "fat1")
              @@ (a :> "dir1") @@ (b :> "dir1") @@ (c :> "dir2")

\* The names in one sector are interchangeable.
SameSector == Permutations({a, b})

\* Bound: what becomes of a damaged volume is not followed.
Undamaged == ~damaged

==============================================================================
