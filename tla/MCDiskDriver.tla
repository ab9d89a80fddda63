---------------------------- MODULE MCDiskDriver ----------------------------
(***************************************************************************)
(* One card that addresses by block and one that addresses by byte.        *)
(***************************************************************************)
EXTENDS DiskDriver, TLC

CONSTANTS sdhc, sdsc

MCKind == sdhc :> "block" @@ sdsc :> "byte"
=============================================================================
