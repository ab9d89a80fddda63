---------------------------- MODULE BlockDevice -----------------------------
(***************************************************************************)
(* What the disk driver promises the file system: requests on consecutive  *)
(* sectors of the inserted medium.  OK means that every block was moved; a *)
(* failed write may have changed any of its sectors, and no other; taking  *)
(* the medium out may lose only what no later synchronisation has covered. *)
(***************************************************************************)
EXTENDS Naturals, Sequences

CONSTANTS Media, NoMedia, Sector, Value, Request

NoRequest == [f |-> "none", sector |-> 0, data |-> <<>>]

VARIABLES media, store,     \* the medium inserted, the contents of each
          dirty,            \* its sectors whose last write may still be lost
          req, moved, got,  \* the request, its blocks moved, the blocks read
          ok                \* the last read, write or synchronisation returned RES_OK

vars == <<media, store, dirty, req, moved, got, ok>>

Idle == req = NoRequest

Init ==
    /\ media \in Media \cup {NoMedia} /\ store \in [Media -> [Sector -> Value]]
    /\ dirty = {} /\ req = NoRequest /\ moved = 0 /\ got = <<>> /\ ok = FALSE

Call(r) ==
    /\ Idle
    /\ req' = r /\ moved' = 0 /\ got' = <<>>
    /\ UNCHANGED <<media, store, dirty, ok>>

Read ==
    /\ req.f = "read" /\ moved < Len(req.data) /\ media # NoMedia
    /\ got' = Append(got, store[media][req.sector + moved])
    /\ moved' = moved + 1
    /\ UNCHANGED <<media, store, dirty, req, ok>>

Write ==
    /\ req.f = "write" /\ moved < Len(req.data) /\ media # NoMedia
    /\ store' = [store EXCEPT ![media][req.sector + moved] = req.data[moved + 1]]
    /\ dirty' = {req.sector + moved}
    /\ moved' = moved + 1
    /\ UNCHANGED <<media, req, got, ok>>

\* A sector of the request that has not been written is left undefined.
Spoil(s, v) ==
    /\ req.f = "write" /\ media # NoMedia
    /\ s \in (req.sector + moved)..(req.sector + Len(req.data) - 1)
    /\ store' = [store EXCEPT ![media][s] = v]
    /\ UNCHANGED <<media, dirty, req, moved, got, ok>>

Return(r) ==
    /\ ~Idle
    /\ r => moved = Len(req.data)
    /\ ok' = r
    /\ req' = NoRequest /\ moved' = 0
    /\ UNCHANGED <<media, store, dirty, got>>

\* A read, write or synchronisation that fails at once.
Refuse ==
    /\ Idle /\ ok' = FALSE
    /\ UNCHANGED <<media, store, dirty, req, moved, got>>

\* The medium has stored what it was given.
Settle ==
    /\ dirty' = {}
    /\ UNCHANGED <<media, store, req, moved, got, ok>>

Sync ==
    /\ Idle /\ dirty = {} /\ ok' = TRUE
    /\ UNCHANGED <<media, store, dirty, req, moved, got>>

Remove ==
    /\ media # NoMedia
    /\ \E new \in [Sector -> Value] :
          /\ \A s \in Sector \ dirty : new[s] = store[media][s]
          /\ store' = [store EXCEPT ![media] = new]
    /\ media' = NoMedia /\ dirty' = {}
    /\ UNCHANGED <<req, moved, got, ok>>

Insert(m) ==
    /\ media = NoMedia /\ media' = m
    /\ UNCHANGED <<store, dirty, req, moved, got, ok>>

Next ==
    \/ \E r \in Request : Call(r)
    \/ Read \/ Write \/ Refuse \/ Settle \/ Sync \/ Remove
    \/ \E s \in Sector, v \in Value : Spoil(s, v)
    \/ \E r \in BOOLEAN : Return(r)
    \/ \E m \in Media : Insert(m)

Spec == Init /\ [][Next]_vars
=============================================================================
