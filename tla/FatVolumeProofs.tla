-------------------------- MODULE FatVolumeProofs ---------------------------
(***************************************************************************)
(* The order of the writes of FatVolume keeps the card free of cross links *)
(* for every number of clusters, set of names and layout of the sectors,   *)
(* writes only into the open file's chain, changes no other file and has   *)
(* every closed file on the card.                                          *)
(*                                                                         *)
(* Every write-back makes the card equal to what the code sees, so it is   *)
(* enough that what the code sees is consistent at every step.  It is, up  *)
(* to the two entries a call is about to write: the one of the open file,  *)
(* whose first cluster is in the file object, and the old one of a rename. *)
(***************************************************************************)
EXTENDS FatVolume, TLAPS

\* A window that needs no write-back holds what the card holds.
WindowClean == ~wflag => \A e \in InSector(winsect) : win[e] = disk[e]

\* What the code sees, with the entries it is about to write.
Intended ==
    [e \in Entries |-> IF e = fp.name THEN fp.sclust
                       ELSE IF pc = "rename" /\ e = arg THEN Absent
                       ELSE View[e]]

\* What the file object and the registers hold in the middle of a call.
Registers ==
    /\ fp.name = NoName => fp = NoFile
    /\ fp.clust # Free => fp.sclust # Free
    /\ fp.name # NoName =>
           /\ View[fp.name] # Absent
           /\ ~fp.modified \/ fp.name \notin exposed
                 => View[fp.name] \in {Free, fp.sclust}
    /\ pc \in {"write", "link", "truncate"} => fp.name # NoName
    /\ pc = "link" => fp.clust # Free /\ clst # Free
    /\ pc \in {"sync", "close"} => fp.name # NoName /\ View[fp.name] = fp.sclust
    /\ pc = "overwrite" => fp.name = NoName /\ arg \in Names /\ View[arg] = Free
    /\ pc = "rename" => arg \in Names /\ arg # fp.name

\* The cluster a call works on is out of every chain.
Detached ==
    /\ pc \in Removing \cup {"link"} /\ clst # Free
           => \A e \in Entries : Intended[e] # clst
    /\ pc = "link" => View[clst] # Free

Sound == ~damaged => Consistent(Intended) /\ Detached

Inv == TypeOK /\ WindowClean /\ Registers /\ Sound /\ DiskConsistent

\* The card is left alone or written back.
Stored == (disk' = disk /\ exposed' = exposed) \/ WriteBack

WindowType ==
    /\ disk \in Contents(Entries)
    /\ winsect \in Sectors \cup {NoSector}
    /\ win \in Contents(InSector(winsect))
    /\ wflag \in BOOLEAN
    /\ exposed \subseteq Names

CallType ==
    /\ fp \in FileObjects
    /\ pc \in {"idle", "write", "link"} \cup Flushing \cup Removing \cup Red
    /\ clst \in Clusters \cup {Free}
    /\ arg \in Names \cup {NoName}
    /\ damaged \in BOOLEAN /\ failed \in BOOLEAN

------------------------------------------------------------------------------
(* The window.                                                             *)

\* The window shows an entry of the right kind for every entry of the volume.
LEMMA ViewType ==
    ASSUME WindowType PROVE View \in Contents(Entries)
  BY DEF WindowType, View, At, Contents, InSector

\* Reading through the window changes nothing of what the code sees.
LEMMA GetEffect ==
    ASSUME WindowType, WindowClean, NEW s \in Sectors, Get(s)
    PROVE  View' = View /\ Stored /\ WindowClean' /\ WindowType'
  <1>1. View \in Contents(Entries)
    BY ViewType
  <1>2. Stored
    BY DEF Get, Move, Stored
  <1>3. disk' \in Contents(Entries) /\ exposed' \subseteq Names
    BY <1>1, <1>2 DEF Stored, WriteBack, WindowType
  <1>4. CASE s = winsect
    <2>1. disk' = disk /\ winsect' = winsect /\ win' = win /\ wflag' = wflag /\ exposed' = exposed
      BY <1>4 DEF Get, Move, Window, WindowType
    <2> QED
      BY <2>1, <1>2 DEF View, At, WindowClean, WindowType
  <1>5. CASE s # winsect
    <2>1. winsect' = s /\ win' = [e \in InSector(s) |-> disk[e]] /\ wflag' = FALSE
      BY <1>5 DEF Get, Move, Window
    <2>2. \A e \in Entries : SectorOf[e] # winsect => disk'[e] = disk[e]
      BY <1>5 DEF Get, Move, WriteBack, View, At
    <2>3. \A e \in InSector(s) : disk'[e] = disk[e]
      BY <2>2, <1>5 DEF InSector
    <2>4. disk' = View \/ (~wflag /\ disk' = disk)
      BY <1>5 DEF Get, Move, WriteBack
    <2>5. \A e \in Entries : disk'[e] = At(e)
      BY <2>4 DEF View, At, WindowClean, InSector
    <2>6. \A e \in Entries : At(e)' = disk'[e]
      BY <2>1, <2>3 DEF At, InSector
    <2>7. View' = View
      BY <2>5, <2>6 DEF View
    <2>8. WindowClean'
      BY <2>1, <2>3 DEF WindowClean
    <2>9. win' \in Contents(InSector(winsect'))
      BY <2>1 DEF WindowType, Contents, InSector
    <2> QED
      BY <1>2, <1>3, <2>1, <2>7, <2>8, <2>9 DEF WindowType
  <1> QED
    BY <1>4, <1>5

\* Writing through the window changes the entry and nothing else.
LEMMA PutEffect ==
    ASSUME WindowType, WindowClean, NEW e \in Entries, NEW v \in Holds(e), Put(e, v)
    PROVE  /\ View' = [View EXCEPT ![e] = v]
           /\ Stored /\ WindowClean' /\ WindowType'
  <1> DEFINE s == SectorOf[e]
             old == Window(s)
  <1>0. s \in Sectors /\ e \in InSector(s)
    BY DEF Sectors, InSector
  <1>1. View \in Contents(Entries)
    BY ViewType
  <1>2. Stored
    BY DEF Put, Move, Stored
  <1>3. disk' \in Contents(Entries) /\ exposed' \subseteq Names
    BY <1>1, <1>2 DEF Stored, WriteBack, WindowType
  <1>4. winsect' = s /\ win' = [old EXCEPT ![e] = v] /\ wflag' = TRUE
    BY DEF Put, Move
  <1>5. old \in Contents(InSector(s))
    BY DEF Window, WindowType, Contents, InSector
  <1>6. \A d \in InSector(s) : old[d] = At(d)
    BY DEF Window, At, InSector
  <1>7. v \in Values
    BY DEF Holds, Values
  <1>8. win' \in Contents(InSector(winsect'))
    BY <1>0, <1>4, <1>5, <1>7 DEF Contents
  <1>9. \A d \in Entries : SectorOf[d] # s => disk'[d] = At(d)
    <2>1. CASE s # winsect /\ wflag
      BY <2>1 DEF Put, Move, WriteBack, View
    <2>2. CASE ~(s # winsect /\ wflag)
      <3>1. disk' = disk
        BY <2>2 DEF Put, Move
      <3> QED
        BY <3>1, <2>2 DEF At, WindowClean, InSector
    <2> QED
      BY <2>1, <2>2
  <1>10. \A d \in Entries : At(d)' = IF d = e THEN v ELSE At(d)
    BY <1>0, <1>4, <1>5, <1>6, <1>9 DEF At, InSector, Contents
  <1>11. View' = [View EXCEPT ![e] = v]
    BY <1>10 DEF View
  <1> QED
    BY <1>0, <1>2, <1>3, <1>4, <1>8, <1>11 DEF WindowType, WindowClean

\* Giving the window up, once it is written back, shows the card's contents,
\* which are the same.
LEMMA UnloadEffect ==
    ASSUME WindowType, WindowClean, Unload,
           IF wflag THEN WriteBack ELSE UNCHANGED <<disk, exposed>>
    PROVE  View' = View /\ Stored /\ WindowClean' /\ WindowType'
  <1>1. \A e \in Entries : SectorOf[e] # NoSector
    BY VolumeOK DEF Sectors
  <1>2. InSector(winsect') = {} /\ win' \in [{} -> Values] /\ wflag' = FALSE
    BY <1>1 DEF Unload, InSector
  <1>3. View \in Contents(Entries)
    BY ViewType
  <1>4. Stored
    BY DEF Stored
  <1>5. disk' \in Contents(Entries) /\ exposed' \subseteq Names
    BY <1>3, <1>4 DEF Stored, WriteBack, WindowType
  <1>6. \A e \in Entries : disk'[e] = At(e)
    BY DEF WriteBack, View, At, WindowClean, InSector
  <1>7. \A e \in Entries : At(e)' = disk'[e]
    BY <1>1 DEF Unload, At
  <1>8. View' = View
    BY <1>6, <1>7 DEF View
  <1>9. winsect' = NoSector /\ win' \in Contents(InSector(winsect'))
    BY <1>2 DEF Unload, Contents
  <1> QED
    BY <1>2, <1>4, <1>5, <1>8, <1>9 DEF WindowType, WindowClean

\* A failed move_window shows the same volume before and after.
LEMMA MoveFailsEffect ==
    ASSUME WindowType, WindowClean, MoveFails
    PROVE  View' = View /\ Stored /\ WindowClean' /\ WindowType'
  <1>1. CASE wflag /\ UNCHANGED window
    BY <1>1 DEF window, View, At, Stored, WindowClean, WindowType
  <1>2. CASE /\ IF wflag THEN WriteBack ELSE UNCHANGED <<disk, exposed>>
             /\ Unload
    BY <1>2, UnloadEffect
  <1> QED
    BY <1>1, <1>2 DEF MoveFails

\* sync_window, called by sync_fs, makes the card equal to what the code sees.
LEMMA FlushEffect ==
    ASSUME WindowType, WindowClean, wflag' = FALSE, UNCHANGED <<win, winsect>>,
           IF wflag THEN WriteBack ELSE UNCHANGED <<disk, exposed>>
    PROVE  View' = View /\ disk' = View /\ Stored /\ WindowClean' /\ WindowType'
  <1>1. View \in Contents(Entries)
    BY ViewType
  <1>2. Stored
    BY DEF Stored
  <1>3. disk' \in Contents(Entries) /\ exposed' \subseteq Names
    BY <1>1, <1>2 DEF Stored, WriteBack, WindowType
  <1>4. \A e \in Entries : disk'[e] = At(e)
    BY DEF WriteBack, View, At, WindowClean, InSector
  <1>5. disk' = View
    BY <1>3, <1>4 DEF View, Contents
  <1>6. \A e \in Entries : At(e)' = At(e)
    BY <1>4 DEF At
  <1>7. View' = View
    BY <1>6 DEF View
  <1>8. WindowClean'
    BY <1>4 DEF At, WindowClean, InSector
  <1> QED
    BY <1>2, <1>3, <1>5, <1>7, <1>8 DEF WindowType

------------------------------------------------------------------------------
(* Consistent volumes.                                                     *)

\* Clusters and names are different things.
LEMMA Kinds ==
    /\ Clusters \cap Names = {} /\ Free \notin Clusters /\ EOC \notin Clusters
    /\ Absent \notin Clusters /\ NoName \notin Entries
    /\ Clusters \subseteq Int /\ Entries = Clusters \cup Names
  BY VolumeOK DEF Clusters, Entries, Free, EOC, Absent

\* An entry may stop pointing to a cluster, which then is out of every chain.
LEMMA Drop ==
    ASSUME NEW v \in [Entries -> Values], Consistent(v),
           NEW e \in Entries, NEW x \in Values, x \notin Clusters,
           x = Free => \A d \in Entries : v[d] # e,
           NEW w, w = [v EXCEPT ![e] = x]
    PROVE  /\ Consistent(w)
           /\ v[e] \in Clusters => \A d \in Entries : w[d] # v[e]
  <1>1. \A d \in Entries : w[d] = IF d = e THEN x ELSE v[d]
    OBVIOUS
  <1>2. \A d \in Entries : w[d] \in Clusters => w[w[d]] # Free
    <2> SUFFICES ASSUME NEW d \in Entries, w[d] \in Clusters
                 PROVE  w[w[d]] # Free
      OBVIOUS
    <2>1. d # e /\ w[d] = v[d] /\ v[d] \in Entries
      BY <1>1, Kinds
    <2>2. v[v[d]] # Free
      BY <2>1 DEF Consistent
    <2> QED
      BY <1>1, <2>1, <2>2
  <1>3. \A c, d \in Entries : w[c] = w[d] /\ w[c] \in Clusters => c = d
    BY <1>1 DEF Consistent
  <1>4. v[e] \in Clusters => \A d \in Entries : w[d] # v[e]
    BY <1>1 DEF Consistent
  <1> QED
    BY <1>2, <1>3, <1>4 DEF Consistent

\* An entry may start to point to a cluster that is in use and in no chain.
LEMMA Add ==
    ASSUME NEW v \in [Entries -> Values], Consistent(v),
           NEW e \in Entries, NEW c \in Clusters, v[c] # Free,
           \A d \in Entries : v[d] # c,
           NEW w, w = [v EXCEPT ![e] = c]
    PROVE  Consistent(w)
  <1>1. \A d \in Entries : w[d] = IF d = e THEN c ELSE v[d]
    OBVIOUS
  <1>2. \A d \in Entries : w[d] \in Clusters => w[w[d]] # Free
    <2> SUFFICES ASSUME NEW d \in Entries, w[d] \in Clusters
                 PROVE  w[w[d]] # Free
      OBVIOUS
    <2>1. w[d] \in Entries /\ v[w[d]] # Free
      BY <1>1, Kinds DEF Consistent
    <2> QED
      BY <1>1, <2>1, Kinds
  <1>3. \A b, d \in Entries : w[b] = w[d] /\ w[b] \in Clusters => b = d
    BY <1>1 DEF Consistent
  <1> QED
    BY <1>2, <1>3 DEF Consistent

\* Nothing points to a free cluster.
LEMMA FreeIsUnused ==
    ASSUME NEW v \in [Entries -> Values], Consistent(v),
           NEW c \in Clusters, v[c] = Free
    PROVE  \A d \in Entries : v[d] # c
  BY DEF Consistent

------------------------------------------------------------------------------
(* Chains.                                                                 *)

\* A chain has its start and, with a cluster, the next one.
LEMMA ChainClosed ==
    ASSUME NEW v, NEW s
    PROVE  /\ Chain(v, s) \subseteq Clusters
           /\ s \in Clusters => s \in Chain(v, s)
           /\ Closed(v, Chain(v, s))
  BY DEF Chain, Closed

\* It is the least such set.
LEMMA ChainLeast ==
    ASSUME NEW v, NEW s, NEW S \in SUBSET Clusters,
           s \in Clusters => s \in S, Closed(v, S)
    PROVE  Chain(v, s) \subseteq S
  BY DEF Chain

\* A cluster of a chain is its start, or another cluster of it points to it.
LEMMA ChainMember ==
    ASSUME NEW v, NEW s, NEW c \in Chain(v, s), c # s
    PROVE  \E b \in Chain(v, s) : v[b] = c
  <1> SUFFICES ASSUME \A b \in Chain(v, s) : v[b] # c PROVE FALSE
    OBVIOUS
  <1> DEFINE S == Chain(v, s) \ {c}
  <1>1. S \in SUBSET Clusters /\ (s \in Clusters => s \in S) /\ Closed(v, S)
    BY ChainClosed DEF Closed
  <1>2. Chain(v, s) \subseteq S
    BY <1>1, ChainLeast
  <1> QED
    BY <1>2

\* A chain depends only on what its own clusters hold.
LEMMA ChainSame ==
    ASSUME NEW v, NEW w, NEW s, \A c \in Chain(v, s) : w[c] = v[c]
    PROVE  Chain(w, s) = Chain(v, s)
  <1>1. Chain(w, s) \subseteq Chain(v, s)
    <2>1. Closed(w, Chain(v, s))
      BY ChainClosed DEF Closed
    <2> QED
      BY <2>1, ChainClosed, ChainLeast
  <1>2. Chain(v, s) \subseteq Chain(w, s)
    <2> DEFINE S == Chain(v, s) \cap Chain(w, s)
    <2>1. Closed(v, S)
      BY ChainClosed DEF Closed
    <2>2. S \in SUBSET Clusters /\ (s \in Clusters => s \in S)
      BY ChainClosed
    <2>3. Chain(v, s) \subseteq S
      BY <2>1, <2>2, ChainLeast
    <2> QED
      BY <2>3
  <1> QED
    BY <1>1, <1>2

\* Whatever is written to a cluster of a chain, the cluster stays in it.
LEMMA ChainReaches ==
    ASSUME NEW v, NEW w, NEW s, NEW c \in Chain(v, s),
           \A d \in Clusters \ {c} : w[d] = v[d]
    PROVE  c \in Chain(w, s)
  <1> SUFFICES ASSUME c \notin Chain(w, s) PROVE FALSE
    OBVIOUS
  <1>1. \A d \in Chain(w, s) : v[d] = w[d]
    BY ChainClosed
  <1>2. Chain(v, s) = Chain(w, s)
    BY <1>1, ChainSame
  <1> QED
    BY <1>2

\* The chains of two names of a consistent volume have no cluster in common.
LEMMA ChainsDisjoint ==
    ASSUME NEW v \in [Entries -> Values], Consistent(v),
           NEW m \in Names, NEW n \in Names, m # n
    PROVE  Chain(v, v[m]) \cap Chain(v, v[n]) = {}
  <1> DEFINE A == Chain(v, v[m])
             B == Chain(v, v[n])
  <1>0. /\ m \in Entries /\ n \in Entries /\ m \notin Clusters /\ n \notin Clusters
        /\ Clusters \subseteq Entries /\ A \subseteq Clusters /\ B \subseteq Clusters
    BY Kinds, ChainClosed
  <1>1. v[m] \in Clusters => v[m] \notin B
    <2> SUFFICES ASSUME v[m] \in Clusters, v[m] \in B PROVE FALSE
      OBVIOUS
    <2>1. v[m] # v[n]
      BY <1>0 DEF Consistent
    <2>2. PICK b \in B : v[b] = v[m]
      BY <2>1, ChainMember
    <2> QED
      BY <1>0, <2>2 DEF Consistent
  <1>2. \A a \in A : v[a] \in Clusters /\ v[a] \in B => a \in B
    <2> SUFFICES ASSUME NEW a \in A, v[a] \in Clusters, v[a] \in B, a \notin B PROVE FALSE
      OBVIOUS
    <2>1. v[a] # v[n]
      BY <1>0 DEF Consistent
    <2>2. PICK b \in B : v[b] = v[a]
      BY <2>1, ChainMember
    <2> QED
      BY <1>0, <2>2 DEF Consistent
  <1>3. Closed(v, A \ B)
    BY <1>2, ChainClosed DEF Closed
  <1>4. A \ B \in SUBSET Clusters /\ (v[m] \in Clusters => v[m] \in A \ B)
    BY <1>0, <1>1, ChainClosed
  <1>5. A \subseteq A \ B
    BY <1>3, <1>4, ChainLeast
  <1> QED
    BY <1>5

\* A cluster to which nothing points is in the chain of no entry.
LEMMA ChainAvoids ==
    ASSUME NEW v, NEW c \in Clusters, \A d \in Entries : v[d] # c,
           NEW e \in Entries
    PROVE  c \notin Chain(v, v[e])
  BY ChainMember, ChainClosed, Kinds

------------------------------------------------------------------------------
(* What the invariant says of a step.                                      *)

\* The type invariant in two halves: the card with the window, and the call.
LEMMA Types == TypeOK <=> WindowType /\ CallType
  BY DEF TypeOK, WindowType, CallType

\* What the code sees and intends are maps of the entries, equal on the FAT.
LEMMA Volume ==
    ASSUME Inv
    PROVE  /\ View \in [Entries -> Values] /\ \A e \in Entries : View[e] \in Holds(e)
           /\ Intended \in [Entries -> Values]
           /\ \A c \in Clusters : Intended[c] = View[c]
           /\ WindowType /\ CallType /\ WindowClean
  <1>1. WindowType /\ CallType /\ WindowClean
    BY Types DEF Inv
  <1>2. View \in [Entries -> Values] /\ \A e \in Entries : View[e] \in Holds(e)
    BY <1>1, ViewType DEF Contents
  <1>3. fp.sclust \in Values /\ Absent \in Values
    BY <1>1 DEF CallType, FileObjects, Values
  <1>4. Intended \in [Entries -> Values]
    BY <1>2, <1>3 DEF Intended
  <1>5. \A c \in Clusters : c \in Entries /\ c # fp.name /\ c # arg
    BY <1>1, Kinds DEF CallType, FileObjects
  <1> QED
    BY <1>1, <1>2, <1>4, <1>5 DEF Intended

\* Unless the open file's entry is out of date, what the code sees is
\* consistent, not only what it intends.
LEMMA ViewConsistent ==
    ASSUME Inv, ~damaged, pc # "rename",
           fp.name = NoName \/ fp.name \notin exposed \/ View[fp.name] = fp.sclust
    PROVE  Consistent(View)
  <1>1. Consistent(Intended)
    BY DEF Inv, Sound
  <1>2. fp.name # NoName => View[fp.name] \in {Free, fp.sclust}
    BY DEF Inv, Registers
  <1>3. \A e \in Entries : View[e] \in Clusters => View[e] = Intended[e]
    BY <1>2, Kinds DEF Intended
  <1>4. \A c \in Clusters : c \in Entries /\ Intended[c] = View[c]
    BY Volume, Kinds
  <1> QED
    BY <1>1, <1>3, <1>4 DEF Consistent

\* The card stays consistent when it is left alone or written back.
LEMMA CardKept ==
    ASSUME Inv, (disk' = disk /\ exposed \subseteq exposed') \/ WriteBack,
           damaged => damaged', pc \in Red /\ pc' \notin Red => damaged'
    PROVE  DiskConsistent'
  <1> SUFFICES ASSUME ~damaged', pc' \notin Red, exposed' = {}
               PROVE  Consistent(disk')
    BY DEF DiskConsistent, Consistent
  <1>1. ~damaged /\ pc \notin Red /\ pc # "rename"
    BY DEF Red
  <1>2. CASE disk' = disk /\ exposed \subseteq exposed'
    BY <1>1, <1>2 DEF Inv, DiskConsistent
  <1>3. CASE WriteBack
    <2>1. disk' = View /\ (fp.name \in exposed => At(fp.name) = fp.sclust)
      BY <1>3 DEF WriteBack
    <2>2. fp.name \in Names => View[fp.name] = At(fp.name)
      BY Kinds DEF View
    <2>3. Consistent(View)
      BY <1>1, <2>1, <2>2, ViewConsistent DEF Inv, TypeOK, FileObjects
    <2> QED
      BY <2>1, <2>3
  <1> QED
    BY <1>2, <1>3

\* Whatever a step writes back, the open file's entry is up to date or known
\* not to be.
LEMMA NamedKept ==
    ASSUME Inv, Stored, fp.name # NoName, ~fp.modified \/ fp.name \notin exposed'
    PROVE  View[fp.name] \in {Free, fp.sclust}
  <1>1. fp.name \in Names /\ fp.name \in Entries /\ View[fp.name] = At(fp.name)
    BY Kinds DEF Inv, TypeOK, FileObjects, View
  <1> QED
    BY <1>1 DEF Inv, Registers, Stored, WriteBack

\* The special values are different from each other.
LEMMA Constants ==
    /\ Free \in Values /\ EOC \in Values /\ Absent \in Values
    /\ Free # Absent /\ Free # EOC /\ EOC # Absent
  BY DEF Values, Free, EOC, Absent

\* No entry holds a name.
LEMMA NamesUnused ==
    ASSUME Inv, NEW n \in Names PROVE \A d \in Entries : Intended[d] # n
  <1>1. n \notin Values
    BY VolumeOK DEF Values, Clusters, Free, EOC, Absent
  <1> QED
    BY <1>1, Volume

\* A directory entry may be emptied or removed: the file's first cluster is
\* then out of every chain.
LEMMA Emptied ==
    ASSUME Inv, ~damaged, NEW n \in Names, NEW x \in {Free, Absent},
           NEW w, w = [Intended EXCEPT ![n] = x]
    PROVE  /\ Consistent(w)
           /\ Intended[n] \in Clusters => \A d \in Entries : w[d] # Intended[n]
  <1>1. Consistent(Intended) /\ \A d \in Entries : Intended[d] # n
    BY NamesUnused DEF Inv, Sound
  <1>2. n \in Entries /\ x \in Values /\ x \notin Clusters
    BY Kinds, Constants
  <1>3. Intended \in [Entries -> Values]
    BY Volume
  <1> QED
    BY <1>1, <1>2, <1>3, Drop

------------------------------------------------------------------------------
(* The actions.                                                            *)

\* Searching and reading only move the window.
LEMMA ScanStep == ASSUME Inv, NEW s \in Sectors, Scan(s) PROVE Inv'
  <1>1. View' = View /\ Stored /\ WindowClean' /\ WindowType'
    BY Volume, GetEffect DEF Scan
  <1>2. UNCHANGED <<fp, pc, clst, arg, damaged, failed>>
    BY DEF Scan, call, history
  <1>3. TypeOK'
    BY <1>1, <1>2, Volume DEF TypeOK, WindowType, CallType
  <1>4. Registers'
    BY <1>1, <1>2, NamedKept DEF Inv, Registers
  <1>5. Intended' = Intended
    BY <1>1, <1>2 DEF Intended
  <1>6. Sound'
    BY <1>1, <1>2, <1>5 DEF Inv, Sound, Detached, Consistent
  <1>7. DiskConsistent'
    BY <1>1, <1>2, CardKept DEF Stored
  <1> QED
    BY <1>1, <1>3, <1>4, <1>6, <1>7 DEF Inv

\* f_open takes the first cluster from the directory entry.
LEMMA OpenFileStep ==
    ASSUME Inv, NEW n \in Names, NEW w \in BOOLEAN, OpenFile(n, w) PROVE Inv'
  <1>0. n \in Entries /\ n # NoName /\ SectorOf[n] \in Sectors /\ View[n] = At(n)
    BY Kinds DEF Sectors, View
  <1>1. View' = View /\ Stored /\ WindowClean' /\ WindowType'
    BY <1>0, Volume, GetEffect DEF OpenFile
  <1>2. /\ UNCHANGED <<pc, clst, arg, damaged, failed>> /\ pc = "idle"
        /\ fp.name = NoName /\ View[n] # Absent
        /\ fp' = Opened(n, w, View[n], FALSE)
    BY <1>0 DEF OpenFile, Idle, call, history
  <1>3. View[n] \in Clusters \cup {Free}
    BY <1>0, <1>2, Volume DEF Holds
  <1>4. /\ fp'.name = n /\ fp'.sclust = View[n] /\ fp'.clust = Free
        /\ fp' \in FileObjects
    BY <1>2, <1>3 DEF Opened, NoFile, FileObjects
  <1>5. TypeOK'
    BY <1>1, <1>2, <1>4, Volume DEF TypeOK, WindowType, CallType
  <1>6. Registers'
    BY <1>0, <1>1, <1>2, <1>4 DEF Registers
  <1>7. Intended' = Intended
    BY <1>1, <1>2, <1>4, Kinds DEF Intended
  <1>8. Sound'
    BY <1>1, <1>2, <1>7 DEF Inv, Sound, Detached, Consistent, Removing
  <1>9. DiskConsistent'
    BY <1>1, <1>2, CardKept DEF Stored
  <1> QED
    BY <1>1, <1>5, <1>6, <1>8, <1>9 DEF Inv

\* A new entry starts without clusters.
LEMMA CreateFileStep ==
    ASSUME Inv, NEW n \in Names, CreateFile(n) PROVE Inv'
  <1>0. n \in Entries /\ n # NoName /\ Free \in Holds(n) /\ n \notin Clusters
    BY Kinds DEF Holds
  <1>1. View' = [View EXCEPT ![n] = Free] /\ Stored /\ WindowClean' /\ WindowType'
    BY <1>0, Volume, PutEffect DEF CreateFile
  <1>2. /\ UNCHANGED <<pc, clst, arg, damaged, failed>> /\ pc = "idle"
        /\ fp.name = NoName
        /\ fp' = Opened(n, TRUE, Free, TRUE)
    BY <1>0 DEF CreateFile, Idle, call, history
  <1>4. /\ fp'.name = n /\ fp'.sclust = Free /\ fp'.clust = Free
        /\ fp' \in FileObjects
    BY <1>2 DEF Opened, NoFile, FileObjects
  <1>5. TypeOK'
    BY <1>1, <1>2, <1>4, Volume DEF TypeOK, WindowType, CallType
  <1>6. View'[n] = Free /\ Free # Absent
    BY <1>0, <1>1, Volume DEF Free, Absent
  <1>7. Registers'
    BY <1>0, <1>2, <1>4, <1>6 DEF Registers
  <1>8. Intended' = [Intended EXCEPT ![n] = Free]
    BY <1>0, <1>1, <1>2, <1>4, Volume, Kinds DEF Intended
  <1>9. ~damaged => Consistent(Intended')
    BY <1>8, Emptied
  <1>10. Sound'
    BY <1>2, <1>9 DEF Sound, Detached, Removing, Consistent
  <1>11. DiskConsistent'
    BY <1>1, <1>2, CardKept DEF Stored
  <1> QED
    BY <1>1, <1>5, <1>7, <1>10, <1>11 DEF Inv

\* The chain of an overwritten file is cut off before it is removed.
LEMMA OverwriteStep ==
    ASSUME Inv, NEW n \in Names, Overwrite(n) PROVE Inv'
  <1>0. n \in Entries /\ n # NoName /\ Free \in Holds(n) /\ View[n] = At(n)
    BY Kinds DEF Holds, View
  <1>1. View' = [View EXCEPT ![n] = Free] /\ Stored /\ WindowClean' /\ WindowType'
    BY <1>0, Volume, PutEffect DEF Overwrite
  <1>2. /\ UNCHANGED <<fp, damaged, failed>> /\ fp.name = NoName /\ pc = "idle"
        /\ pc' = "overwrite" /\ clst' = View[n] /\ arg' = n /\ View[n] # Absent
    BY <1>0 DEF Overwrite, Idle, history
  <1>3. TypeOK'
    BY <1>0, <1>1, <1>2, Volume DEF TypeOK, WindowType, CallType, Holds, Removing
  <1>4. View'[n] = Free /\ fp = NoFile
    BY <1>0, <1>1, <1>2, Volume DEF Inv, Registers
  <1>5. Registers'
    BY <1>0, <1>2, <1>4 DEF Registers, NoFile
  <1>6. Intended' = [Intended EXCEPT ![n] = Free] /\ Intended[n] = View[n]
    BY <1>0, <1>1, <1>2, Volume, Kinds DEF Intended
  <1>7. Sound'
    <2> SUFFICES ASSUME ~damaged PROVE Consistent(Intended') /\ Detached'
      BY <1>2 DEF Sound, Consistent
    <2>1. /\ Consistent(Intended')
          /\ Intended[n] \in Clusters => \A d \in Entries : Intended'[d] # Intended[n]
      BY <1>6, Emptied
    <2> QED
      BY <1>2, <1>3, <1>6, <2>1 DEF Detached, TypeOK
  <1>8. DiskConsistent'
    BY <1>1, <1>2, CardKept DEF Stored, Red
  <1> QED
    BY <1>1, <1>3, <1>5, <1>7, <1>8 DEF Inv

\* f_sync writes the entry as it was intended.
LEMMA SyncEntryStep ==
    ASSUME Inv, NEW next \in {"sync", "close"}, SyncEntry(next) PROVE Inv'
  <1>0. /\ fp.name \in Names /\ fp.name \in Entries /\ fp.name # NoName
        /\ fp.sclust \in Holds(fp.name) /\ fp.sclust \in Clusters \cup {Free}
    BY Volume, Kinds DEF SyncEntry, Inv, Registers, NoFile, CallType, FileObjects, Holds
  <1>1. /\ View' = [View EXCEPT ![fp.name] = fp.sclust]
        /\ Stored /\ WindowClean' /\ WindowType'
    BY <1>0, Volume, PutEffect DEF SyncEntry
  <1>2. /\ UNCHANGED <<fp, clst, arg, damaged, failed>> /\ pc = "idle"
        /\ pc' = next
    BY DEF SyncEntry, Idle, history
  <1>3. TypeOK'
    BY <1>1, <1>2, Volume DEF TypeOK, WindowType, CallType, Flushing
  <1>4. View'[fp.name] = fp.sclust /\ fp.sclust # Absent
    BY <1>0, <1>1, Volume, Kinds DEF Free, Absent
  <1>5. Registers'
    BY <1>0, <1>2, <1>4 DEF Inv, Registers
  <1>6. Intended' = Intended
    BY <1>0, <1>1, <1>2, Volume DEF Intended
  <1>7. Sound'
    BY <1>2, <1>6 DEF Inv, Sound, Detached, Consistent, Removing
  <1>8. DiskConsistent'
    BY <1>1, <1>2, CardKept DEF Stored, Red
  <1> QED
    BY <1>1, <1>3, <1>5, <1>7, <1>8 DEF Inv

\* An unchanged file has its entry up to date, or loses a first cluster.
LEMMA CloseCleanStep == ASSUME Inv, CloseClean PROVE Inv'
  <1>0. fp.name \in Names /\ fp.name \in Entries /\ fp.name \notin Clusters
    BY Volume, Kinds DEF CloseClean, CallType, FileObjects
  <1>1. View' = View /\ WindowClean' /\ WindowType' /\ UNCHANGED <<disk, exposed>>
    BY Volume DEF CloseClean, window, View, At, WindowClean, WindowType
  <1>2. /\ UNCHANGED <<pc, clst, arg, damaged, failed>> /\ pc = "idle" /\ fp' = NoFile
    BY DEF CloseClean, Idle, call, history
  <1>3. TypeOK'
    BY <1>1, <1>2, Volume DEF TypeOK, WindowType, CallType, FileObjects, NoFile
  <1>4. Registers'
    BY <1>2 DEF Registers, NoFile
  <1>5. Intended' = [Intended EXCEPT ![fp.name] = View[fp.name]]
    BY <1>0, <1>1, <1>2, Volume, Kinds DEF Intended, NoFile
  <1>6. View[fp.name] \in {Free, fp.sclust} /\ Intended[fp.name] = fp.sclust
    BY <1>0 DEF CloseClean, Inv, Registers, Intended
  <1>7. ~damaged => Consistent(Intended')
    <2> HAVE ~damaged
    <2>1. CASE View[fp.name] = fp.sclust
      <3>1. Intended' = Intended
        BY <1>5, <1>6, <2>1, Volume
      <3> QED
        BY <3>1 DEF Inv, Sound
    <2>2. CASE View[fp.name] = Free
      BY <1>0, <1>5, <2>2, Emptied
    <2> QED
      BY <1>6, <2>1, <2>2
  <1>8. Sound'
    BY <1>2, <1>7 DEF Sound, Detached, Consistent, Removing
  <1>9. DiskConsistent'
    BY <1>1, <1>2, CardKept
  <1> QED
    BY <1>1, <1>3, <1>4, <1>8, <1>9 DEF Inv

\* After sync_fs the card holds what the code sees.
LEMMA FlushStep == ASSUME Inv, Flush PROVE Inv'
  <1>1. /\ View' = View /\ disk' = View /\ Stored /\ WindowClean' /\ WindowType'
    BY Volume, FlushEffect DEF Flush
  <1>2. /\ UNCHANGED <<clst, arg, damaged, failed>> /\ pc \in Flushing /\ pc' = "idle"
        /\ pc = "sync" => fp' = [fp EXCEPT !.modified = FALSE]
        /\ pc = "close" => fp' = NoFile
        /\ pc \in {"flush", "renameFlush"} => fp' = fp
    BY DEF Flush, Flushing, history
  <1>3. pc \in {"sync", "close", "flush", "renameFlush"}
    BY <1>2 DEF Flushing
  <1>4. TypeOK'
    <2>1. NoFile \in FileObjects /\ [fp EXCEPT !.modified = FALSE] \in FileObjects
      BY Volume DEF CallType, FileObjects, NoFile
    <2>2. fp' \in FileObjects
      BY <1>2, <1>3, <2>1, Volume DEF CallType
    <2> QED
      BY <1>1, <1>2, <2>2, Volume DEF TypeOK, WindowType, CallType
  <1>5. Registers'
    <2>1. CASE pc = "sync"
      BY <1>1, <1>2, <2>1, Volume DEF Inv, Registers, CallType, FileObjects, NoFile
    <2>2. CASE pc = "close"
      BY <1>2, <2>2 DEF Registers, NoFile
    <2>3. CASE pc \in {"flush", "renameFlush"}
      BY <1>1, <1>2, <2>3, NamedKept DEF Inv, Registers
    <2> QED
      BY <1>3, <2>1, <2>2, <2>3
  <1>6. Intended' = Intended
    <2>1. CASE pc = "sync"
      BY <1>1, <1>2, <2>1, Volume DEF Intended, CallType, FileObjects
    <2>2. CASE pc = "close"
      BY <1>1, <1>2, <2>2, Kinds DEF Inv, Registers, Intended, NoFile
    <2>3. CASE pc \in {"flush", "renameFlush"}
      BY <1>1, <1>2, <2>3 DEF Intended
    <2> QED
      BY <1>3, <2>1, <2>2, <2>3
  <1>7. Sound'
    BY <1>2, <1>6 DEF Inv, Sound, Detached, Consistent, Removing
  <1>8. DiskConsistent'
    <2> SUFFICES ASSUME ~damaged, exposed' = {} PROVE Consistent(View)
      BY <1>1, <1>2 DEF DiskConsistent, Consistent
    <2>1. fp.name \in Names => View[fp.name] = At(fp.name)
      BY Kinds DEF View
    <2>2. fp.name \in exposed => View[fp.name] = fp.sclust
      BY <1>1, <2>1, Volume DEF Stored, WriteBack, WindowType
    <2> QED
      BY <1>3, <2>2, ViewConsistent
  <1> QED
    BY <1>1, <1>4, <1>5, <1>7, <1>8 DEF Inv

\* A failed sync_fs leaves what the code sees.
LEMMA FlushFailsStep == ASSUME Inv, FlushFails PROVE Inv'
  <1>1. View' = View /\ Stored /\ WindowClean' /\ WindowType'
    <2>1. CASE wflag /\ UNCHANGED window
      BY <2>1, Volume DEF window, View, At, Stored, WindowClean, WindowType
    <2>2. CASE ~(wflag /\ UNCHANGED window)
      BY <2>2, Volume, FlushEffect DEF FlushFails
    <2> QED
      BY <2>1, <2>2
  <1>2. /\ UNCHANGED <<clst, arg>> /\ pc \in Flushing /\ pc' = "idle"
        /\ damaged' = (damaged \/ pc \in Red) /\ failed' = TRUE
        /\ fp' = IF pc \in {"sync", "close"} THEN [fp EXCEPT !.modified = FALSE] ELSE fp
    BY DEF FlushFails
  <1>3. TypeOK'
    BY <1>1, <1>2, Volume DEF TypeOK, WindowType, CallType, FileObjects
  <1>4. /\ fp'.name = fp.name /\ fp'.sclust = fp.sclust /\ fp'.clust = fp.clust
        /\ fp.name = NoName => fp' = fp
    BY <1>2, Volume DEF Inv, Registers, NoFile, CallType, FileObjects
  <1>5. Registers'
    <2>1. CASE pc \in {"sync", "close"}
      BY <1>1, <1>2, <1>4, <2>1 DEF Inv, Registers
    <2>2. CASE pc \notin {"sync", "close"}
      BY <1>1, <1>2, <2>2, NamedKept DEF Inv, Registers
    <2> QED
      BY <2>1, <2>2
  <1>6. Intended' = Intended
    BY <1>1, <1>2, <1>4 DEF Intended, Flushing
  <1>7. Sound'
    BY <1>2, <1>6 DEF Inv, Sound, Detached, Consistent, Removing
  <1>8. DiskConsistent'
    BY <1>1, <1>2, CardKept DEF Stored
  <1> QED
    BY <1>1, <1>3, <1>5, <1>7, <1>8 DEF Inv

\* A step that only moves the file pointer, or sets FA_MODIFIED.
LEMMA FileMoved ==
    ASSUME Inv, View' = View, Stored, WindowClean', WindowType',
           UNCHANGED <<clst, arg, damaged>>, failed' \in BOOLEAN,
           pc \in {"idle", "write"}, pc' \in {"idle", "write"},
           fp.name # NoName, fp' \in FileObjects, fp'.name = fp.name,
           fp'.sclust = fp.sclust, fp'.clust # Free => fp.sclust # Free,
           fp.modified => fp'.modified
    PROVE  Inv'
  <1>1. TypeOK'
    BY Volume DEF TypeOK, WindowType, CallType
  <1>2. ~fp'.modified \/ fp.name \notin exposed' => View[fp.name] \in {Free, fp.sclust}
    BY NamedKept
  <1>3. Registers'
    BY <1>2 DEF Inv, Registers
  <1>4. Intended' = Intended
    BY DEF Intended
  <1>5. Sound'
    BY <1>4 DEF Inv, Sound, Detached, Consistent, Removing
  <1>6. DiskConsistent'
    BY CardKept DEF Stored, Red
  <1> QED
    BY <1>1, <1>3, <1>5, <1>6 DEF Inv

\* A file that may be read or written is open.
LEMMA UsingFile ==
    ASSUME Inv, Using
    PROVE  /\ pc = "idle" /\ fp.name # NoName
           /\ fp.name \in Names /\ fp.name \in Entries /\ fp.name \notin Clusters
  BY Volume, Kinds DEF Using, Idle, CallType, FileObjects

\* So is a file that is being written.
LEMMA GrowingFile ==
    ASSUME Inv, Using \/ Growing \/ pc = "write"
    PROVE  /\ pc \in {"idle", "write"} /\ fp.name # NoName
           /\ fp.name \in Names /\ fp.name \in Entries /\ fp.name \notin Clusters
  BY UsingFile, Volume, Kinds DEF Growing, Writing, Inv, Registers, CallType, FileObjects

\* Reaching a cluster keeps the file, and its first cluster if it had one.
LEMMA ReachedFile ==
    ASSUME Inv, NEW c \in Clusters, NEW wrote \in BOOLEAN, Reached(c, wrote)
    PROVE  /\ fp' \in FileObjects /\ fp'.name = fp.name /\ fp'.clust = c
           /\ fp'.sclust = IF fp.sclust = Free THEN c ELSE fp.sclust
           /\ fp.modified => fp'.modified
           /\ failed' \in BOOLEAN /\ pc' \in {"idle", "write"}
  BY Volume DEF Reached, CallType, FileObjects

\* A step that does not use the window keeps what the code sees.
LEMMA NoAccess ==
    ASSUME Inv, UNCHANGED window
    PROVE  View' = View /\ Stored /\ WindowClean' /\ WindowType'
  BY Volume DEF window, View, At, Stored, WindowClean, WindowType

\* f_lseek to the top.
LEMMA RewindStep == ASSUME Inv, Rewind PROVE Inv'
  <1>1. fp' \in FileObjects /\ fp' = [fp EXCEPT !.clust = Free]
    BY Volume DEF Rewind, CallType, FileObjects
  <1>2. /\ fp'.name = fp.name /\ fp'.sclust = fp.sclust /\ fp'.clust = Free
        /\ fp'.modified = fp.modified
    BY <1>1, Volume DEF CallType, FileObjects
  <1> QED
    BY <1>1, <1>2, UsingFile, NoAccess, FileMoved, Volume DEF Rewind, call, history, CallType

\* A write that finds no cluster.
LEMMA DiskFullStep == ASSUME Inv, DiskFull PROVE Inv'
  <1>1. fp' \in FileObjects /\ fp' = [fp EXCEPT !.modified = TRUE]
    BY Volume DEF DiskFull, CallType, FileObjects
  <1>2. /\ fp'.name = fp.name /\ fp'.sclust = fp.sclust /\ fp'.clust = fp.clust
        /\ fp'.modified = TRUE
    BY <1>1, Volume DEF CallType, FileObjects
  <1>3. fp.clust # Free => fp.sclust # Free
    BY DEF Inv, Registers
  <1> QED
    BY <1>1, <1>2, <1>3, GrowingFile, NoAccess, FileMoved, Volume
    DEF DiskFull, history, CallType

\* Following the chain changes no entry.
LEMMA FollowChainStep == ASSUME Inv, FollowChain PROVE Inv'
  <1>0. /\ pc \in {"idle", "write"} /\ fp.name # NoName /\ UNCHANGED <<clst, arg, damaged>>
        /\ fp.clust # Free => fp.sclust # Free
    BY GrowingFile DEF FollowChain, Inv, Registers
  <1>1. PICK wrote \in {TRUE, FALSE, fp.write} :
          \/ /\ fp.clust = Free /\ fp.sclust # Free
             /\ Reached(fp.sclust, wrote)
             /\ UNCHANGED window
          \/ /\ fp.clust # Free /\ At(fp.clust) \in Clusters
             /\ Get(SectorOf[fp.clust])
             /\ Reached(At(fp.clust), wrote)
    BY DEF FollowChain
  <1>2. wrote \in BOOLEAN
    BY <1>1, Volume DEF CallType, FileObjects
  <1>3. PICK c \in Clusters : fp.sclust # Free /\ Reached(c, wrote)
    BY <1>0, <1>1, Volume DEF CallType, FileObjects
  <1>4. /\ fp' \in FileObjects /\ fp'.name = fp.name /\ fp'.sclust = fp.sclust
        /\ fp.modified => fp'.modified
        /\ failed' \in BOOLEAN /\ pc' \in {"idle", "write"}
    BY <1>2, <1>3, ReachedFile
  <1>5. View' = View /\ Stored /\ WindowClean' /\ WindowType'
    <2>1. CASE UNCHANGED window
      BY <2>1, NoAccess
    <2>2. CASE fp.clust # Free /\ Get(SectorOf[fp.clust])
      <3>1. SectorOf[fp.clust] \in Sectors
        BY <2>2, Volume, Kinds DEF CallType, FileObjects, Sectors
      <3> QED
        BY <2>2, <3>1, Volume, GetEffect
    <2> QED
      BY <1>1, <2>1, <2>2
  <1> QED
    BY <1>0, <1>3, <1>4, <1>5, FileMoved

\* A free cluster is in no chain, so it can be marked and become the first.
LEMMA AllocateStep == ASSUME Inv, Allocate PROVE Inv'
  <1>0. /\ pc \in {"idle", "write"} /\ fp.name \in Names /\ fp.name \in Entries
        /\ fp.name # NoName
    BY GrowingFile DEF Allocate
  <1>1. PICK ncl \in Clusters :
          /\ At(ncl) = Free
          /\ Put(ncl, EOC)
          /\ IF fp.clust = Free
             THEN Reached(ncl, TRUE) /\ UNCHANGED <<clst, arg>>
             ELSE pc' = "link" /\ clst' = ncl /\ UNCHANGED <<fp, arg, failed>>
    BY DEF Allocate
  <1>2. /\ ncl \in Entries /\ ncl \notin Names /\ ncl # fp.name /\ EOC \in Holds(ncl)
        /\ View[ncl] = Free
    BY <1>0, <1>1, Kinds DEF Holds, View
  <1>3. View' = [View EXCEPT ![ncl] = EOC] /\ Stored /\ WindowClean' /\ WindowType'
    BY <1>1, <1>2, Volume, PutEffect
  <1>4. View'[fp.name] = View[fp.name] /\ View'[ncl] = EOC
    BY <1>0, <1>2, <1>3, Volume
  <1>5. damaged' = damaged
    BY DEF Allocate
  <1> DEFINE marked == [Intended EXCEPT ![ncl] = EOC]
  <1>6. marked \in [Entries -> Values]
    BY Volume, Constants
  <1>7. ~damaged => Consistent(marked) /\ \A d \in Entries : marked[d] # ncl
    <2> HAVE ~damaged
    <2>1. Consistent(Intended) /\ Intended[ncl] = Free /\ Intended \in [Entries -> Values]
      BY <1>2, Volume DEF Inv, Sound
    <2>2. \A d \in Entries : Intended[d] # ncl
      BY <2>1, FreeIsUnused
    <2>3. EOC \in Values /\ EOC \notin Clusters /\ EOC # Free
      BY Kinds, Constants
    <2>4. Consistent(marked)
      BY <1>2, <2>1, <2>3, Drop
    <2> QED
      BY <1>2, <2>1, <2>2, <2>3, <2>4
  <1>8. CASE fp.clust = Free
    <2>1. Reached(ncl, TRUE) /\ UNCHANGED <<clst, arg>> /\ pc' \in {"idle", "write"}
      BY <1>1, <1>8, ReachedFile
    <2>2. /\ fp' \in FileObjects /\ fp'.name = fp.name /\ fp'.clust = ncl
          /\ fp'.sclust = IF fp.sclust = Free THEN ncl ELSE fp.sclust
          /\ fp.modified => fp'.modified /\ failed' \in BOOLEAN
      BY <2>1, ReachedFile
    <2>3. fp.sclust = Free /\ fp'.sclust = ncl
      BY <1>8, <2>2 DEF Allocate, AtEnd
    <2>4. TypeOK'
      BY <1>3, <1>5, <2>1, <2>2, <2>1, ReachedFile, Volume DEF TypeOK, WindowType, CallType
    <2>5. ~fp'.modified \/ fp.name \notin exposed' => View[fp.name] \in {Free, fp.sclust}
      BY <1>0, <1>3, <2>2, NamedKept
    <2>6. ncl # Free
      BY Kinds
    <2>7. Registers'
      BY <1>0, <1>4, <2>1, <2>2, <2>3, <2>5, <2>6 DEF Inv, Registers
    <2>8. Intended' = [marked EXCEPT ![fp.name] = ncl]
      BY <1>0, <1>2, <1>3, <2>1, <2>2, <2>3, Volume DEF Intended
    <2>9. Sound'
      <3> SUFFICES ASSUME ~damaged PROVE Consistent(Intended')
        BY <1>0, <1>5, <2>1 DEF Sound, Detached, Removing, Consistent
      <3>1. marked[ncl] # Free
        BY <1>2, Volume, Constants
      <3> HIDE DEF marked
      <3> QED
        BY <1>0, <1>6, <1>7, <2>8, <3>1, Add
    <2>10. DiskConsistent'
      BY <1>0, <1>3, <1>5, <2>1, CardKept DEF Stored, Red
    <2> QED
      BY <1>3, <2>4, <2>7, <2>9, <2>10 DEF Inv
  <1>9. CASE fp.clust # Free
    <2>1. pc' = "link" /\ clst' = ncl /\ UNCHANGED <<fp, arg, failed>>
      BY <1>1, <1>9
    <2>2. TypeOK'
      BY <1>3, <1>5, <2>1, Volume DEF TypeOK, WindowType, CallType
    <2>3. ~fp.modified \/ fp.name \notin exposed' => View[fp.name] \in {Free, fp.sclust}
      BY <1>0, <1>3, NamedKept
    <2>4. ncl # Free
      BY Kinds
    <2>5. Registers'
      BY <1>0, <1>4, <1>9, <2>1, <2>3, <2>4 DEF Inv, Registers
    <2>6. Intended' = marked
      BY <1>0, <1>2, <1>3, <2>1, Volume DEF Intended
    <2>7. Sound'
      BY <1>4, <1>5, <1>7, <2>1, <2>6, Constants DEF Sound, Detached, Consistent
    <2>8. DiskConsistent'
      BY <1>0, <1>3, <1>5, <2>1, CardKept DEF Stored, Red
    <2> QED
      BY <1>3, <2>2, <2>5, <2>7, <2>8 DEF Inv
  <1> QED
    BY <1>8, <1>9

\* The marked cluster is linked to the end of the chain.
LEMMA LinkClusterStep == ASSUME Inv, LinkCluster PROVE Inv'
  <1>0. /\ pc = "link" /\ fp.name # NoName /\ fp.name \in Names /\ fp.name \in Entries
        /\ fp.clust \in Clusters /\ fp.clust \in Entries /\ fp.clust # fp.name
        /\ clst \in Clusters /\ fp.sclust # Free /\ clst \in Holds(fp.clust)
    BY Volume, Kinds DEF LinkCluster, Inv, Registers, CallType, FileObjects, Holds
  <1>1. View' = [View EXCEPT ![fp.clust] = clst] /\ Stored /\ WindowClean' /\ WindowType'
    BY <1>0, Volume, PutEffect DEF LinkCluster
  <1>2. UNCHANGED <<arg, damaged>> /\ pc' \in {"idle", "write"} /\ clst' = Free
    BY <1>0, ReachedFile DEF LinkCluster
  <1>3. /\ fp' \in FileObjects /\ fp'.name = fp.name /\ fp'.sclust = fp.sclust
        /\ fp.modified => fp'.modified
        /\ failed' \in BOOLEAN
    BY <1>0, ReachedFile DEF LinkCluster
  <1>4. TypeOK'
    BY <1>1, <1>2, <1>3, Volume DEF TypeOK, WindowType, CallType
  <1>5. ~fp'.modified \/ fp.name \notin exposed' => View[fp.name] \in {Free, fp.sclust}
    BY <1>0, <1>1, <1>3, NamedKept
  <1>6. View'[fp.name] = View[fp.name]
    BY <1>0, <1>1, Volume
  <1>7. Registers'
    BY <1>0, <1>2, <1>3, <1>5, <1>6 DEF Inv, Registers
  <1>8. Intended' = [Intended EXCEPT ![fp.clust] = clst]
    BY <1>0, <1>1, <1>2, <1>3, Volume DEF Intended
  <1>9. Sound'
    <2> SUFFICES ASSUME ~damaged PROVE Consistent(Intended')
      BY <1>2 DEF Sound, Detached, Removing, Consistent
    <2>1. /\ Consistent(Intended) /\ Intended[clst] # Free
          /\ \A d \in Entries : Intended[d] # clst
      BY <1>0, Volume, Kinds DEF Inv, Sound, Detached
    <2> QED
      BY <1>0, <1>8, <2>1, Volume, Add
  <1>10. DiskConsistent'
    BY <1>0, <1>1, <1>2, CardKept DEF Stored, Red
  <1> QED
    BY <1>1, <1>4, <1>7, <1>9, <1>10 DEF Inv

\* A truncation to nothing removes the first cluster from the file object first.
LEMMA TruncateTopStep == ASSUME Inv, TruncateTop PROVE Inv'
  <1>0. /\ pc = "idle" /\ fp.name \in Names /\ fp.name \in Entries /\ fp.name # NoName
        /\ fp.clust = Free /\ fp.sclust \in Clusters
    BY UsingFile, Volume DEF TruncateTop, Writing, CallType, FileObjects
  <1>1. /\ UNCHANGED <<disk, win, winsect, wflag, arg, damaged, failed>>
        /\ exposed' = exposed \cup {fp.name} /\ pc' = "truncate" /\ clst' = fp.sclust
        /\ fp' = [fp EXCEPT !.sclust = Free, !.modified = TRUE]
    BY DEF TruncateTop, history
  <1>2. View' = View /\ WindowClean' /\ WindowType'
    BY <1>0, <1>1, Volume DEF View, At, WindowClean, WindowType
  <1>3. /\ fp' \in FileObjects /\ fp'.name = fp.name /\ fp'.sclust = Free
        /\ fp'.clust = Free /\ fp'.modified = TRUE
    BY <1>0, <1>1, Volume DEF CallType, FileObjects
  <1>4. TypeOK'
    BY <1>0, <1>1, <1>2, <1>3, Volume DEF TypeOK, WindowType, CallType, Removing
  <1>5. Registers'
    BY <1>0, <1>1, <1>2, <1>3 DEF Inv, Registers
  <1>6. Intended' = [Intended EXCEPT ![fp.name] = Free] /\ Intended[fp.name] = fp.sclust
    BY <1>0, <1>1, <1>2, <1>3 DEF Intended
  <1>7. Sound'
    <2> SUFFICES ASSUME ~damaged PROVE Consistent(Intended') /\ Detached'
      BY <1>1 DEF Sound, Consistent
    <2>1. Consistent(Intended') /\ \A d \in Entries : Intended'[d] # fp.sclust
      BY <1>0, <1>6, Emptied
    <2> QED
      BY <1>1, <2>1 DEF Detached
  <1>8. DiskConsistent'
    BY <1>0, <1>1, CardKept DEF Red
  <1> QED
    BY <1>2, <1>4, <1>5, <1>7, <1>8 DEF Inv

\* A truncation cuts the chain before it removes the rest.
LEMMA TruncateRestStep == ASSUME Inv, TruncateRest PROVE Inv'
  <1>0. /\ pc = "idle" /\ fp.name \in Names /\ fp.name \in Entries /\ fp.name # NoName
        /\ fp.clust \in Clusters /\ fp.clust \in Entries /\ fp.clust # fp.name
        /\ EOC \in Holds(fp.clust) /\ View[fp.clust] = At(fp.clust)
        /\ View[fp.clust] \in Clusters
    BY UsingFile, Volume, Kinds DEF TruncateRest, Writing, CallType, FileObjects, Holds, View
  <1>1. View' = [View EXCEPT ![fp.clust] = EOC] /\ Stored /\ WindowClean' /\ WindowType'
    BY <1>0, Volume, PutEffect DEF TruncateRest
  <1>2. /\ UNCHANGED <<arg, damaged, failed>> /\ pc' = "truncate"
        /\ clst' = View[fp.clust]
        /\ fp' = [fp EXCEPT !.modified = TRUE]
    BY <1>0 DEF TruncateRest, history
  <1>3. /\ fp' \in FileObjects /\ fp'.name = fp.name /\ fp'.sclust = fp.sclust
        /\ fp'.clust = fp.clust /\ fp'.modified = TRUE
    BY <1>2, Volume DEF CallType, FileObjects
  <1>4. TypeOK'
    BY <1>0, <1>1, <1>2, <1>3, Volume DEF TypeOK, WindowType, CallType, Removing
  <1>5. fp.name \notin exposed' => View[fp.name] \in {Free, fp.sclust}
    BY <1>0, <1>1, NamedKept
  <1>6. View'[fp.name] = View[fp.name]
    BY <1>0, <1>1, Volume
  <1>7. Registers'
    BY <1>0, <1>2, <1>3, <1>5, <1>6 DEF Inv, Registers
  <1>8. Intended' = [Intended EXCEPT ![fp.clust] = EOC] /\ Intended[fp.clust] = View[fp.clust]
    BY <1>0, <1>1, <1>2, <1>3, Volume DEF Intended
  <1>9. Sound'
    <2> SUFFICES ASSUME ~damaged PROVE Consistent(Intended') /\ Detached'
      BY <1>2 DEF Sound, Consistent
    <2>1. Consistent(Intended) /\ Intended \in [Entries -> Values]
      BY Volume DEF Inv, Sound
    <2>2. EOC \in Values /\ EOC \notin Clusters /\ EOC # Free
      BY Kinds, Constants
    <2>3. Intended[fp.clust] \in Clusters
      BY <1>0, <1>8
    <2>4. /\ Consistent(Intended')
          /\ Intended[fp.clust] \in Clusters
                => \A d \in Entries : Intended'[d] # Intended[fp.clust]
      <3>1. fp.clust \in Entries /\ Intended' = [Intended EXCEPT ![fp.clust] = EOC]
        BY <1>0, <1>8
      <3> QED
        BY <2>1, <2>2, <3>1, Drop
    <2> QED
      BY <1>2, <1>8, <2>3, <2>4 DEF Detached
  <1>10. DiskConsistent'
    BY <1>0, <1>1, <1>2, CardKept DEF Stored, Red
  <1> QED
    BY <1>1, <1>4, <1>7, <1>9, <1>10 DEF Inv

\* f_unlink removes the entry before the chain.
LEMMA UnlinkStep ==
    ASSUME Inv, NEW n \in Names, Unlink(n) PROVE Inv'
  <1>0. n \in Entries /\ n # fp.name /\ Absent \in Holds(n) /\ View[n] = At(n)
    BY Kinds DEF Unlink, Holds, View
  <1>1. View' = [View EXCEPT ![n] = Absent] /\ Stored /\ WindowClean' /\ WindowType'
    BY <1>0, Volume, PutEffect DEF Unlink
  <1>2. /\ UNCHANGED <<fp, arg, damaged, failed>> /\ pc = "idle"
        /\ pc' = "unlink" /\ clst' = View[n] /\ View[n] # Absent
    BY <1>0 DEF Unlink, Idle, history
  <1>3. TypeOK'
    BY <1>0, <1>1, <1>2, Volume DEF TypeOK, WindowType, CallType, Holds, Removing
  <1>4. fp.name # NoName => View'[fp.name] = View[fp.name]
    BY <1>0, <1>1, Volume, Kinds DEF CallType, FileObjects
  <1>5. Registers'
    BY <1>1, <1>2, <1>4, NamedKept DEF Inv, Registers
  <1>6. Intended' = [Intended EXCEPT ![n] = Absent] /\ Intended[n] = View[n]
    BY <1>0, <1>1, <1>2, Volume DEF Intended
  <1>7. Sound'
    <2> SUFFICES ASSUME ~damaged PROVE Consistent(Intended') /\ Detached'
      BY <1>2 DEF Sound, Consistent
    <2>1. /\ Consistent(Intended')
          /\ Intended[n] \in Clusters => \A d \in Entries : Intended'[d] # Intended[n]
      BY <1>6, Emptied
    <2> QED
      BY <1>2, <1>3, <1>6, <2>1 DEF Detached, TypeOK
  <1>8. DiskConsistent'
    BY <1>1, <1>2, CardKept DEF Stored, Red
  <1> QED
    BY <1>1, <1>3, <1>5, <1>7, <1>8 DEF Inv

\* In f_rename the copy takes over from the old entry.
LEMMA RenameEntryStep ==
    ASSUME Inv, NEW old \in Names, NEW new \in Names, RenameEntry(old, new) PROVE Inv'
  <1>0. /\ old \in Entries /\ new \in Entries /\ old # fp.name
        /\ View[old] = At(old) /\ View[new] = At(new)
        /\ View[old] # Absent /\ View[new] = Absent /\ old # new
    BY Kinds DEF RenameEntry, View
  <1>1. View[old] \in Clusters \cup {Free} /\ View[old] \in Holds(new)
    BY <1>0, Volume DEF Holds
  <1>2. fp.name # NoName => new # fp.name
    BY <1>0 DEF Inv, Registers
  <1>3. View' = [View EXCEPT ![new] = View[old]] /\ Stored /\ WindowClean' /\ WindowType'
    BY <1>0, <1>1, Volume, PutEffect DEF RenameEntry
  <1>4. UNCHANGED <<fp, clst, damaged, failed>> /\ pc = "idle" /\ pc' = "rename" /\ arg' = old
    BY DEF RenameEntry, Idle, history
  <1>5. TypeOK'
    BY <1>3, <1>4, Volume DEF TypeOK, WindowType, CallType, Red
  <1>6. fp.name # NoName => View'[fp.name] = View[fp.name]
    BY <1>0, <1>2, <1>3, Volume, Kinds DEF CallType, FileObjects
  <1>7. Registers'
    BY <1>0, <1>3, <1>4, <1>6, NamedKept DEF Inv, Registers
  <1> DEFINE removed == [Intended EXCEPT ![old] = Absent]
  <1>8. Intended' = [removed EXCEPT ![new] = View[old]] /\ Intended[old] = View[old]
    BY <1>0, <1>2, <1>3, <1>4, Volume, Kinds DEF Intended
  <1>9. Sound'
    <2> SUFFICES ASSUME ~damaged PROVE Consistent(Intended')
      BY <1>4 DEF Sound, Detached, Removing, Consistent
    <2>1. /\ Consistent(removed)
          /\ View[old] \in Clusters => \A d \in Entries : removed[d] # View[old]
      <3>1. /\ Consistent(removed)
            /\ Intended[old] \in Clusters => \A d \in Entries : removed[d] # Intended[old]
        BY Emptied
      <3> QED
        BY <1>8, <3>1
    <2>2. removed \in [Entries -> Values]
      BY Volume, Constants
    <2>3. CASE View[old] \in Clusters
      <3>1. Intended[View[old]] # Free
        BY <1>0, <1>8, <2>3 DEF Inv, Sound, Consistent
      <3>2. removed[View[old]] # Free
        BY <2>3, <3>1, Volume, Kinds
      <3> HIDE DEF removed
      <3> QED
        BY <1>0, <1>8, <2>1, <2>2, <2>3, <3>2, Add
    <2>4. CASE View[old] = Free
      <3>1. \A d \in Entries : removed[d] # new
        BY <1>0, NamesUnused, Volume, VolumeOK DEF Absent
      <3>2. Free \in Values /\ Free \notin Clusters
        BY Kinds, Constants
      <3> HIDE DEF removed
      <3> QED
        BY <1>0, <1>8, <2>1, <2>2, <2>4, <3>1, <3>2, Drop
    <2> QED
      BY <1>1, <2>3, <2>4
  <1>10. DiskConsistent'
    BY <1>3, <1>4, CardKept DEF Stored, Red
  <1> QED
    BY <1>3, <1>5, <1>7, <1>9, <1>10 DEF Inv

\* Deleting the old entry completes what was intended.
LEMMA RenameRemoveStep == ASSUME Inv, RenameRemove PROVE Inv'
  <1>0. pc = "rename" /\ arg \in Names /\ arg \in Entries /\ arg # fp.name /\ Absent \in Holds(arg)
    BY Kinds DEF RenameRemove, Inv, Registers, Holds
  <1>1. View' = [View EXCEPT ![arg] = Absent] /\ Stored /\ WindowClean' /\ WindowType'
    BY <1>0, Volume, PutEffect DEF RenameRemove
  <1>2. UNCHANGED <<fp, clst, damaged, failed>> /\ pc' = "renameFlush" /\ arg' = NoName
    BY DEF RenameRemove, history
  <1>3. TypeOK'
    BY <1>1, <1>2, Volume DEF TypeOK, WindowType, CallType, Red
  <1>4. fp.name # NoName => View'[fp.name] = View[fp.name]
    BY <1>0, <1>1, Volume, Kinds DEF CallType, FileObjects
  <1>5. Registers'
    BY <1>1, <1>2, <1>4, NamedKept DEF Inv, Registers
  <1>6. Intended' = Intended
    BY <1>0, <1>1, <1>2, Volume DEF Intended
  <1>7. Sound'
    BY <1>2, <1>6 DEF Inv, Sound, Detached, Removing, Consistent
  <1>8. DiskConsistent'
    BY <1>1, <1>2, CardKept DEF Stored, Red
  <1> QED
    BY <1>1, <1>3, <1>5, <1>7, <1>8 DEF Inv

\* A cluster that is out of every chain can be freed.
LEMMA RemoveClusterStep == ASSUME Inv, RemoveCluster PROVE Inv'
  <1>0. /\ pc \in Removing /\ clst \in Clusters /\ clst \in Entries /\ clst \notin Names
        /\ Free \in Holds(clst) /\ View[clst] = At(clst) /\ SectorOf[clst] \in Sectors
    BY Volume, Kinds DEF RemoveCluster, CallType, Holds, View, Sectors
  <1>1. /\ UNCHANGED <<fp, pc, arg, damaged, failed>>
        /\ clst' = IF View[clst] \in Clusters THEN View[clst] ELSE Free
    BY <1>0 DEF RemoveCluster, history
  <1>2. /\ View' = [View EXCEPT ![clst] = Free]
        /\ Stored /\ WindowClean' /\ WindowType'
    <2>1. CASE At(clst) = Free
      <3>1. View' = View /\ Stored /\ WindowClean' /\ WindowType'
        BY <1>0, <2>1, Volume, GetEffect DEF RemoveCluster
      <3> QED
        BY <1>0, <2>1, <3>1, Volume
    <2>2. CASE At(clst) # Free
      BY <1>0, <2>2, Volume, PutEffect DEF RemoveCluster
    <2> QED
      BY <2>1, <2>2
  <1>3. TypeOK'
    BY <1>1, <1>2, Volume DEF TypeOK, WindowType, CallType
  <1>4. \A n \in Names : View'[n] = View[n]
    BY <1>0, <1>2, Volume, Kinds
  <1>5. Registers'
    <2>1. fp.name # NoName => View'[fp.name] = View[fp.name]
      BY <1>4, Volume DEF CallType, FileObjects
    <2>2. pc = "overwrite" => View'[arg] = View[arg]
      BY <1>4 DEF Inv, Registers
    <2>3. fp.name # NoName /\ (~fp.modified \/ fp.name \notin exposed')
             => View[fp.name] \in {Free, fp.sclust}
      BY <1>2, NamedKept
    <2>4. pc # "link"
      BY <1>0 DEF Removing
    <2> QED
      BY <1>1, <2>1, <2>2, <2>3, <2>4 DEF Inv, Registers
  <1>6. /\ Intended' = [Intended EXCEPT ![clst] = Free]
        /\ Intended[clst] = View[clst]
    <2>1. clst # fp.name /\ pc # "rename"
      BY <1>0, Kinds, Volume DEF CallType, FileObjects, Removing
    <2> QED
      BY <1>0, <1>1, <1>2, <2>1, Volume DEF Intended
  <1>7. Sound'
    <2> SUFFICES ASSUME ~damaged PROVE Consistent(Intended') /\ Detached'
      BY <1>1 DEF Sound, Consistent
    <2>1. Consistent(Intended) /\ Intended \in [Entries -> Values]
      BY Volume DEF Inv, Sound
    <2>2. \A d \in Entries : Intended[d] # clst
      BY <1>0, Kinds DEF Inv, Sound, Detached
    <2>3. Free \in Values /\ Free \notin Clusters
      BY Kinds, Constants
    <2>4. /\ Consistent(Intended')
          /\ Intended[clst] \in Clusters => \A d \in Entries : Intended'[d] # Intended[clst]
      BY <1>0, <1>6, <2>1, <2>2, <2>3, Drop
    <2>5. Detached'
      BY <1>0, <1>1, <1>6, <2>4 DEF Detached, Removing
    <2> QED
      BY <2>4, <2>5
  <1>8. DiskConsistent'
    BY <1>1, <1>2, CardKept DEF Stored
  <1> QED
    BY <1>2, <1>3, <1>5, <1>7, <1>8 DEF Inv

\* The end of remove_chain.
LEMMA RemovedStep == ASSUME Inv, Removed PROVE Inv'
  <1>0. pc \in {"overwrite", "unlink", "truncate"} /\ clst = Free
    BY DEF Removed, Removing
  <1>1. UNCHANGED <<clst, damaged>> /\ failed' \in BOOLEAN
    BY <1>0, Volume DEF Removed, CallType
  <1>2. CASE pc = "overwrite"
    <2>0. /\ fp.name = NoName /\ arg \in Names /\ arg \in Entries /\ arg # NoName
          /\ View[arg] = Free /\ SectorOf[arg] \in Sectors
      BY <1>2, Kinds DEF Inv, Registers, Sectors
    <2>1. Get(SectorOf[arg]) /\ fp' = Opened(arg, TRUE, Free, TRUE) /\ pc' = "idle" /\ arg' = NoName
      BY <1>2 DEF Removed
    <2>2. View' = View /\ Stored /\ WindowClean' /\ WindowType'
      BY <2>0, <2>1, Volume, GetEffect
    <2>3. fp' \in FileObjects /\ fp'.name = arg /\ fp'.sclust = Free /\ fp'.clust = Free
      BY <2>0, <2>1 DEF Opened, NoFile, FileObjects
    <2>4. TypeOK'
      BY <1>1, <2>1, <2>2, <2>3, Volume DEF TypeOK, WindowType, CallType
    <2>5. Registers'
      BY <2>0, <2>1, <2>2, <2>3, Constants DEF Registers
    <2>6. Intended' = Intended
      BY <1>2, <2>0, <2>1, <2>2, <2>3, Kinds DEF Intended
    <2>7. Sound'
      BY <1>1, <2>1, <2>6 DEF Inv, Sound, Detached, Removing, Consistent
    <2>8. DiskConsistent'
      BY <1>1, <1>2, <2>1, <2>2, CardKept DEF Stored, Red
    <2> QED
      BY <2>2, <2>4, <2>5, <2>7, <2>8 DEF Inv
  <1>3. CASE pc \in {"unlink", "truncate"}
    <2>0. fp' = fp \/ (fp.name # NoName /\ \E ok \in BOOLEAN : fp' = [fp EXCEPT !.err = ~ok])
      BY <1>3 DEF Removed, Inv, Registers
    <2>1. /\ UNCHANGED <<window, arg>> /\ pc' \in {"flush", "idle"}
          /\ fp' \in FileObjects /\ fp'.name = fp.name /\ fp'.sclust = fp.sclust
          /\ fp'.clust = fp.clust /\ fp'.modified = fp.modified
          /\ fp.name = NoName => fp' = fp
      BY <1>3, <2>0, Volume DEF Removed, CallType, FileObjects
    <2>2. View' = View /\ Stored /\ WindowClean' /\ WindowType'
      BY <2>1, NoAccess
    <2>3. TypeOK'
      BY <1>1, <2>1, <2>2, Volume DEF TypeOK, WindowType, CallType, Flushing
    <2>4. Registers'
      BY <2>1, <2>2, NamedKept DEF Inv, Registers
    <2>5. Intended' = Intended
      BY <1>3, <2>1, <2>2 DEF Intended
    <2>6. Sound'
      BY <1>1, <2>1, <2>5 DEF Inv, Sound, Detached, Removing, Consistent
    <2>7. DiskConsistent'
      BY <1>1, <1>3, <2>1, <2>2, CardKept DEF Stored, Red
    <2> QED
      BY <2>2, <2>3, <2>4, <2>6, <2>7 DEF Inv
  <1> QED
    BY <1>0, <1>2, <1>3

\* A refused access ends the call; what it had cut off is lost clusters.
LEMMA DiskErrorStep == ASSUME Inv, DiskError PROVE Inv'
  <1>1. View' = View /\ Stored /\ WindowClean' /\ WindowType'
    BY Volume, MoveFailsEffect DEF DiskError
  <1>2. /\ damaged' = (damaged \/ pc \in Red) /\ failed' = TRUE
        /\ pc' = "idle" /\ clst' = Free /\ arg' = NoName
    BY DEF DiskError
  <1>3. \/ fp' = fp
        \/ /\ fp.name # NoName
           /\ \E changed \in BOOLEAN :
                 fp' = [fp EXCEPT !.err = TRUE, !.modified = @ \/ changed]
    <2>1. CASE pc \in {"write", "link", "truncate"} /\ fp' = [fp EXCEPT !.err = TRUE]
      <3>1. fp' = [fp EXCEPT !.err = TRUE, !.modified = @ \/ FALSE]
        BY <2>1, Volume DEF CallType, FileObjects
      <3> QED
        BY <2>1, <3>1 DEF Inv, Registers
    <2>2. CASE /\ Using
               /\ \E changed \in {FALSE, fp.write} :
                      fp' = [fp EXCEPT !.err = TRUE, !.modified = @ \/ changed]
      BY <2>2, UsingFile, Volume DEF CallType, FileObjects
    <2> QED
      BY <2>1, <2>2 DEF DiskError
  <1>4. /\ fp' \in FileObjects /\ fp'.name = fp.name /\ fp'.sclust = fp.sclust
        /\ fp'.clust = fp.clust /\ (fp.modified => fp'.modified)
        /\ fp.name = NoName => fp' = fp
    BY <1>3, Volume DEF CallType, FileObjects
  <1>5. TypeOK'
    BY <1>1, <1>2, <1>4, Volume DEF TypeOK, WindowType, CallType
  <1>6. Registers'
    BY <1>1, <1>2, <1>4, NamedKept DEF Inv, Registers
  <1>7. Sound'
    <2> SUFFICES ASSUME ~damaged, pc \notin Red PROVE Consistent(Intended')
      BY <1>2 DEF Sound, Detached, Removing, Consistent
    <2>1. Intended' = Intended
      BY <1>1, <1>2, <1>4 DEF Intended, Red
    <2> QED
      BY <2>1 DEF Inv, Sound
  <1>8. DiskConsistent'
    BY <1>1, <1>2, CardKept DEF Stored
  <1> QED
    BY <1>1, <1>5, <1>6, <1>7, <1>8 DEF Inv

\* After an interruption the code sees the card.
LEMMA InterruptStep == ASSUME Inv, Interrupt PROVE Inv'
  <1>1. \A e \in Entries : SectorOf[e] # NoSector
    BY VolumeOK DEF Sectors
  <1>2. /\ winsect' = NoSector /\ win' \in [{} -> Values] /\ wflag' = FALSE
        /\ InSector(winsect') = {} /\ disk' = disk /\ exposed' = {}
    BY <1>1 DEF Interrupt, Unload, InSector
  <1>3. View' = disk
    <2>1. \A e \in Entries : At(e)' = disk[e]
      BY <1>1, <1>2 DEF At
    <2> QED
      BY <2>1, Volume DEF View, WindowType, Contents
  <1>4. WindowClean' /\ WindowType'
    BY <1>2, Volume DEF WindowClean, WindowType, Contents
  <1>5. /\ fp' = NoFile /\ pc' = "idle" /\ clst' = Free /\ arg' = NoName
        /\ damaged' = (damaged \/ pc \in Red \/ exposed # {}) /\ failed' = FALSE
    BY DEF Interrupt
  <1>6. TypeOK'
    BY <1>4, <1>5, Volume DEF TypeOK, WindowType, CallType, FileObjects, NoFile
  <1>7. Registers'
    BY <1>5 DEF Registers, NoFile
  <1>8. Intended' = disk
    <2>1. \A e \in Entries : e # fp'.name /\ pc' # "rename"
      BY <1>5, Kinds DEF NoFile
    <2>2. disk = [e \in Entries |-> disk[e]]
      BY Volume DEF WindowType, Contents
    <2> QED
      BY <1>3, <2>1, <2>2 DEF Intended
  <1>9. ~damaged' => Consistent(disk)
    BY <1>5 DEF Inv, DiskConsistent
  <1>10. Sound'
    BY <1>5, <1>8, <1>9 DEF Sound, Detached, Removing, Consistent
  <1>11. DiskConsistent'
    BY <1>2, <1>9 DEF DiskConsistent, Consistent
  <1> QED
    BY <1>4, <1>6, <1>7, <1>10, <1>11 DEF Inv

------------------------------------------------------------------------------
(* The theorems.                                                           *)

\* An empty volume is consistent.
LEMMA InitInv == Init => Inv
  <1> SUFFICES ASSUME Init PROVE Inv
    OBVIOUS
  <1>1. \A e \in Entries : SectorOf[e] # NoSector
    BY VolumeOK DEF Sectors
  <1>2. InSector(winsect) = {} /\ win \in [{} -> Values]
    BY <1>1 DEF Init, InSector
  <1>3. \A e \in Entries : disk[e] \in Holds(e) /\ disk[e] \in Values /\ disk[e] \notin Clusters
    BY Kinds, Constants DEF Init, Holds
  <1>4. TypeOK
    BY <1>2, <1>3 DEF Init, TypeOK, Contents, FileObjects, NoFile
  <1>5. View = disk
    BY <1>1 DEF Init, View, At
  <1>6. Intended = disk
    BY <1>5, Kinds DEF Init, Intended, NoFile
  <1>7. Consistent(disk)
    BY <1>3 DEF Consistent
  <1>8. WindowClean
    BY <1>2 DEF WindowClean
  <1>9. Registers
    BY DEF Init, Registers, NoFile
  <1>10. Sound /\ DiskConsistent
    BY <1>6, <1>7 DEF Init, Sound, Detached, Removing, DiskConsistent
  <1> QED
    BY <1>4, <1>8, <1>9, <1>10 DEF Inv

\* Every step keeps the invariant.
LEMMA NextInv == Inv /\ [Next]_vars => Inv'
  <1> SUFFICES ASSUME Inv, [Next]_vars PROVE Inv'
    OBVIOUS
  <1>1. CASE Next
    BY <1>1, ScanStep, OpenFileStep, CreateFileStep, OverwriteStep, SyncEntryStep,
       CloseCleanStep, FlushStep, FlushFailsStep, RewindStep, FollowChainStep,
       AllocateStep, LinkClusterStep, DiskFullStep, TruncateTopStep,
       TruncateRestStep, UnlinkStep, RenameEntryStep, RenameRemoveStep,
       RemoveClusterStep, RemovedStep, DiskErrorStep, InterruptStep DEF Next
  <1>2. CASE UNCHANGED vars
    BY <1>2 DEF vars, window, call, history, Inv, TypeOK, WindowClean, Registers,
                Sound, Detached, Intended, DiskConsistent, Consistent, View, At
  <1> QED
    BY <1>1, <1>2

\* The inductive invariant.
LEMMA Invariance == Spec => []Inv
  BY InitInv, NextInv, PTL DEF Spec

\* The card, the window, the file object and the registers of a call keep
\* their types: a directory entry never holds an end mark, a FAT entry never
\* "absent", and the window always has the entries of its sector.
THEOREM TypeCorrect == Spec => []TypeOK
  <1>1. Inv => TypeOK
    BY DEF Inv
  <1> QED
    BY <1>1, Invariance, PTL

\* The card holds no cross link and no link to a free cluster, whenever it is
\* looked at, for every size of the volume and every layout of its sectors:
\* the order in which f_open, f_write, f_sync, f_truncate, f_unlink and the
\* window write makes an interruption cost lost clusters at most, outside
\* f_rename and a truncation to nothing that is not synced.
THEOREM NoCrossLink == Spec => []DiskConsistent
  <1>1. Inv => DiskConsistent
    BY DEF Inv
  <1> QED
    BY <1>1, Invariance, PTL

------------------------------------------------------------------------------
(* What a step writes.                                                     *)

\* The entries a step may write: a name, a cluster in no chain, or the
\* current cluster of the open file.
Touchable(e) ==
    \/ e \in Names
    \/ /\ e \in Clusters /\ pc # "rename"
       /\ \/ ~damaged => \A d \in Entries : Intended[d] # e
          \/ e = fp.clust /\ fp.name # NoName

\* At most one entry changes, and the card is left alone or written back.
Quiet    == View' = View /\ (disk' = disk \/ disk' = View)
Wrote(e) == /\ \A d \in Entries \ {e} : View'[d] = View[d]
            /\ disk' = disk \/ disk' = View

\* Reading an entry.
LEMMA GetQuiet == ASSUME Inv, NEW e \in Entries, Get(SectorOf[e]) PROVE Quiet
  <1>1. SectorOf[e] \in Sectors
    BY DEF Sectors
  <1> QED
    BY <1>1, Volume, GetEffect DEF Stored, WriteBack, Quiet

\* Not using the window.
LEMMA NoAccessQuiet == ASSUME Inv, UNCHANGED window PROVE Quiet
  BY NoAccess DEF window, Quiet

\* Writing an entry.
LEMMA PutWrote ==
    ASSUME Inv, NEW e \in Entries, NEW v \in Holds(e), Put(e, v)
    PROVE  Wrote(e) /\ View'[e] = v
  <1>1. View' = [View EXCEPT ![e] = v] /\ Stored
    BY Volume, PutEffect
  <1> QED
    BY <1>1, Volume DEF Stored, WriteBack, Wrote

\* Writing a directory entry.
LEMMA PutName ==
    ASSUME Inv, NEW n \in Names, NEW v \in Clusters \cup {Free, Absent}, Put(n, v)
    PROVE  n \in Entries /\ Touchable(n) /\ Wrote(n) /\ View'[n] = v
  <1>1. n \in Entries /\ v \in Holds(n)
    BY Kinds DEF Holds
  <1> QED
    BY <1>1, PutWrote DEF Touchable

\* What a directory entry that is in use holds.
LEMMA NameHolds ==
    ASSUME Inv, NEW n \in Names
    PROVE  /\ n \in Entries /\ At(n) = View[n]
           /\ At(n) # Absent => At(n) \in Clusters \cup {Free}
  <1>1. n \in Entries /\ At(n) = View[n]
    BY Kinds DEF View
  <1> QED
    BY <1>1, Volume DEF Holds

\* The open file and its clusters.
LEMMA OpenObject ==
    ASSUME Inv
    PROVE  /\ fp \in FileObjects
           /\ fp.name # NoName => fp.name \in Names /\ fp.name \in Entries
           /\ fp.clust # Free => fp.clust \in Clusters /\ fp.clust \in Entries
                                 /\ At(fp.clust) = View[fp.clust] /\ fp.name # NoName
           /\ fp.sclust \in Clusters \cup {Free}
           /\ clst # Free => clst \in Clusters /\ clst \in Entries /\ At(clst) = View[clst]
           /\ fp.modified => fp.name # NoName
  <1>1. /\ fp \in FileObjects /\ fp.name \in Names \cup {NoName}
        /\ fp.clust \in Clusters \cup {Free} /\ fp.sclust \in Clusters \cup {Free}
        /\ clst \in Clusters \cup {Free}
    BY Volume DEF CallType, FileObjects
  <1>2. Names \subseteq Entries /\ Clusters \subseteq Entries
    BY Kinds
  <1>3. fp.name = NoName => fp.clust = Free /\ fp.modified = FALSE
    BY DEF Inv, Registers, NoFile
  <1> QED
    BY <1>1, <1>2, <1>3 DEF View

\* create_chain marks a free cluster, which nothing points to.
LEMMA AllocateWrites ==
    ASSUME Inv, Allocate
    PROVE  \E c \in Clusters :
               /\ Touchable(c) /\ Wrote(c)
               /\ ~damaged => \A d \in Entries : Intended[d] # c
               /\ IF fp.clust = Free
                  THEN Reached(c, TRUE) /\ UNCHANGED <<clst, arg>>
                  ELSE pc' = "link" /\ UNCHANGED <<fp, arg, failed>>
  <1>0. pc \in {"idle", "write"}
    BY GrowingFile DEF Allocate
  <1>1. PICK ncl \in Clusters :
          /\ At(ncl) = Free
          /\ Put(ncl, EOC)
          /\ IF fp.clust = Free
             THEN Reached(ncl, TRUE) /\ UNCHANGED <<clst, arg>>
             ELSE pc' = "link" /\ clst' = ncl /\ UNCHANGED <<fp, arg, failed>>
    BY DEF Allocate
  <1>2. ncl \in Entries /\ ncl \notin Names /\ EOC \in Holds(ncl) /\ View[ncl] = Free
    BY <1>1, Kinds DEF Holds, View
  <1>3. Wrote(ncl)
    BY <1>1, <1>2, PutWrote
  <1>4. ~damaged => \A d \in Entries : Intended[d] # ncl
    <2> HAVE ~damaged
    <2>1. Consistent(Intended) /\ Intended[ncl] = Free /\ Intended \in [Entries -> Values]
      BY <1>2, Volume DEF Inv, Sound
    <2> QED
      BY <2>1, FreeIsUnused
  <1> QED
    BY <1>0, <1>1, <1>3, <1>4 DEF Touchable

\* create_chain links the end of the open file's chain to the new cluster.
LEMMA LinkWrites ==
    ASSUME Inv, LinkCluster
    PROVE  /\ pc = "link" /\ fp.clust \in Clusters /\ fp.name # NoName /\ clst \in Clusters
           /\ Touchable(fp.clust) /\ Wrote(fp.clust) /\ View'[fp.clust] = clst
  <1>1. /\ pc = "link" /\ fp.clust \in Clusters /\ fp.clust \in Entries
        /\ fp.name # NoName /\ clst \in Clusters
    BY OpenObject DEF LinkCluster, Inv, Registers
  <1>2. clst \in Holds(fp.clust)
    BY <1>1, Kinds DEF Holds
  <1> QED
    BY <1>1, <1>2, PutWrote DEF LinkCluster, Touchable

\* f_truncate cuts the open file's chain at the current cluster.
LEMMA CutWrites ==
    ASSUME Inv, TruncateRest
    PROVE  /\ pc = "idle" /\ fp.clust \in Clusters /\ fp.name # NoName
           /\ Touchable(fp.clust) /\ Wrote(fp.clust)
  <1>1. pc = "idle" /\ fp.clust \in Clusters /\ fp.clust \in Entries /\ fp.name # NoName
    BY OpenObject, UsingFile DEF TruncateRest, Writing
  <1>2. EOC \in Holds(fp.clust)
    BY <1>1, Kinds DEF Holds
  <1> QED
    BY <1>1, <1>2, PutWrote DEF TruncateRest, Touchable

\* remove_chain frees a cluster that is out of every chain.
LEMMA RemoveWrites ==
    ASSUME Inv, RemoveCluster
    PROVE  /\ clst \in Clusters /\ pc \in Removing /\ Touchable(clst) /\ Wrote(clst)
           /\ ~damaged => \A d \in Entries : Intended[d] # clst
  <1>1. pc \in Removing /\ clst \in Clusters /\ clst \in Entries /\ pc # "rename" /\ clst # Free
    BY OpenObject DEF RemoveCluster, Removing
  <1>2. Free \in Holds(clst)
    BY <1>1, Kinds DEF Holds
  <1>3. ~damaged => \A d \in Entries : Intended[d] # clst
    BY <1>1 DEF Inv, Sound, Detached
  <1>4. Wrote(clst)
    BY <1>1, <1>2, PutWrote, GetQuiet DEF RemoveCluster, Quiet, Wrote
  <1> QED
    BY <1>1, <1>3, <1>4 DEF Touchable

\* Every step but an interruption writes one entry it may write, or none.
LEMMA StepWrites ==
    ASSUME Inv, Next
    PROVE  Interrupt \/ Quiet \/ \E e \in Entries : Touchable(e) /\ Wrote(e)
  <1>0. /\ Clusters \subseteq Entries /\ Free \in Clusters \cup {Free, Absent}
        /\ Absent \in Clusters \cup {Free, Absent}
    BY Kinds
  <1>1. CASE \E s \in Sectors : Scan(s)
    BY <1>1, Volume, GetEffect DEF Scan, Stored, WriteBack, Quiet
  <1>2. CASE \E n \in Names : CreateFile(n) \/ Overwrite(n) \/ Unlink(n)
    BY <1>0, <1>2, PutName DEF CreateFile, Overwrite, Unlink
  <1>3. CASE \E n \in Names, w \in BOOLEAN : OpenFile(n, w)
    BY <1>3, NameHolds, GetQuiet DEF OpenFile
  <1>4. CASE \E next \in {"sync", "close"} : SyncEntry(next)
    BY <1>4, OpenObject, PutName DEF SyncEntry
  <1>5. CASE CloseClean \/ Rewind \/ DiskFull
    BY <1>5, NoAccessQuiet DEF CloseClean, Rewind, DiskFull
  <1>6. CASE Flush
    BY <1>6, Volume, FlushEffect DEF Flush, Quiet
  <1>7. CASE FlushFails
    <2>1. CASE UNCHANGED window
      BY <2>1, NoAccessQuiet
    <2>2. CASE ~UNCHANGED window
      BY <1>7, <2>2, Volume, FlushEffect DEF FlushFails, Quiet
    <2> QED
      BY <2>1, <2>2
  <1>8. CASE FollowChain
    BY <1>8, OpenObject, NoAccessQuiet, GetQuiet DEF FollowChain
  <1>9. CASE Allocate \/ LinkCluster \/ TruncateRest \/ RemoveCluster
    BY <1>0, <1>9, AllocateWrites, LinkWrites, CutWrites, RemoveWrites
  <1>10. CASE TruncateTop
    BY <1>10 DEF TruncateTop, Quiet, View, At
  <1>11. CASE \E old, new \in Names : RenameEntry(old, new)
    BY <1>11, NameHolds, PutName DEF RenameEntry
  <1>12. CASE RenameRemove
    BY <1>0, <1>12, PutName DEF RenameRemove, Inv, Registers
  <1>13. CASE Removed
    BY <1>13, NoAccessQuiet, NameHolds, GetQuiet DEF Removed, Removing, Inv, Registers
  <1>14. CASE DiskError
    BY <1>14, Volume, MoveFailsEffect DEF DiskError, Stored, WriteBack, Quiet
  <1> QED
    BY <1>1, <1>2, <1>3, <1>4, <1>5, <1>6, <1>7, <1>8, <1>9, <1>10, <1>11,
       <1>12, <1>13, <1>14 DEF Next

\* A volume once damaged stays so.
LEMMA DamageStays == ASSUME Inv, [Next]_vars, ~damaged' PROVE ~damaged
  BY DEF Next, vars, history, Scan, CreateFile, Overwrite, Unlink, OpenFile, SyncEntry,
         CloseClean, Flush, FlushFails, Rewind, FollowChain, Allocate, LinkCluster, DiskFull,
         TruncateTop, TruncateRest, RenameEntry, RenameRemove, RemoveCluster, Removed,
         DiskError, Interrupt

\* The current cluster of the open file is in its chain.
OwnCluster ==
    ~damaged /\ fp.name # NoName => fp.clust \in Chain(View, fp.sclust) \cup {Free}

\* The chains of what the code sees are those of what it intends.
LEMMA IntendedChain ==
    ASSUME Inv, NEW s PROVE Chain(View, s) = Chain(Intended, s)
  BY Volume, ChainClosed, ChainSame

\* The open file's chain has no cluster of another file, unless a rename is
\* half done.
LEMMA OwnChain ==
    ASSUME Inv, ~damaged, fp.name # NoName, pc # "rename",
           NEW n \in Names, n # fp.name
    PROVE  Chain(View, View[n]) \cap Chain(View, fp.sclust) = {}
  <1>1. fp.name \in Names /\ fp.name \in Entries /\ n \in Entries
    BY OpenObject, Kinds
  <1>2. Intended[fp.name] = fp.sclust /\ Intended[n] = View[n]
    BY <1>1 DEF Intended
  <1>3. Consistent(Intended) /\ Intended \in [Entries -> Values]
    BY Volume DEF Inv, Sound
  <1>4. Chain(Intended, Intended[n]) \cap Chain(Intended, Intended[fp.name]) = {}
    BY <1>1, <1>3, ChainsDisjoint
  <1> QED
    BY <1>2, <1>4, IntendedChain

\* What a step may write is in no chain of another file, directory entries
\* aside.
LEMMA OthersAvoided ==
    ASSUME Inv, OwnCluster, ~damaged, NEW e \in Clusters, Touchable(e),
           NEW n \in Names, Intended[n] = View[n],
           n # fp.name \/ \A d \in Entries : Intended[d] # e
    PROVE  e \notin Chain(View, View[n])
  <1>1. n \in Entries /\ e \notin Names
    BY Kinds
  <1>2. CASE \A d \in Entries : Intended[d] # e
    <2>1. e \notin Chain(Intended, Intended[n])
      BY <1>1, <1>2, ChainAvoids
    <2> QED
      BY <2>1, IntendedChain
  <1>3. CASE n # fp.name /\ e = fp.clust /\ fp.name # NoName /\ pc # "rename"
    <2>1. e \in Chain(View, fp.sclust)
      BY <1>3, Kinds DEF OwnCluster
    <2> QED
      BY <1>3, <2>1, OwnChain
  <1> QED
    BY <1>1, <1>2, <1>3 DEF Touchable

\* Where a step leaves the file pointer: at the top, on the first cluster, in
\* its place or on the next cluster.
LEMMA StepMoves ==
    ASSUME Inv, Next
    PROVE  \/ fp'.name = NoName \/ fp'.clust = Free \/ fp'.clust = fp'.sclust
           \/ /\ fp.name # NoName /\ fp.clust \in Clusters
              /\ fp'.sclust = fp.sclust
              /\ fp'.clust = fp.clust \/ fp'.clust = View'[fp.clust]
  <1> DEFINE Goal ==
        \/ fp'.name = NoName \/ fp'.clust = Free \/ fp'.clust = fp'.sclust
        \/ /\ fp.name # NoName /\ fp.clust \in Clusters
           /\ fp'.sclust = fp.sclust
           /\ fp'.clust = fp.clust \/ fp'.clust = View'[fp.clust]
  <1>1. ASSUME fp'.name = fp.name, fp'.sclust = fp.sclust, fp'.clust = fp.clust PROVE Goal
    BY <1>1, OpenObject
  <1>2. ASSUME fp' = fp PROVE Goal
    BY <1>1, <1>2
  <1>3. fp \in FileObjects
    BY OpenObject
  <1>4. CASE \E s \in Sectors : Scan(s)
    BY <1>2, <1>4 DEF Scan
  <1>5. CASE \E n \in Names : CreateFile(n) \/ Overwrite(n) \/ Unlink(n)
    BY <1>2, <1>5 DEF CreateFile, Overwrite, Unlink, Opened, NoFile
  <1>6. CASE \E n \in Names, w \in BOOLEAN : OpenFile(n, w)
    BY <1>6 DEF OpenFile, Opened, NoFile
  <1>7. CASE (\E next \in {"sync", "close"} : SyncEntry(next))
             \/ (\E old, new \in Names : RenameEntry(old, new)) \/ RenameRemove \/ RemoveCluster
    BY <1>2, <1>7 DEF SyncEntry, RenameEntry, RenameRemove, RemoveCluster
  <1>8. CASE CloseClean \/ Interrupt
    BY <1>8 DEF CloseClean, Interrupt, NoFile
  <1>9. CASE Flush \/ FlushFails
    <2>1. fp' = fp \/ fp' = NoFile \/ fp' = [fp EXCEPT !.modified = FALSE]
      BY <1>9 DEF Flush, FlushFails
    <2> QED
      BY <1>1, <1>2, <1>3, <2>1 DEF NoFile, FileObjects
  <1>10. CASE Rewind
    BY <1>3, <1>10 DEF Rewind, FileObjects
  <1>11. CASE FollowChain
    <2>1. PICK wrote \in {TRUE, FALSE, fp.write} :
            \/ /\ fp.clust = Free /\ fp.sclust # Free
               /\ Reached(fp.sclust, wrote)
               /\ UNCHANGED window
            \/ /\ fp.clust # Free /\ At(fp.clust) \in Clusters
               /\ Get(SectorOf[fp.clust])
               /\ Reached(At(fp.clust), wrote)
      BY <1>11 DEF FollowChain
    <2>2. wrote \in BOOLEAN
      BY <1>3 DEF FileObjects
    <2>3. CASE fp.clust = Free /\ fp.sclust # Free /\ Reached(fp.sclust, wrote)
      BY <2>2, <2>3, OpenObject, ReachedFile
    <2>4. CASE /\ fp.clust # Free /\ At(fp.clust) \in Clusters
               /\ Get(SectorOf[fp.clust]) /\ Reached(At(fp.clust), wrote)
      <3>1. fp.clust \in Clusters /\ fp.clust \in Entries /\ fp.name # NoName
        BY <2>4, OpenObject
      <3>2. fp'.clust = View[fp.clust] /\ fp.sclust # Free /\ fp'.sclust = fp.sclust
        BY <2>2, <2>4, OpenObject, ReachedFile DEF Inv, Registers
      <3>3. View' = View
        BY <2>4, <3>1, GetQuiet DEF Quiet
      <3> QED
        BY <3>1, <3>2, <3>3
    <2> QED
      BY <2>1, <2>3, <2>4
  <1>12. CASE Allocate
    <2>1. PICK c \in Clusters :
               IF fp.clust = Free THEN Reached(c, TRUE) ELSE fp' = fp
      BY <1>12, AllocateWrites
    <2>2. CASE fp.clust = Free
      <3>1. fp.sclust = Free
        BY <1>12, <2>2 DEF Allocate, AtEnd
      <3> QED
        BY <2>1, <2>2, <3>1, ReachedFile
    <2> QED
      BY <1>2, <2>1, <2>2
  <1>13. CASE LinkCluster
    <2>1. fp.clust \in Clusters /\ fp.name # NoName /\ clst \in Clusters /\ View'[fp.clust] = clst
      BY <1>13, LinkWrites
    <2>2. fp'.clust = clst /\ fp.sclust # Free /\ fp'.sclust = fp.sclust
      BY <1>13, <2>1, ReachedFile, Kinds DEF LinkCluster, Inv, Registers
    <2> QED
      BY <2>1, <2>2
  <1>14. CASE DiskFull \/ TruncateRest
    BY <1>1, <1>3, <1>14 DEF DiskFull, TruncateRest, FileObjects
  <1>15. CASE TruncateTop
    BY <1>3, <1>15 DEF TruncateTop, FileObjects
  <1>16. CASE Removed
    <2>1. fp' = fp \/ fp' = Opened(arg, TRUE, Free, TRUE) \/ \E ok \in BOOLEAN : fp' = [fp EXCEPT !.err = ~ok]
      BY <1>16 DEF Removed, Removing
    <2> QED
      BY <1>1, <1>2, <1>3, <2>1 DEF Opened, NoFile, FileObjects
  <1>17. CASE DiskError
    BY <1>1, <1>2, <1>3, <1>17 DEF DiskError, FileObjects
  <1> QED
    BY <1>4, <1>5, <1>6, <1>7, <1>8, <1>9, <1>10, <1>11, <1>12, <1>13, <1>14,
       <1>15, <1>16, <1>17 DEF Next

\* The file pointer stays in the chain of its file.
LEMMA OwnClusterStep == ASSUME Inv, OwnCluster, Next PROVE OwnCluster'
  <1> SUFFICES ASSUME ~damaged', fp'.name # NoName, fp'.clust # Free
               PROVE  fp'.clust \in Chain(View, fp.sclust)'
    BY DEF OwnCluster
  <1>1. Inv' /\ ~damaged
    BY NextInv, DamageStays
  <1>2. fp'.clust \in Clusters
    BY <1>1 DEF Inv, TypeOK, FileObjects
  <1>3. CASE fp'.clust = fp'.sclust
    BY <1>2, <1>3, ChainClosed
  <1>4. CASE /\ fp.name # NoName /\ fp.clust \in Clusters
             /\ fp'.sclust = fp.sclust
             /\ fp'.clust = fp.clust \/ fp'.clust = View'[fp.clust]
    <2> DEFINE own == Chain(View, fp.sclust)
    <2>1. fp.clust \in own /\ own \subseteq Clusters
      BY <1>1, <1>4, Kinds, ChainClosed DEF OwnCluster
    <2>2. ~Interrupt
      BY DEF Interrupt, NoFile
    <2>3. fp.clust \in Chain(View', fp.sclust)
      <3>1. CASE Quiet
        BY <2>1, <3>1 DEF Quiet
      <3>2. ASSUME NEW e \in Entries, Touchable(e), Wrote(e)
            PROVE  fp.clust \in Chain(View', fp.sclust)
        <4>1. \A d \in Clusters \ {e} : View'[d] = View[d]
          BY <3>2, Kinds DEF Wrote
        <4>2. CASE e = fp.clust
          BY <2>1, <4>1, <4>2, ChainReaches
        <4>3. CASE e # fp.clust
          <5>1. e \notin own
            <6>1. CASE e \in Names
              BY <2>1, <6>1, Kinds
            <6>2. CASE e \in Clusters /\ \A d \in Entries : Intended[d] # e
              <7>1. fp.name \in Entries /\ Intended[fp.name] = fp.sclust
                BY <1>4, OpenObject DEF Intended
              <7>2. e \notin Chain(Intended, fp.sclust)
                BY <6>2, <7>1, ChainAvoids
              <7> QED
                BY <7>2, IntendedChain
            <6> QED
              BY <1>1, <3>2, <4>3, <6>1, <6>2 DEF Touchable
          <5>2. \A d \in own : View'[d] = View[d]
            BY <2>1, <4>1, <5>1
          <5>3. Chain(View', fp.sclust) = own
            BY <5>2, ChainSame
          <5> QED
            BY <2>1, <5>3
        <4> QED
          BY <4>2, <4>3
      <3> QED
        BY <2>2, <3>1, <3>2, StepWrites
    <2>4. fp'.clust \in Chain(View', fp.sclust)
      BY <1>2, <1>4, <2>3, ChainClosed DEF Closed
    <2> QED
      BY <1>4, <2>4
  <1> QED
    BY <1>3, <1>4, StepMoves

\* A step that changes the FAT keeps the chains of the files that are not open.
LEMMA OthersStep ==
    ASSUME Inv, OwnCluster, Next, ~damaged', ~Interrupt,
           NEW n \in Names, n # fp.name, View'[n] = View[n],
           NEW c \in Clusters, View'[c] # View[c]
    PROVE  /\ Chain(View', View'[n]) = Chain(View, View[n])
           /\ \A d \in Chain(View, View[n]) : View'[d] = View[d]
  <1>1. ~damaged
    BY DamageStays
  <1>2. PICK e \in Entries : Touchable(e) /\ Wrote(e)
    BY StepWrites DEF Quiet
  <1>3. e = c /\ c \in Entries /\ c \notin Names
    BY <1>2, Kinds DEF Wrote
  <1>4. pc # "rename"
    BY <1>2, <1>3 DEF Touchable
  <1>5. n \in Entries /\ Intended[n] = View[n]
    BY <1>4, Kinds DEF Intended
  <1>6. c \notin Chain(View, View[n])
    BY <1>1, <1>2, <1>3, <1>5, OthersAvoided
  <1>7. \A d \in Chain(View, View[n]) : View'[d] = View[d]
    BY <1>2, <1>3, <1>6, Kinds, ChainClosed DEF Wrote
  <1>8. Chain(View', View[n]) = Chain(View, View[n])
    BY <1>7, ChainSame
  <1> QED
    BY <1>7, <1>8

\* The same for the files as FilesKept sees them.
LEMMA KeepsStep ==
    ASSUME Inv, OwnCluster, [Next]_vars PROVE [KeepsOtherFiles]_vars
  <1> SUFFICES ASSUME Next, ~damaged', ~Interrupt,
                      NEW c \in Clusters, At(c)' # At(c),
                      NEW n \in Names \ {fp.name}, View'[n] = View[n]
               PROVE  File(View', n) = File(View, n)
    BY DEF KeepsOtherFiles
  <1>1. View'[c] # View[c]
    BY Kinds DEF View
  <1>2. /\ Chain(View', View'[n]) = Chain(View, View[n])
        /\ \A d \in Chain(View, View[n]) : View'[d] = View[d]
    BY <1>1, OthersStep
  <1> QED
    BY <1>2 DEF File

\* The inductive invariant with the file pointer.
LEMMA OwnClusterInvariance == Spec => [](Inv /\ OwnCluster)
  <1>1. Init => OwnCluster
    BY DEF Init, OwnCluster, NoFile
  <1>2. OwnCluster /\ UNCHANGED vars => OwnCluster'
    BY DEF OwnCluster, vars, window, history, View, At, Chain, Closed
  <1>3. Inv /\ OwnCluster /\ [Next]_vars => OwnCluster'
    BY <1>2, OwnClusterStep
  <1> QED
    BY <1>1, <1>3, InitInv, NextInv, PTL DEF Spec

\* f_write only ever writes to a cluster of its own file, however the calls on
\* other files, the errors of the card and the retries are interleaved and for
\* every size and layout of the volume.
THEOREM WritesOwnChainCorrect == Spec => []WritesOwnChain
  <1>1. Inv /\ OwnCluster => WritesOwnChain
    BY OwnChain DEF OwnCluster, WritesOwnChain
  <1> QED
    BY <1>1, OwnClusterInvariance, PTL

\* No call, complete or cut short by an error, changes the chain of a file
\* that it does not name, for every size and layout of the volume.
THEOREM FilesKeptCorrect == Spec => FilesKept
  BY OwnClusterInvariance, KeepsStep, PTL DEF Spec, FilesKept

------------------------------------------------------------------------------
(* What is on the card.                                                    *)

\* The file of a name is on the card as the code sees it.
OnCard(n) ==
    /\ disk[n] = View[n]
    /\ \A c \in Chain(View, View[n]) : disk[c] = View[c]

\* The open file is changed or being written.
Changing == fp.modified \/ pc \in {"write", "link"}

\* No call that removes or renames is under way, and the name is neither being
\* overwritten nor that of a file that is changed or being written.
Settled(n) ==
    /\ pc \notin {"unlink", "flush"} \cup Red
    /\ pc = "overwrite" => n # arg
    /\ Changing => n # fp.name

\* An open file that is neither changed nor being written has its entry up to date.
EntryInv == fp.name # NoName /\ ~Changing => View[fp.name] = fp.sclust

\* Until the card fails, every settled file is on the card.
CardInv ==
    ~failed /\ ~damaged => EntryInv /\ \A n \in Names : Settled(n) => OnCard(n)

\* What is on the card stays there while the code sees the same.
LEMMA OnCardKept ==
    ASSUME Inv, NEW n \in Names, OnCard(n), disk' = disk \/ disk' = View,
           View'[n] = View[n], \A c \in Chain(View, View[n]) : View'[c] = View[c]
    PROVE  OnCard(n)'
  <1>1. Chain(View', View[n]) = Chain(View, View[n])
    BY ChainSame
  <1>2. Chain(View, View[n])' = Chain(View, View[n])
    BY <1>1
  <1> QED
    BY <1>2 DEF OnCard

\* A card that holds all that the code sees holds every file.
LEMMA OnCardAll == ASSUME disk = View, NEW n PROVE OnCard(n)
  BY DEF OnCard

\* Two volumes that agree on an entry and on its chain hold the same file.
LEMMA SameFile ==
    ASSUME NEW v, NEW w, NEW n, w[n] = v[n], \A c \in Chain(v, v[n]) : w[c] = v[c]
    PROVE  File(w, n) = File(v, n)
  <1>1. Chain(w, v[n]) = Chain(v, v[n])
    BY ChainSame
  <1> QED
    BY <1>1 DEF File

\* Without an error an interruption is the only step that forgets one.
LEMMA FailureStays == ASSUME Inv, Next, ~failed' PROVE Interrupt \/ ~failed
  <1>1. ASSUME NEW c, NEW wrote, Reached(c, wrote) PROVE ~failed
    BY <1>1 DEF Reached
  <1>2. CASE FollowChain \/ Allocate \/ LinkCluster
    BY <1>1, <1>2 DEF FollowChain, Allocate, LinkCluster
  <1>3. CASE Removed
    BY <1>3 DEF Removed, Removing
  <1>4. CASE DiskError \/ FlushFails
    BY <1>4 DEF DiskError, FlushFails
  <1> QED
    BY <1>2, <1>3, <1>4 DEF Next, history, Scan, CreateFile, Overwrite, Unlink, OpenFile,
       SyncEntry, CloseClean, Flush, Rewind, DiskFull, TruncateTop, TruncateRest,
       RenameEntry, RenameRemove, RemoveCluster

\* A write that goes on or ends without an error leaves the file changing.
LEMMA ReachedChanging ==
    ASSUME Inv, NEW c \in Clusters, Reached(c, TRUE), ~failed'
    PROVE  fp'.name = fp.name /\ Changing'
  <1>1. fp \in FileObjects /\ fp.modified \in BOOLEAN
    BY OpenObject DEF FileObjects
  <1>2. PICK ok \in BOOLEAN, more \in BOOLEAN :
          /\ fp' = [fp EXCEPT !.clust = c, !.sclust = IF @ = Free THEN c ELSE @,
                              !.modified = @ \/ (ok /\ TRUE /\ ~more), !.err = ~ok]
          /\ pc' = IF more THEN "write" ELSE "idle"
          /\ failed' = (failed \/ ~ok)
    BY DEF Reached
  <1>3. ok
    BY <1>2
  <1>4. fp'.modified = (fp.modified \/ (ok /\ ~more)) /\ fp'.name = fp.name
    BY <1>1, <1>2 DEF FileObjects
  <1> QED
    BY <1>2, <1>3, <1>4 DEF Changing

\* Following the chain keeps a changing file changing.
LEMMA FollowChanging ==
    ASSUME Inv, FollowChain, ~failed'
    PROVE  fp'.name = fp.name /\ fp'.sclust = fp.sclust /\ (Changing => Changing')
  <1>1. fp \in FileObjects /\ fp.write \in BOOLEAN
    BY OpenObject DEF FileObjects
  <1>2. PICK c \in Clusters, wrote \in BOOLEAN :
          Reached(c, wrote) /\ fp.sclust # Free /\ (pc = "write" => wrote = TRUE)
    BY <1>1, OpenObject DEF FollowChain, Inv, Registers
  <1>3. fp'.name = fp.name /\ fp'.sclust = fp.sclust /\ (fp.modified => fp'.modified)
    BY <1>2, ReachedFile
  <1>4. pc = "write" => Changing'
    BY <1>2, ReachedChanging
  <1>5. pc \in {"idle", "write"}
    BY GrowingFile DEF FollowChain
  <1> QED
    BY <1>3, <1>4, <1>5 DEF Changing

\* The reason for which a file is on the card after a step: the whole volume
\* is, or the file was and the step leaves it alone.
Kept(n) ==
    \/ disk' = View'
    \/ /\ Settled(n) /\ View'[n] = View[n]
       /\ \/ Quiet
          \/ \E e \in Entries :
                /\ Touchable(e) /\ Wrote(e)
                /\ e \in Clusters =>
                       n # fp.name \/ \A d \in Entries : Intended[d] # e

\* After an interruption the code sees the card, and no file is open.
LEMMA InterruptView ==
    ASSUME Inv, Interrupt PROVE View' = disk /\ disk' = disk /\ fp' = NoFile
  <1>1. \A e \in Entries : SectorOf[e] # NoSector
    BY VolumeOK DEF Sectors
  <1>2. \A e \in Entries : At(e)' = disk[e]
    BY <1>1 DEF Interrupt, Unload, At
  <1> QED
    BY <1>2, Volume DEF Interrupt, View, WindowType, Contents

\* A name that is being written keeps the others.
LEMMA KeptPut ==
    ASSUME Inv, NEW m \in Names, Touchable(m), Wrote(m),
           NEW n \in Names, n # m, Settled(n)
    PROVE  Kept(n)
  <1>1. m \in Entries /\ n \in Entries /\ m \notin Clusters
    BY Kinds
  <1> QED
    BY <1>1 DEF Kept, Wrote

\* A step that changes no entry keeps every file.
LEMMA KeptQuiet ==
    ASSUME Quiet, NEW n \in Names, Settled(n) PROVE Kept(n)
  BY DEF Quiet, Kept

\* A step that changes a cluster keeps the files it is not in.
LEMMA KeptCluster ==
    ASSUME Inv, NEW c \in Clusters, Touchable(c), Wrote(c), NEW n \in Names, Settled(n),
           n # fp.name \/ \A d \in Entries : Intended[d] # c
    PROVE  Kept(n)
  <1>1. c \in Entries /\ n \in Entries /\ n # c
    BY Kinds
  <1> QED
    BY <1>1 DEF Kept, Wrote

\* Whatever a step does without failing, a file it leaves settled is kept.
LEMMA StepKeeps ==
    ASSUME Inv, Next, ~failed', ~damaged, NEW n \in Names, Settled(n)' PROVE Kept(n)
  <1>0. /\ fp \in FileObjects /\ fp.modified \in BOOLEAN /\ n # NoName
        /\ fp.name # NoName => fp.name \in Names /\ fp.name \in Entries
    BY OpenObject, Kinds DEF FileObjects
  <1>1. ASSUME Quiet, Settled(n) PROVE Kept(n)
    BY <1>1, KeptQuiet
  <1>2. CASE \E s \in Sectors : Scan(s)
    <2>1. Quiet
      BY <1>2, Volume, GetEffect DEF Scan, Stored, WriteBack, Quiet
    <2> QED
      BY <1>1, <1>2, <2>1 DEF Scan, call, Settled, Changing, Idle
  <1>3. ASSUME NEW m \in Names, CreateFile(m) PROVE Kept(n)
    <2>1. Touchable(m) /\ Wrote(m)
      BY <1>3, PutName DEF CreateFile
    <2>2. fp'.name = m /\ fp'.modified /\ n # m
      BY <1>3 DEF CreateFile, Opened, NoFile, Settled, Changing
    <2>3. Settled(n)
      BY <1>0, <1>3 DEF CreateFile, Idle, Red, Settled
    <2> QED
      BY <2>1, <2>2, <2>3, KeptPut
  <1>4. ASSUME NEW m \in Names, Overwrite(m) PROVE Kept(n)
    <2>1. Touchable(m) /\ Wrote(m)
      BY <1>4, PutName DEF Overwrite
    <2>2. n # m /\ Settled(n)
      BY <1>0, <1>4 DEF Overwrite, Idle, Red, Settled
    <2> QED
      BY <2>1, <2>2, KeptPut
  <1>5. CASE \/ \E m \in Names : Unlink(m)
             \/ \E old, new \in Names : RenameEntry(old, new)
             \/ RenameRemove
    BY <1>5 DEF Unlink, RenameEntry, RenameRemove, Settled, Red
  <1>6. CASE \E m \in Names, w \in BOOLEAN : OpenFile(m, w)
    <2>1. Quiet
      BY <1>6, NameHolds, GetQuiet DEF OpenFile
    <2>2. Settled(n)
      BY <1>0, <1>6 DEF OpenFile, call, Idle, Settled, Red
    <2> QED
      BY <1>1, <2>1, <2>2
  <1>7. ASSUME NEW next \in {"sync", "close"}, SyncEntry(next) PROVE Kept(n)
    <2>1. fp.name \in Names /\ Touchable(fp.name) /\ Wrote(fp.name)
      BY <1>7, OpenObject, PutName DEF SyncEntry
    <2>2. n # fp.name /\ Settled(n)
      BY <1>0, <1>7 DEF SyncEntry, Idle, Settled, Red, Changing
    <2> QED
      BY <2>1, <2>2, KeptPut
  <1>8. CASE CloseClean \/ Rewind \/ DiskFull
    <2>1. Quiet
      BY <1>8, NoAccessQuiet DEF CloseClean, Rewind, DiskFull
    <2>2. Settled(n)
      <3>1. CASE CloseClean
        BY <1>0, <3>1 DEF CloseClean, Idle, call, Settled, Changing
      <3>2. CASE Rewind
        BY <1>0, <3>2 DEF Rewind, Using, Idle, call, Settled, Changing, FileObjects
      <3>3. CASE DiskFull
        <4>1. fp'.name = fp.name /\ fp'.modified /\ pc \in {"idle", "write"}
          BY <1>0, <3>3, GrowingFile DEF DiskFull, FileObjects
        <4> QED
          BY <4>1 DEF Settled, Changing, Red
      <3> QED
        BY <1>8, <3>1, <3>2, <3>3
    <2> QED
      BY <1>1, <2>1, <2>2
  <1>9. CASE Flush
    BY <1>9, Volume, FlushEffect DEF Flush, Kept
  <1>10. CASE FlushFails \/ DiskError
    BY <1>10 DEF FlushFails, DiskError
  <1>11. CASE FollowChain
    <2>1. Quiet
      BY <1>11, OpenObject, NoAccessQuiet, GetQuiet DEF FollowChain
    <2>2. fp'.name = fp.name /\ (Changing => Changing') /\ pc \in {"idle", "write"}
      BY <1>11, FollowChanging, GrowingFile DEF FollowChain
    <2>3. Settled(n)
      BY <1>11, <2>2 DEF Settled, Red
    <2> QED
      BY <1>1, <2>1, <2>3
  <1>12. CASE Allocate
    <2>1. PICK c \in Clusters :
            /\ Touchable(c) /\ Wrote(c)
            /\ \A d \in Entries : Intended[d] # c
            /\ IF fp.clust = Free
               THEN Reached(c, TRUE) /\ UNCHANGED <<clst, arg>>
               ELSE pc' = "link" /\ UNCHANGED <<fp, arg, failed>>
      BY <1>12, AllocateWrites
    <2>2. fp'.name = fp.name /\ Changing'
      BY <2>1, ReachedChanging DEF Changing
    <2>3. Settled(n)
      BY <1>12, <2>2, GrowingFile DEF Allocate, Settled, Red
    <2> QED
      BY <2>1, <2>3, KeptCluster
  <1>13. CASE LinkCluster
    <2>1. fp.clust \in Clusters /\ Touchable(fp.clust) /\ Wrote(fp.clust) /\ clst \in Clusters
      BY <1>13, LinkWrites
    <2>2. fp'.name = fp.name /\ Changing'
      BY <1>13, <2>1, ReachedChanging DEF LinkCluster
    <2>3. n # fp.name /\ Settled(n)
      BY <1>13, <2>2 DEF LinkCluster, Settled, Red
    <2> QED
      BY <2>1, <2>3, KeptCluster
  <1>14. CASE TruncateTop
    <2>1. Quiet
      BY <1>14 DEF TruncateTop, Quiet, View, At
    <2>2. fp'.name = fp.name /\ fp'.modified
      BY <1>0, <1>14 DEF TruncateTop, FileObjects
    <2>3. Settled(n)
      BY <1>14, <2>2, UsingFile DEF TruncateTop, Writing, Settled, Red, Changing, Idle, Using
    <2> QED
      BY <1>1, <2>1, <2>3
  <1>15. CASE TruncateRest
    <2>1. fp.clust \in Clusters /\ Touchable(fp.clust) /\ Wrote(fp.clust) /\ pc = "idle"
      BY <1>15, CutWrites
    <2>2. fp'.name = fp.name /\ fp'.modified
      BY <1>0, <1>15 DEF TruncateRest, FileObjects
    <2>3. n # fp.name /\ Settled(n)
      BY <2>1, <2>2 DEF Settled, Red, Changing, Idle
    <2> QED
      BY <2>1, <2>3, KeptCluster
  <1>16. CASE RemoveCluster
    <2>1. clst \in Clusters /\ Touchable(clst) /\ Wrote(clst) /\ \A d \in Entries : Intended[d] # clst
      BY <1>16, RemoveWrites
    <2>2. Settled(n)
      BY <1>16 DEF RemoveCluster, Settled, Changing, Idle, Removing, Red
    <2> QED
      BY <2>1, <2>2, KeptCluster
  <1>17. CASE Removed
    <2>1. CASE pc = "overwrite"
      <3>1. Quiet
        BY <1>17, <2>1, NameHolds, GetQuiet DEF Removed, Inv, Registers
      <3>2. fp'.name = arg /\ fp'.modified
        BY <1>17, <2>1 DEF Removed, Opened, NoFile
      <3>3. fp.modified => fp.name # NoName
        BY OpenObject
      <3>4. Settled(n)
        BY <2>1, <3>2, <3>3 DEF Settled, Red, Inv, Registers, Changing, Idle
      <3> QED
        BY <1>1, <3>1, <3>4
    <2>2. CASE pc = "unlink"
      BY <1>17, <2>2 DEF Removed, Settled
    <2>3. CASE pc = "truncate"
      <3>1. Quiet
        BY <1>17, <2>3, NoAccessQuiet DEF Removed
      <3>2. fp'.name = fp.name /\ fp'.modified = fp.modified
        BY <1>0, <1>17, <2>3 DEF Removed, FileObjects
      <3>3. Settled(n)
        BY <2>3, <3>2 DEF Settled, Red, Changing, Idle
      <3> QED
        BY <1>1, <3>1, <3>3
    <2> QED
      BY <1>17, <2>1, <2>2, <2>3 DEF Removed, Removing
  <1>18. CASE Interrupt
    BY <1>18, InterruptView DEF Kept
  <1> QED
    BY <1>2, <1>3, <1>4, <1>5, <1>6, <1>7, <1>8, <1>9, <1>10, <1>11, <1>12,
       <1>13, <1>14, <1>15, <1>16, <1>17, <1>18 DEF Next

\* A file that is kept is on the card after the step.
LEMMA KeptOnCard ==
    ASSUME Inv, OwnCluster, EntryInv, ~damaged, NEW n \in Names, Kept(n),
           Settled(n) => OnCard(n)
    PROVE  OnCard(n)'
  <1>1. CASE disk' = View'
    BY <1>1, OnCardAll DEF OnCard
  <1>2. CASE /\ Settled(n) /\ View'[n] = View[n]
             /\ Quiet
    BY <1>2, OnCardKept DEF Quiet
  <1>3. ASSUME Settled(n), View'[n] = View[n], NEW e \in Entries, Touchable(e), Wrote(e),
               e \in Clusters => n # fp.name \/ \A d \in Entries : Intended[d] # e
        PROVE  OnCard(n)'
    <2>1. n \in Entries /\ Intended[n] = View[n]
      <3>1. pc # "rename" /\ n \in Entries /\ n # NoName
        BY <1>3, Kinds DEF Settled, Red
      <3> QED
        BY <1>3, <3>1 DEF Settled, EntryInv, Intended
    <2>2. e \notin Chain(View, View[n])
      BY <1>3, <2>1, OthersAvoided, ChainClosed
    <2>3. \A c \in Chain(View, View[n]) : View'[c] = View[c]
      BY <1>3, <2>2, ChainClosed, Kinds DEF Wrote
    <2> QED
      BY <1>3, <2>3, OnCardKept DEF Wrote
  <1> QED
    BY <1>1, <1>2, <1>3 DEF Kept

\* A step that does not fail leaves the entry of an unchanged file up to date.
LEMMA EntryStep ==
    ASSUME Inv, EntryInv, Next, ~failed' PROVE EntryInv'
  <1> SUFFICES ASSUME fp'.name # NoName, ~Changing'
               PROVE  View'[fp'.name] = fp'.sclust
    BY DEF EntryInv
  <1>0. /\ fp \in FileObjects /\ fp.modified \in BOOLEAN
        /\ fp.name # NoName => fp.name \in Names /\ fp.name \in Entries /\ fp.name \notin Clusters
    BY OpenObject, Kinds DEF FileObjects
  <1>1. ASSUME Quiet, fp'.name = fp.name, fp'.sclust = fp.sclust,
               Changing => Changing'
        PROVE  View'[fp'.name] = fp'.sclust
    BY <1>1 DEF Quiet, EntryInv
  <1>2. ASSUME NEW e \in Entries, Wrote(e), e # fp.name, fp'.name = fp.name,
               fp'.sclust = fp.sclust, Changing => Changing'
        PROVE  View'[fp'.name] = fp'.sclust
    BY <1>0, <1>2 DEF Wrote, EntryInv
  <1>3. ASSUME NEW c \in Clusters, Reached(c, TRUE) PROVE FALSE
    BY <1>3, ReachedChanging
  <1>4. CASE \E s \in Sectors : Scan(s)
    <2>1. Quiet
      BY <1>4, Volume, GetEffect DEF Scan, Stored, WriteBack, Quiet
    <2> QED
      BY <1>1, <1>4, <2>1 DEF Scan, Changing, Idle
  <1>5. CASE \E m \in Names : CreateFile(m) \/ Overwrite(m)
    BY <1>5 DEF CreateFile, Overwrite, Opened, NoFile, Inv, Registers, Changing, Idle
  <1>6. ASSUME NEW m \in Names, Unlink(m) PROVE View'[fp'.name] = fp'.sclust
    <2>1. m \in Entries /\ Wrote(m)
      BY <1>6, PutName DEF Unlink
    <2> QED
      BY <1>2, <1>6, <2>1 DEF Unlink, Changing, Idle
  <1>7. ASSUME NEW old \in Names, NEW new \in Names, RenameEntry(old, new)
        PROVE  View'[fp'.name] = fp'.sclust
    <2>1. new \in Entries /\ Wrote(new) /\ View[new] = Absent
      BY <1>7, NameHolds, PutName DEF RenameEntry
    <2>2. fp' = fp /\ new # fp.name
      BY <1>7, <2>1 DEF RenameEntry, Inv, Registers
    <2> QED
      BY <1>2, <1>7, <2>1, <2>2 DEF Changing, Idle, RenameEntry
  <1>8. CASE RenameRemove
    <2>1. arg \in Entries /\ Wrote(arg) /\ arg # fp.name
      BY <1>8, PutName DEF RenameRemove, Inv, Registers
    <2> QED
      BY <1>2, <1>8, <2>1 DEF RenameRemove, Changing
  <1>9. ASSUME NEW m \in Names, NEW w \in BOOLEAN, OpenFile(m, w)
        PROVE  View'[fp'.name] = fp'.sclust
    <2>1. Quiet /\ At(m) = View[m]
      BY <1>9, NameHolds, GetQuiet DEF OpenFile
    <2> QED
      BY <1>9, <2>1 DEF OpenFile, Opened, NoFile, Quiet
  <1>10. CASE \E next \in {"sync", "close"} : SyncEntry(next)
    BY <1>10 DEF SyncEntry, Changing, Idle
  <1>11. CASE CloseClean \/ Interrupt
    BY <1>11 DEF CloseClean, Interrupt, NoFile
  <1>12. CASE Rewind
    BY <1>0, <1>1, <1>12, NoAccessQuiet DEF Rewind, FileObjects, Changing, Idle, Using
  <1>13. CASE DiskFull \/ TruncateTop \/ TruncateRest
    BY <1>0, <1>13 DEF DiskFull, TruncateTop, TruncateRest, FileObjects, Changing
  <1>14. CASE Flush
    <2>1. Quiet
      BY <1>14, Volume, FlushEffect DEF Flush, Quiet
    <2>2. CASE pc = "sync"
      <3>1. fp' = [fp EXCEPT !.modified = FALSE] /\ View[fp.name] = fp.sclust
        BY <1>14, <2>2 DEF Flush, Inv, Registers
      <3> QED
        BY <1>0, <2>1, <3>1 DEF Quiet, FileObjects
    <2>3. CASE pc # "sync"
      <3>1. fp' = fp \/ fp' = NoFile
        BY <1>14, <2>3 DEF Flush
      <3> QED
        BY <1>1, <1>14, <2>1, <3>1 DEF NoFile, Flush, Flushing, Changing
    <2> QED
      BY <2>2, <2>3
  <1>15. CASE FlushFails \/ DiskError
    BY <1>15 DEF FlushFails, DiskError
  <1>16. CASE FollowChain
    <2>1. Quiet
      BY <1>16, OpenObject, NoAccessQuiet, GetQuiet DEF FollowChain
    <2> QED
      BY <1>1, <1>16, <2>1, FollowChanging
  <1>17. CASE Allocate
    BY <1>3, <1>17, AllocateWrites DEF Changing
  <1>18. CASE LinkCluster
    BY <1>3, <1>18, LinkWrites DEF LinkCluster
  <1>19. CASE RemoveCluster
    <2>1. clst \in Entries /\ clst # fp.name /\ Wrote(clst)
      BY <1>0, <1>19, RemoveWrites, Kinds
    <2> QED
      BY <1>2, <1>19, <2>1 DEF RemoveCluster, Changing, Removing
  <1>20. CASE Removed
    <2>1. CASE pc = "overwrite"
      BY <1>20, <2>1 DEF Removed, Opened, NoFile, Changing
    <2>2. CASE pc \in {"unlink", "truncate"}
      <3>1. Quiet
        BY <1>20, <2>2, NoAccessQuiet DEF Removed
      <3>2. fp' = fp \/ \E ok \in BOOLEAN : fp' = [fp EXCEPT !.err = ~ok]
        BY <1>20, <2>2 DEF Removed
      <3> QED
        BY <1>0, <1>1, <1>20, <2>2, <3>1, <3>2 DEF FileObjects, Changing, Removed
    <2> QED
      BY <1>20, <2>1, <2>2 DEF Removed, Removing
  <1> QED
    BY <1>4, <1>5, <1>6, <1>7, <1>8, <1>9, <1>10, <1>11, <1>12, <1>13, <1>14,
       <1>15, <1>16, <1>17, <1>18, <1>19, <1>20 DEF Next

\* Every step keeps the card up to date for the files that are settled.
LEMMA CardStep == ASSUME Inv, OwnCluster, CardInv, Next PROVE CardInv'
  <1> SUFFICES ASSUME ~failed', ~damaged'
               PROVE  EntryInv' /\ \A n \in Names : Settled(n)' => OnCard(n)'
    BY DEF CardInv
  <1>1. ~damaged
    BY DamageStays
  <1>2. CASE Interrupt
    <2>1. disk' = View' /\ fp' = NoFile
      BY <1>2, InterruptView
    <2>2. \A n \in Names : OnCard(n)'
      BY <2>1 DEF OnCard
    <2> QED
      BY <2>1, <2>2 DEF EntryInv, NoFile
  <1>3. CASE ~Interrupt
    <2>1. EntryInv /\ \A n \in Names : Settled(n) => OnCard(n)
      BY <1>1, <1>3, FailureStays DEF CardInv
    <2>2. \A n \in Names : Settled(n)' => OnCard(n)'
      BY <1>1, <2>1, StepKeeps, KeptOnCard
    <2> QED
      BY <2>1, <2>2, EntryStep
  <1> QED
    BY <1>2, <1>3

\* Only f_close takes the name of an open file out of the table.
LEMMA StepCloses ==
    ASSUME Inv, Next, fp.name # NoName, fp'.name # fp.name
    PROVE  CloseClean \/ Interrupt \/ (Flush /\ pc = "close")
  <1>0. fp \in FileObjects
    BY OpenObject
  <1>1. CASE \/ \E s \in Sectors : Scan(s)
             \/ \E n \in Names : CreateFile(n) \/ Overwrite(n) \/ Unlink(n)
             \/ \E n \in Names, w \in BOOLEAN : OpenFile(n, w)
             \/ \E next \in {"sync", "close"} : SyncEntry(next)
             \/ \E old, new \in Names : RenameEntry(old, new)
             \/ RenameRemove \/ RemoveCluster
    BY <1>1 DEF Scan, CreateFile, Overwrite, Unlink, OpenFile, SyncEntry, RenameEntry,
                RenameRemove, RemoveCluster
  <1>2. CASE Flush
    BY <1>0, <1>2 DEF Flush, FileObjects
  <1>3. CASE FlushFails \/ Rewind \/ DiskFull \/ TruncateTop \/ TruncateRest
    BY <1>0, <1>3 DEF FlushFails, Rewind, DiskFull, TruncateTop, TruncateRest, FileObjects
  <1>4. ASSUME NEW c, NEW wrote, Reached(c, wrote) PROVE FALSE
    BY <1>0, <1>4 DEF Reached, FileObjects
  <1>5. CASE FollowChain \/ Allocate \/ LinkCluster
    BY <1>4, <1>5 DEF FollowChain, Allocate, LinkCluster
  <1>6. CASE Removed
    BY <1>0, <1>6 DEF Removed, Removing, Inv, Registers, FileObjects
  <1>7. CASE DiskError
    BY <1>0, <1>7 DEF DiskError, FileObjects
  <1> QED
    BY <1>1, <1>2, <1>3, <1>5, <1>6, <1>7 DEF Next

\* A file that f_close lets go is on the card with the chain it had.
LEMMA ClosedStep ==
    ASSUME Inv, CardInv, Next, ~failed', ~damaged', ~Interrupt,
           fp.name # NoName, fp'.name # fp.name
    PROVE  File(disk', fp.name)
               = <<fp.sclust, [c \in Chain(View, fp.sclust) |-> View[c]]>>
  <1>1. ~damaged /\ ~failed /\ fp.name \in Names
    BY DamageStays, FailureStays, OpenObject
  <1>2. /\ View[fp.name] = fp.sclust /\ disk'[fp.name] = View[fp.name]
        /\ \A c \in Chain(View, View[fp.name]) : disk'[c] = View[c]
    <2>1. CASE CloseClean
      <3>1. View[fp.name] = fp.sclust /\ Settled(fp.name) /\ disk' = disk
        BY <1>1, <2>1 DEF CloseClean, CardInv, EntryInv, Settled, Idle, Red, window, Changing
      <3> QED
        BY <1>1, <3>1 DEF CardInv, OnCard
    <2>2. CASE Flush /\ pc = "close"
      <3>1. disk' = View
        BY <2>2, Volume, FlushEffect DEF Flush
      <3> QED
        BY <2>2, <3>1 DEF Inv, Registers
    <2> QED
      BY <2>1, <2>2, StepCloses
  <1>3. File(disk', fp.name) = File(View, fp.name)
    BY <1>2, SameFile
  <1> QED
    BY <1>2, <1>3 DEF File

\* The same for all files between two calls.
LEMMA LeavesStep ==
    ASSUME Inv, OwnCluster, CardInv, [Next]_vars PROVE [LeavesFilesOnDisk]_vars
  <1> SUFFICES ASSUME Next, Idle', ~failed', ~damaged' PROVE LeavesFilesOnDisk
    BY DEF LeavesFilesOnDisk
  <1>1. CardInv'
    BY CardStep
  <1>2. ASSUME NEW n \in Names \ {fp'.name} PROVE File(disk', n) = File(View', n)
    <2>1. Settled(n)'
      BY DEF Settled, Idle, Red
    <2>2. OnCard(n)'
      BY <1>1, <2>1 DEF CardInv
    <2>3. disk'[n] = View'[n] /\ \A c \in Chain(View', View'[n]) : disk'[c] = View'[c]
      BY <2>2 DEF OnCard
    <2> QED
      BY <2>3, SameFile
  <1> QED
    BY <1>2, ClosedStep DEF LeavesFilesOnDisk

\* Until the card reports an error, what f_close, f_unlink and f_rename say is
\* done is on the card, for every size and layout of the volume, so that an
\* interruption between two calls costs at most the open file.
THEOREM ClosedIsOnDiskCorrect == Spec => ClosedIsOnDisk
  <1>1. Init => CardInv
    <2> SUFFICES ASSUME Init PROVE CardInv
      OBVIOUS
    <2>1. \A e \in Entries : SectorOf[e] # NoSector
      BY VolumeOK DEF Sectors
    <2>2. View = disk
      BY <2>1 DEF Init, View, At
    <2>3. EntryInv
      BY DEF Init, EntryInv, NoFile
    <2> QED
      BY <2>2, <2>3, OnCardAll DEF CardInv
  <1>2. CardInv /\ UNCHANGED vars => CardInv'
    <2> SUFFICES ASSUME CardInv, UNCHANGED vars PROVE CardInv'
      OBVIOUS
    <2>1. UNCHANGED <<disk, fp, pc, arg, failed, damaged>> /\ View' = View
      BY DEF vars, window, call, history, View, At
    <2>2. \A n : (Settled(n)' <=> Settled(n)) /\ (OnCard(n)' <=> OnCard(n))
      BY <2>1 DEF Settled, OnCard, Changing
    <2> QED
      BY <2>1, <2>2 DEF CardInv, EntryInv, Changing
  <1>3. Inv /\ OwnCluster /\ CardInv /\ [Next]_vars => CardInv'
    BY <1>2, CardStep
  <1>4. Spec => []CardInv
    BY <1>1, <1>3, OwnClusterInvariance, PTL DEF Spec
  <1> QED
    BY <1>4, OwnClusterInvariance, LeavesStep, PTL DEF Spec, ClosedIsOnDisk

==============================================================================
