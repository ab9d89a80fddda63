-------------------------- MODULE ActionPoolProofs --------------------------
(***************************************************************************)
(* The pool of action objects for every number of objects, tasks, sockets  *)
(* and actions: its three linked lists stay lists, its signals reach the   *)
(* calls they are meant for, and it implements one lock for each key.      *)
(***************************************************************************)
EXTENDS ActionPool, FiniteSetTheorems, TLAPS

Link == [Obj -> 0..N]

Reach(next, head) == Visited(next, head, {})

\* The three lists end and have no object in common.
Lists(next, f, p, a) ==
    /\ next \in Link /\ f \in 0..N /\ p \in 0..N /\ a \in 0..N
    /\ Ends(next, f) /\ Ends(next, p) /\ Ends(next, a)
    /\ Members(next, f) \cap Members(next, p) = {}
    /\ Members(next, f) \cap Members(next, a) = {}
    /\ Members(next, p) \cap Members(next, a) = {}

ObjCall(o) == [act |-> ActionID[o], sd |-> AdditionalData[o]]

\* A call under way has an object of its own, which holds its parameters.
CallInv ==
    /\ \A t \in Task :
          IF pc[t] = "idle" THEN ObjIdx[t] = N
          ELSE ObjIdx[t] \in Obj /\ call[t] \in May[t] /\ ObjCall(ObjIdx[t]) = call[t]
    /\ \A t, u \in Task : pc[t] # "idle" /\ ObjIdx[t] = ObjIdx[u] => t = u

\* The bitmap has the keys that are owned, each by one call, and those lost.
KeyInv ==
    /\ \A t \in Task : pc[t] \in Owning => Key(call[t]) \in ActiveActions \ leaked
    /\ \A t, u \in Task :
          pc[t] \in Owning /\ pc[u] \in Owning /\ Key(call[t]) = Key(call[u]) => t = u
    /\ leaked \subseteq ActiveActions
    /\ \A k \in ActiveActions \ leaked : \E t \in Task : pc[t] \in Owning /\ Key(call[t]) = k

\* A call that waits to be woken is in the pending list, one that owns its key
\* in the active list and one in between in none.
Listed(t) ==
    /\ pc[t] = "pend" /\ ~SyncObj[ObjIdx[t]] => ObjIdx[t] \in PendingList
    /\ pc[t] = "pend" /\ SyncObj[ObjIdx[t]] => ObjIdx[t] \notin PendingList \cup ActiveList
    /\ pc[t] = "recheck" => ObjIdx[t] \notin PendingList \cup ActiveList
    /\ pc[t] \in Owning => ObjIdx[t] \in ActiveList
    /\ pc[t] # "idle" => ObjIdx[t] \notin FreeList

\* An object of the free list is blank, one of the pending list belongs to a
\* call that waits, one of the active list to a call that owns its key or has
\* returned without a release.
Blank(o) == ActionID[o] = NoAction /\ AdditionalData[o] = NoSocket /\ ~SyncObj[o]

ListInv ==
    /\ Lists(NextIndex, FreePoolIdx, PendingPoolIdx, ActivePoolIdx)
    /\ \A t \in Task : Listed(t)
    /\ \A o \in FreeList : Blank(o)
    /\ \A o \in PendingList : \E t \in Task : pc[t] = "pend" /\ ObjIdx[t] = o
    /\ \A o \in ActiveList :
          \/ \E t \in Task : pc[t] \in Owning /\ ObjIdx[t] = o
          \/ ObjKey(o) \in leaked /\ \E t \in Task : ObjCall(o) \in May[t]

\* Only a call that waits can find its object signalled, and not before its
\* answer.
SignalInv ==
    /\ \A t \in Task : pc[t] \in {"send", "release", "recheck"} => ~SyncObj[ObjIdx[t]]
    /\ \A t \in owed : pc[t] = "wait" /\ ~SyncObj[ObjIdx[t]]

PoolInv ==
    /\ PoolTypeOK /\ CallInv /\ KeyInv
    /\ ~restart => ListInv /\ SignalInv

\* The answer in hand is still owed, and its call still has the object found.
HandInv ==
    /\ ActionIndex \in 0..N /\ answering \subseteq Task /\ \A t, u \in answering : t = u
    /\ ~restart => \A t \in answering : t \in owed /\ ActionIndex = ObjIdx[t]

------------------------------------------------------------------------------
(* Walks.                                                                  *)

\* N is the end of a list, not an object.
LEMMA Indices ==
    N \in 0..N /\ N \notin Obj /\ Obj \subseteq 0..N /\ 0..N = Obj \cup {N}
  BY PoolAssumption DEF Obj

\* A walk visits its start and follows the links.
LEMMA VisitedClosed ==
    ASSUME NEW next \in Link, NEW h \in 0..N, NEW Stop
    PROVE  /\ Visited(next, h, Stop) \subseteq 0..N
           /\ h \in Visited(next, h, Stop)
           /\ Follows(next, Stop, Visited(next, h, Stop))
  <1>1. Visited(next, h, Stop) \subseteq 0..N /\ h \in Visited(next, h, Stop)
    BY DEF Visited
  <1>2. ASSUME NEW o \in Visited(next, h, Stop) \ (Stop \cup {N})
        PROVE  next[o] \in Visited(next, h, Stop)
    <2>1. o \in Obj /\ next[o] \in 0..N
      BY <1>1, Indices DEF Link
    <2> QED
      BY <2>1 DEF Visited, Follows
  <1> QED
    BY <1>1, <1>2 DEF Follows

\* It visits nothing else.
LEMMA VisitedLeast ==
    ASSUME NEW next, NEW h, NEW Stop, NEW S \in SUBSET (0..N),
           h \in S, Follows(next, Stop, S)
    PROVE  Visited(next, h, Stop) \subseteq S
  BY DEF Visited

\* The first step of a walk, and a walk from the end.
LEMMA ReachStep ==
    ASSUME NEW next \in Link, NEW h \in 0..N
    PROVE  /\ h = N => Reach(next, h) = {N}
           /\ h \in Obj => Reach(next, h) = {h} \cup Reach(next, next[h])
  <1>1. ASSUME h = N PROVE Reach(next, h) = {N}
    <2>1. Follows(next, {}, {N}) /\ {N} \in SUBSET (0..N)
      BY Indices DEF Follows
    <2> QED
      BY <1>1, <2>1, VisitedLeast, VisitedClosed DEF Reach
  <1>2. ASSUME h \in Obj PROVE Reach(next, h) = {h} \cup Reach(next, next[h])
    <2> DEFINE S == {h} \cup Reach(next, next[h])
    <2>1. next[h] \in 0..N
      BY <1>2 DEF Link
    <2>2. /\ Reach(next, next[h]) \subseteq 0..N /\ next[h] \in Reach(next, next[h])
          /\ Follows(next, {}, Reach(next, next[h]))
      BY <2>1, VisitedClosed DEF Reach
    <2>3. S \in SUBSET (0..N) /\ h \in S /\ Follows(next, {}, S)
      BY <2>2 DEF Follows
    <2>4. Reach(next, h) \subseteq S
      BY <2>3, VisitedLeast DEF Reach
    <2>5. /\ Reach(next, h) \in SUBSET (0..N) /\ h \in Reach(next, h)
          /\ Follows(next, {}, Reach(next, h))
      BY VisitedClosed DEF Reach
    <2>6. next[h] \in Reach(next, h)
      BY <1>2, <2>5, Indices DEF Follows
    <2>7. Reach(next, next[h]) \subseteq Reach(next, h)
      BY <2>5, <2>6, VisitedLeast DEF Reach
    <2> QED
      BY <2>4, <2>5, <2>7
  <1> QED
    BY <1>1, <1>2

\* What can be reached from a visited object is visited.
LEMMA ReachTransitive ==
    ASSUME NEW next \in Link, NEW h \in 0..N, NEW x \in Reach(next, h)
    PROVE  x \in 0..N /\ Reach(next, x) \subseteq Reach(next, h)
  BY VisitedClosed, VisitedLeast DEF Reach

\* A walk depends only on the links of the objects it visits.
LEMMA ReachSame ==
    ASSUME NEW next \in Link, NEW other \in Link, NEW h \in 0..N,
           \A o \in Reach(next, h) \ {N} : other[o] = next[o]
    PROVE  Reach(other, h) = Reach(next, h)
  <1> DEFINE A == Reach(next, h)
             B == Reach(other, h)
  <1>1. /\ A \in SUBSET (0..N) /\ h \in A /\ Follows(next, {}, A)
        /\ B \in SUBSET (0..N) /\ h \in B /\ Follows(other, {}, B)
    BY VisitedClosed DEF Reach
  <1>2. Follows(other, {}, A)
    BY <1>1 DEF Follows
  <1>3. B \subseteq A
    BY <1>1, <1>2, VisitedLeast DEF Reach
  <1>4. Follows(next, {}, B)
    BY <1>1, <1>3 DEF Follows
  <1>5. A \subseteq B
    BY <1>1, <1>4, VisitedLeast DEF Reach
  <1> QED
    BY <1>3, <1>5

\* If a walk ends, it ends from wherever it is.
LEMMA EndsEverywhere ==
    ASSUME NEW next \in Link, NEW h \in 0..N, N \in Reach(next, h),
           NEW x \in Reach(next, h)
    PROVE  N \in Reach(next, x)
  <1> DEFINE A == Reach(next, h)
             S == {y \in A : N \in Reach(next, y)}
  <1>1. A \in SUBSET (0..N) /\ h \in A /\ Follows(next, {}, A)
    BY VisitedClosed DEF Reach
  <1>2. ASSUME NEW y \in S \ {N} PROVE next[y] \in S
    <2>1. y \in Obj /\ y # N /\ next[y] \in A
      BY <1>1, Indices DEF Follows
    <2>2. N \in Reach(next, next[y])
      BY <2>1, ReachStep, Indices
    <2> QED
      BY <2>1, <2>2
  <1>3. S \in SUBSET (0..N) /\ h \in S /\ Follows(next, {}, S)
    BY <1>1, <1>2 DEF Follows
  <1>4. A \subseteq S
    BY <1>3, VisitedLeast DEF Reach
  <1> QED
    BY <1>4

\* A list that ends has no cycle: the walk does not come back to its start.
LEMMA NoCycle ==
    ASSUME NEW next \in Link, NEW h \in Obj, N \in Reach(next, h)
    PROVE  h \notin Reach(next, next[h])
  <1> SUFFICES ASSUME h \in Reach(next, next[h]) PROVE FALSE
    OBVIOUS
  <1> DEFINE A == Reach(next, h)
             S == {y \in A \ {N} : h \in Reach(next, y)}
  <1>1. h \in 0..N /\ A \in SUBSET (0..N) /\ h \in A /\ Follows(next, {}, A) /\ h # N
    BY VisitedClosed, Indices DEF Reach
  <1>2. ASSUME NEW y \in S PROVE next[y] \in S
    <2>1. y \in Obj /\ next[y] \in A /\ next[y] \in 0..N
      BY <1>1, Indices DEF Follows
    <2>2. h \in Reach(next, next[y])
      BY <1>1, <2>1, ReachStep
    <2>3. next[y] # N
      BY <1>1, <2>1, <2>2, ReachStep
    <2> QED
      BY <2>1, <2>2, <2>3
  <1>3. S \in SUBSET (0..N) /\ h \in S /\ Follows(next, {}, S)
    BY <1>1, <1>2 DEF Follows
  <1>4. A \subseteq S
    BY <1>3, VisitedLeast DEF Reach
  <1> QED
    BY <1>4

\* Of two objects on a walk one comes after the other.
LEMMA Comparable ==
    ASSUME NEW next \in Link, NEW h \in 0..N,
           NEW x \in Reach(next, h), NEW y \in Reach(next, h)
    PROVE  y \in Reach(next, x) \/ x \in Reach(next, y)
  <1> DEFINE A == Reach(next, h)
             S == {z \in A : y \in Reach(next, z) \/ z \in Reach(next, y)}
  <1>1. A \in SUBSET (0..N) /\ h \in A /\ Follows(next, {}, A)
    BY VisitedClosed DEF Reach
  <1>2. y \in 0..N /\ Follows(next, {}, Reach(next, y)) /\ y \in Reach(next, y)
    BY <1>1, VisitedClosed DEF Reach
  <1>3. ASSUME NEW z \in S \ {N} PROVE next[z] \in S
    <2>1. z \in Obj /\ next[z] \in A
      BY <1>1, Indices DEF Follows
    <2>2. CASE z \in Reach(next, y)
      BY <1>2, <2>1, <2>2 DEF Follows
    <2>3. CASE y \in Reach(next, z) /\ z # y
      BY <1>1, <2>1, <2>3, ReachStep
    <2> QED
      BY <1>2, <2>2, <2>3
  <1>4. S \in SUBSET (0..N) /\ h \in S /\ Follows(next, {}, S)
    BY <1>1, <1>3 DEF Follows
  <1>5. A \subseteq S
    BY <1>4, VisitedLeast DEF Reach
  <1> QED
    BY <1>5

\* In a list that ends no two objects point to the same one.
LEMMA OneBefore ==
    ASSUME NEW next \in Link, NEW h \in 0..N, N \in Reach(next, h),
           NEW p \in Reach(next, h) \ {N}, NEW q \in Reach(next, h) \ {N},
           next[p] = next[q]
    PROVE  p = q
  <1>1. p \in Obj /\ q \in Obj /\ p \in 0..N /\ q \in 0..N
    BY ReachTransitive, Indices
  <1>2. p \notin Reach(next, next[p]) /\ q \notin Reach(next, next[q])
    BY <1>1, EndsEverywhere, NoCycle
  <1>3. q \in Reach(next, p) \/ p \in Reach(next, q)
    BY Comparable
  <1> QED
    BY <1>1, <1>2, <1>3, ReachStep

\* An object on a walk is its start, or an object before it points to it.
LEMMA HasBefore ==
    ASSUME NEW next \in Link, NEW h \in 0..N, NEW x \in Reach(next, h), x # h
    PROVE  \E p \in Reach(next, h) \ {N} : next[p] = x
  <1> SUFFICES ASSUME \A p \in Reach(next, h) \ {N} : next[p] # x PROVE FALSE
    OBVIOUS
  <1> DEFINE A == Reach(next, h)
             S == A \ {x}
  <1>1. A \in SUBSET (0..N) /\ h \in A /\ Follows(next, {}, A)
    BY VisitedClosed DEF Reach
  <1>2. S \in SUBSET (0..N) /\ h \in S /\ Follows(next, {}, S)
    BY <1>1 DEF Follows
  <1>3. A \subseteq S
    BY <1>2, VisitedLeast DEF Reach
  <1> QED
    BY <1>3

\* A search finds an object of Hit on the walk, if there is one.
LEMMA Search ==
    ASSUME NEW next \in Link, NEW h \in 0..N, NEW Hit \in SUBSET Obj
    PROVE  \/ FirstOn(next, h, Hit) = N /\ Reach(next, h) \cap Hit = {}
           \/ FirstOn(next, h, Hit) \in Reach(next, h) \cap Hit
  <1> DEFINE V == Visited(next, h, Hit)
             A == Reach(next, h)
  <1>1. /\ V \in SUBSET (0..N) /\ h \in V /\ Follows(next, Hit, V)
        /\ A \in SUBSET (0..N) /\ h \in A /\ Follows(next, {}, A)
    BY VisitedClosed DEF Reach
  <1>2. V \subseteq A
    BY <1>1, VisitedLeast DEF Follows
  <1>3. CASE V \cap Hit = {}
    <2>1. Follows(next, {}, V)
      BY <1>1, <1>3 DEF Follows
    <2>2. A \subseteq V
      BY <1>1, <2>1, VisitedLeast DEF Reach
    <2> QED
      BY <1>3, <2>2 DEF FirstOn
  <1>4. CASE V \cap Hit # {}
    <2>1. FirstOn(next, h, Hit) \in V \cap Hit
      BY <1>4 DEF FirstOn
    <2> QED
      BY <1>2, <2>1
  <1> QED
    BY <1>3, <1>4

------------------------------------------------------------------------------
(* Changes of a list.                                                      *)

\* An object that is on no walk can be linked in front of a list: the list
\* gets it, and no other walk changes.
LEMMA Push ==
    ASSUME NEW next \in Link, NEW h \in 0..N, NEW o \in Obj, o \notin Reach(next, h),
           NEW other \in Link, other[o] = h, \A x \in Obj \ {o} : other[x] = next[x]
    PROVE  /\ Reach(other, o) = {o} \cup Reach(next, h)
           /\ \A g \in 0..N : o \notin Reach(next, g) => Reach(other, g) = Reach(next, g)
  <1>1. ASSUME NEW g \in 0..N, o \notin Reach(next, g)
        PROVE  Reach(other, g) = Reach(next, g)
    <2>1. \A x \in Reach(next, g) \ {N} : x \in Obj \ {o}
      BY <1>1, ReachTransitive, Indices
    <2> QED
      BY <2>1, ReachSame
  <1>2. Reach(other, o) = {o} \cup Reach(other, h)
    <2>1. o \in 0..N
      BY Indices
    <2> QED
      BY <2>1, ReachStep
  <1> QED
    BY <1>1, <1>2

\* The head of a list that ends can be taken off.
LEMMA Pop ==
    ASSUME NEW next \in Link, NEW h \in Obj, N \in Reach(next, h)
    PROVE  next[h] \in 0..N /\ Reach(next, next[h]) = Reach(next, h) \ {h}
  <1>1. next[h] \in 0..N /\ h \in 0..N
    BY Indices DEF Link
  <1> QED
    BY <1>1, NoCycle, ReachStep

\* _SlRemoveFromList takes an object out of its list and changes no list that
\* shares no object with it.
LEMMA RemoveEffect ==
    ASSUME NEW next \in Link, NEW h \in 0..N, N \in Reach(next, h),
           NEW item \in Reach(next, h), item \in Obj
    PROVE  LET r == RemoveFromList(next, h, item)
           IN  /\ r.next \in Link /\ r.head \in 0..N
               /\ Reach(r.next, r.head) = Reach(next, h) \ {item}
               /\ \A g \in 0..N : Reach(next, g) \cap Reach(next, h) \subseteq {N}
                                     => Reach(r.next, g) = Reach(next, g)
               /\ \A x \in Obj \ Reach(next, h) : r.next[x] = next[x]
  <1> DEFINE r == RemoveFromList(next, h, item)
             A == Reach(next, h)
             Hit == {o \in Obj : next[o] = item}
             p == FirstOn(next, h, Hit)
  <1>0. A \in SUBSET (0..N) /\ h \in A /\ Follows(next, {}, A) /\ h \in Obj /\ h # N /\ item # N
    <2>1. A \in SUBSET (0..N) /\ h \in A /\ Follows(next, {}, A)
      BY VisitedClosed DEF Reach
    <2>2. h # N
      BY ReachStep, Indices
    <2> QED
      BY <2>1, <2>2, Indices
  <1>1. CASE next[h] = N
    <2>1. r.head = N /\ r.next = next
      BY <1>1 DEF RemoveFromList
    <2>2. A = {h, N} /\ item = h
      BY <1>0, <1>1, ReachStep, Indices
    <2>3. Reach(next, N) = {N}
      BY ReachStep, Indices
    <2> QED
      BY <2>1, <2>2, <2>3, Indices
  <1>2. CASE next[h] # N /\ h = item
    <2>1. r.head = next[h] /\ r.next = next
      BY <1>2 DEF RemoveFromList
    <2>2. next[h] \in 0..N /\ Reach(next, next[h]) = A \ {h}
      BY <1>0, Pop
    <2> QED
      BY <1>2, <2>1, <2>2
  <1>3. CASE next[h] # N /\ h # item
    <2>1. p \in A /\ p \in Obj /\ p # N /\ next[p] = item
      <3>1. \E q \in A \ {N} : next[q] = item
        BY <1>3, HasBefore
      <3>2. A \cap Hit # {}
        BY <1>0, <3>1, Indices
      <3>3. Hit \in SUBSET Obj
        OBVIOUS
      <3>4. p \in A \cap Hit
        BY <3>2, <3>3, Search
      <3> QED
        BY <3>4, Indices
    <2>2. r.head = h /\ r.next = [next EXCEPT ![p] = next[item]]
      BY <1>3, <2>1 DEF RemoveFromList
    <2> DEFINE w == [next EXCEPT ![p] = next[item]]
               B == Reach(w, h)
    <2>3. next[item] \in 0..N /\ next[item] \in A
      BY <1>0 DEF Link, Follows
    <2>4. w \in Link /\ w[p] = next[item] /\ \A x \in Obj \ {p} : w[x] = next[x]
      BY <2>1, <2>3 DEF Link
    <2> HIDE DEF w, p
    <2>5. B \in SUBSET (0..N) /\ h \in B /\ Follows(w, {}, B)
      BY <2>4, VisitedClosed DEF Reach
    <2>6. \A x \in A \ {N} : next[x] = item => x = p
      BY <2>1, OneBefore
    <2>7. next[item] # item
      <3>1. N \in Reach(next, item)
        BY EndsEverywhere
      <3>2. item \notin Reach(next, next[item])
        BY <3>1, NoCycle
      <3>3. next[item] \in Reach(next, next[item])
        BY <2>3, VisitedClosed DEF Reach
      <3> QED
        BY <3>2, <3>3
    <2>8. B \subseteq A \ {item}
      <3>1. ASSUME NEW x \in (A \ {item}) \ {N} PROVE w[x] \in A \ {item}
        <4>1. x \in Obj /\ next[x] \in A
          BY <1>0, Indices DEF Follows
        <4>2. CASE x = p
          BY <2>3, <2>4, <2>7, <4>2
        <4>3. CASE x # p
          BY <2>4, <2>6, <4>1, <4>3
        <4> QED
          BY <4>2, <4>3
      <3>2. Follows(w, {}, A \ {item})
        BY <3>1 DEF Follows
      <3>3. A \ {item} \in SUBSET (0..N) /\ h \in A \ {item}
        BY <1>0, <1>3
      <3> QED
        BY <3>2, <3>3, VisitedLeast DEF Reach
    <2>9. p \in B
      <3> SUFFICES ASSUME p \notin B PROVE FALSE
        OBVIOUS
      <3>1. \A x \in B \ {N} : next[x] = w[x]
        BY <2>4, <2>5, Indices
      <3>2. A = B
        BY <2>4, <3>1, ReachSame
      <3> QED
        BY <2>1, <3>2
    <2>10. A \subseteq B \cup {item}
      <3>1. ASSUME NEW x \in (B \cup {item}) \ {N} PROVE next[x] \in B \cup {item}
        <4>1. CASE x = item
          <5>1. w[p] \in B
            BY <2>1, <2>5, <2>9 DEF Follows
          <5> QED
            BY <2>4, <4>1, <5>1
        <4>2. CASE x = p
          BY <2>1, <4>2
        <4>3. CASE x \in B /\ x # p
          <5>1. x \in Obj /\ w[x] \in B
            BY <2>5, <4>3, Indices DEF Follows
          <5> QED
            BY <2>4, <4>3, <5>1
        <4> QED
          BY <4>1, <4>2, <4>3
      <3>2. Follows(next, {}, B \cup {item})
        BY <3>1 DEF Follows
      <3>3. B \cup {item} \in SUBSET (0..N) /\ h \in B \cup {item}
        BY <2>5, Indices
      <3> QED
        BY <3>2, <3>3, VisitedLeast DEF Reach
    <2>11. B = A \ {item}
      BY <2>8, <2>10
    <2>12. ASSUME NEW g \in 0..N, Reach(next, g) \cap A \subseteq {N}
           PROVE  Reach(w, g) = Reach(next, g)
      <3>1. \A x \in Reach(next, g) \ {N} : x \in Obj /\ x # p
        BY <2>1, <2>12, ReachTransitive, Indices
      <3>2. \A x \in Reach(next, g) \ {N} : w[x] = next[x]
        BY <2>4, <3>1
      <3> QED
        BY <2>4, <3>2, ReachSame
    <2>13. r.next = w
      BY <2>2 DEF w
    <2> QED
      BY <2>1, <2>2, <2>4, <2>11, <2>12, <2>13
  <1> QED
    BY <1>1, <1>2, <1>3

\* The three lists in another order.
LEMMA ListsSwap ==
    ASSUME NEW next, NEW f, NEW p, NEW a, Lists(next, f, p, a)
    PROVE  Lists(next, p, f, a) /\ Lists(next, a, p, f) /\ Lists(next, f, a, p)
  BY DEF Lists

\* The objects of a list are objects.
LEMMA MembersAreObjects ==
    ASSUME NEW next \in Link, NEW h \in 0..N
    PROVE  /\ Members(next, h) = Reach(next, h) \ {N} /\ Members(next, h) \subseteq Obj
           /\ Ends(next, h) <=> N \in Reach(next, h)
           /\ h = N => Members(next, h) = {}
           /\ h # N => h \in Members(next, h)
  <1>1. Members(next, h) = Reach(next, h) \ {N} /\ (Ends(next, h) <=> N \in Reach(next, h))
    BY DEF Members, Ends, Reach
  <1>2. Reach(next, h) \subseteq 0..N /\ h \in Reach(next, h)
    BY VisitedClosed DEF Reach
  <1>3. h = N => Reach(next, h) = {N}
    BY ReachStep
  <1> QED
    BY <1>1, <1>2, <1>3, Indices

\* An object in no list becomes the head of one.
LEMMA PushFirst ==
    ASSUME NEW next, NEW h, NEW g, NEW k, Lists(next, h, g, k),
           NEW o \in Obj, o \notin Members(next, h) \cup Members(next, g) \cup Members(next, k),
           NEW other \in Link, other[o] = h, \A x \in Obj \ {o} : other[x] = next[x]
    PROVE  /\ Lists(other, o, g, k)
           /\ Members(other, o) = {o} \cup Members(next, h)
           /\ Members(other, g) = Members(next, g) /\ Members(other, k) = Members(next, k)
  <1>1. /\ next \in Link /\ h \in 0..N /\ g \in 0..N /\ k \in 0..N /\ o \in 0..N /\ o # N
    BY Indices DEF Lists
  <1>2. o \notin Reach(next, h) /\ o \notin Reach(next, g) /\ o \notin Reach(next, k)
    BY <1>1, MembersAreObjects
  <1>3. /\ Reach(other, o) = {o} \cup Reach(next, h)
        /\ Reach(other, g) = Reach(next, g) /\ Reach(other, k) = Reach(next, k)
    BY <1>1, <1>2, Push
  <1>4. /\ Members(other, o) = {o} \cup Members(next, h)
        /\ Members(other, g) = Members(next, g) /\ Members(other, k) = Members(next, k)
    BY <1>1, <1>3 DEF Members, Reach
  <1>5. Ends(other, o) /\ Ends(other, g) /\ Ends(other, k)
    BY <1>1, <1>3, MembersAreObjects DEF Lists
  <1> QED
    BY <1>1, <1>4, <1>5 DEF Lists

\* The head of a list is taken off.
LEMMA PopFirst ==
    ASSUME NEW next, NEW h, NEW g, NEW k, Lists(next, h, g, k), h # N
    PROVE  /\ Lists(next, next[h], g, k) /\ h \in Obj
           /\ Members(next, next[h]) = Members(next, h) \ {h}
           /\ h \in Members(next, h)
  <1>1. next \in Link /\ h \in 0..N /\ h \in Obj /\ N \in Reach(next, h)
    BY Indices, MembersAreObjects DEF Lists
  <1>2. next[h] \in 0..N /\ Reach(next, next[h]) = Reach(next, h) \ {h}
    BY <1>1, Pop
  <1>3. Members(next, next[h]) = Members(next, h) \ {h} /\ Ends(next, next[h])
    BY <1>1, <1>2, MembersAreObjects
  <1>4. h \in Members(next, h)
    BY <1>1, MembersAreObjects
  <1> QED
    BY <1>1, <1>2, <1>3, <1>4 DEF Lists

\* An object is taken out of its list.
LEMMA RemoveFirst ==
    ASSUME NEW next, NEW h, NEW g, NEW k, Lists(next, h, g, k), NEW item \in Members(next, h)
    PROVE  LET r == RemoveFromList(next, h, item)
           IN  /\ Lists(r.next, r.head, g, k)
               /\ Members(r.next, r.head) = Members(next, h) \ {item}
               /\ Members(r.next, g) = Members(next, g)
               /\ Members(r.next, k) = Members(next, k)
  <1> DEFINE r == RemoveFromList(next, h, item)
  <1>1. next \in Link /\ h \in 0..N /\ g \in 0..N /\ k \in 0..N /\ N \in Reach(next, h)
    BY MembersAreObjects DEF Lists
  <1>2. item \in Reach(next, h) /\ item \in Obj
    BY <1>1, MembersAreObjects
  <1>3. /\ r.next \in Link /\ r.head \in 0..N
        /\ Reach(r.next, r.head) = Reach(next, h) \ {item}
        /\ \A x \in 0..N : Reach(next, x) \cap Reach(next, h) \subseteq {N}
                              => Reach(r.next, x) = Reach(next, x)
    BY <1>1, <1>2, RemoveEffect
  <1> HIDE DEF r
  <1>4. /\ Reach(next, g) \cap Reach(next, h) \subseteq {N}
        /\ Reach(next, k) \cap Reach(next, h) \subseteq {N}
    BY <1>1, MembersAreObjects DEF Lists
  <1>5. Reach(r.next, g) = Reach(next, g) /\ Reach(r.next, k) = Reach(next, k)
    BY <1>1, <1>3, <1>4
  <1>6. item # N
    BY <1>2, Indices
  <1>7. /\ Members(r.next, r.head) = Members(next, h) \ {item}
        /\ Members(r.next, g) = Members(next, g) /\ Members(r.next, k) = Members(next, k)
    BY <1>3, <1>5 DEF Members, Reach
  <1>8. Ends(r.next, r.head) /\ Ends(r.next, g) /\ Ends(r.next, k)
    BY <1>1, <1>3, <1>5, <1>6, MembersAreObjects DEF Lists
  <1>9. Lists(r.next, r.head, g, k)
    BY <1>1, <1>3, <1>7, <1>8 DEF Lists
  <1> QED
    BY <1>7, <1>9 DEF r

------------------------------------------------------------------------------
(* The initial state.                                                      *)

\* A set of natural numbers has a least element.
LEMMA LeastNumber ==
    ASSUME NEW T \in SUBSET Nat, T # {}
    PROVE  \E m \in T : \A n \in T : ~(n < m)
  <1> DEFINE R == OpToRel(<, Nat)
  <1>1. IsWellFoundedOn(R, Nat)
    BY NatLessThanWellFounded
  <1>2. \A m, n \in Nat : n < m => <<n, m>> \in R
    BY DEF OpToRel
  <1> HIDE DEF R
  <1>3. \E m \in T : \A n \in T : ~(<<n, m>> \in R)
    BY <1>1, WFMin
  <1> QED
    BY <1>2, <1>3

\* The free list that _SlDrvDriverCBInit builds has every object and ends.
LEMMA FreeListBuilt ==
    LET next == [o \in Obj |-> o + 1]
    IN  next \in Link /\ Reach(next, 0) = 0..N
  <1> DEFINE next == [o \in Obj |-> o + 1]
             A == Reach(next, 0)
             T == {i \in 0..N : i \notin A}
  <1>1. next \in Link /\ 0 \in 0..N
    BY PoolAssumption DEF Link, Obj
  <1>2. A \in SUBSET (0..N) /\ 0 \in A /\ Follows(next, {}, A)
    BY <1>1, VisitedClosed DEF Reach
  <1>3. T = {}
    <2> SUFFICES ASSUME T # {} PROVE FALSE
      OBVIOUS
    <2>0. T \in SUBSET Nat
      BY PoolAssumption
    <2> HIDE DEF T
    <2>1. PICK m \in T : \A n \in T : ~(n < m)
      BY <2>0, LeastNumber
    <2> USE DEF T
    <2>2. m \in 1..N /\ m - 1 \in Obj /\ m - 1 \in 0..N /\ m - 1 < m
      <3>1. m \in 0..N /\ m # 0 /\ N \in Nat
        BY <1>2, PoolAssumption
      <3> QED
        BY <3>1 DEF Obj
    <2>3. m - 1 \in A /\ m - 1 # N
      BY <2>1, <2>2, PoolAssumption
    <2>4. next[m - 1] \in A
      BY <1>2, <2>3 DEF Follows
    <2>5. next[m - 1] = m
      BY <2>2
    <2> QED
      BY <2>4, <2>5
  <1> QED
    BY <1>1, <1>2, <1>3

\* The initial state has all the invariants.
LEMMA InitInv ==
    ASSUME Init
    PROVE  PoolInv
  <1> USE DEF Init
  <1>1. /\ NextIndex \in Link /\ Reach(NextIndex, 0) = 0..N
        /\ 0 \in 0..N /\ 0 \in Obj /\ N \in 0..N
    BY FreeListBuilt, PoolAssumption, Indices DEF Obj
  <1>2. PoolTypeOK
    BY <1>1, PoolAssumption DEF PoolTypeOK, Link, Owning, NoCall
  <1>3. CallInv /\ KeyInv
    BY DEF CallInv, KeyInv, Owning
  <1>4. FreeList = Obj /\ PendingList = {} /\ ActiveList = {}
    <2>1. Members(NextIndex, 0) = 0..N \ {N} /\ Members(NextIndex, N) = {}
      BY <1>1, MembersAreObjects
    <2> QED
      BY <2>1, Indices DEF FreeList, PendingList, ActiveList
  <1>5. Lists(NextIndex, FreePoolIdx, PendingPoolIdx, ActivePoolIdx)
    <2>1. Reach(NextIndex, N) = {N}
      BY <1>1, ReachStep
    <2>2. Ends(NextIndex, 0) /\ Ends(NextIndex, N)
      BY <1>1, <2>1, MembersAreObjects
    <2> QED
      BY <1>1, <1>4, <2>2 DEF Lists, FreeList, PendingList, ActiveList
  <1>6. ListInv
    BY <1>4, <1>5 DEF ListInv, Listed, Blank, Owning
  <1>7. SignalInv
    BY DEF SignalInv
  <1> QED
    BY <1>2, <1>3, <1>6, <1>7 DEF PoolInv

------------------------------------------------------------------------------
(* Steps.                                                                  *)

\* The calls the tasks make, and their keys.
LEMMA MayCall ==
    ASSUME NEW t \in Task, NEW c \in May[t]
    PROVE  /\ c \in [act : Action, sd : Socket \cup {NoSocket}]
           /\ c = [act |-> c.act, sd |-> c.sd] /\ c # NoCall
           /\ Key(c) \in Socket \cup Action /\ Key(c) # NoAction
  <1>1. c \in [act : Action, sd : Socket \cup {NoSocket}]
    BY PoolAssumption
  <1>2. c.act \in Action /\ c.sd \in Socket \cup {NoSocket} /\ c = [act |-> c.act, sd |-> c.sd]
    BY <1>1
  <1>3. NoAction \notin Action \cup Socket
    BY PoolAssumption
  <1>4. c # NoCall
    BY <1>2, <1>3 DEF NoCall
  <1> QED
    BY <1>1, <1>2, <1>3, <1>4 DEF Key

\* An object in no list is enlisted.
LEMMA EnlistLists ==
    ASSUME PoolTypeOK, NEW t \in Task, NEW o \in Obj, NEW c, Enlist(t, o, c)
    PROVE  /\ NextIndex' \in Link /\ PendingPoolIdx' \in 0..N /\ ActivePoolIdx' \in 0..N
           /\ pc' = [pc EXCEPT ![t] = IF Key(c) \in ActiveActions THEN "pend" ELSE "send"]
           /\ ActiveActions' = ActiveActions \cup {Key(c)}
           /\ \A f : Lists(NextIndex, f, PendingPoolIdx, ActivePoolIdx)
                        /\ o \notin Members(NextIndex, f) \cup PendingList \cup ActiveList
                     => /\ Lists(NextIndex', f, PendingPoolIdx', ActivePoolIdx')
                        /\ Members(NextIndex', f) = Members(NextIndex, f)
                        /\ PendingList' = PendingList
                              \cup {x \in {o} : Key(c) \in ActiveActions}
                        /\ ActiveList' = ActiveList
                              \cup {x \in {o} : Key(c) \notin ActiveActions}
  <1>1. NextIndex \in Link /\ PendingPoolIdx \in 0..N /\ ActivePoolIdx \in 0..N /\ o \in 0..N
    BY Indices DEF PoolTypeOK, Link
  <1>2. CASE Key(c) \in ActiveActions
    <2>1. /\ NextIndex' = [NextIndex EXCEPT ![o] = PendingPoolIdx] /\ PendingPoolIdx' = o
          /\ ActivePoolIdx' = ActivePoolIdx /\ ActiveActions' = ActiveActions
          /\ pc' = [pc EXCEPT ![t] = "pend"]
      BY <1>2 DEF Enlist, Goto
    <2>2. /\ NextIndex' \in Link /\ NextIndex'[o] = PendingPoolIdx
          /\ \A x \in Obj \ {o} : NextIndex'[x] = NextIndex[x]
      BY <1>1, <2>1 DEF Link
    <2>3. ASSUME NEW f, Lists(NextIndex, f, PendingPoolIdx, ActivePoolIdx),
                 o \notin Members(NextIndex, f) \cup PendingList \cup ActiveList
          PROVE  /\ Lists(NextIndex', f, PendingPoolIdx', ActivePoolIdx')
                 /\ Members(NextIndex', f) = Members(NextIndex, f)
                 /\ PendingList' = PendingList \cup {o} /\ ActiveList' = ActiveList
      <3>1. Lists(NextIndex, PendingPoolIdx, f, ActivePoolIdx)
        BY <2>3, ListsSwap
      <3>2. /\ Lists(NextIndex', o, f, ActivePoolIdx)
            /\ Members(NextIndex', o) = {o} \cup Members(NextIndex, PendingPoolIdx)
            /\ Members(NextIndex', f) = Members(NextIndex, f)
            /\ Members(NextIndex', ActivePoolIdx) = Members(NextIndex, ActivePoolIdx)
        BY <2>2, <2>3, <3>1, PushFirst DEF PendingList, ActiveList
      <3>3. Lists(NextIndex', f, PendingPoolIdx', ActivePoolIdx')
        BY <2>1, <3>2, ListsSwap
      <3> QED
        BY <2>1, <3>2, <3>3 DEF PendingList, ActiveList
    <2> QED
      BY <1>1, <1>2, <2>1, <2>2, <2>3
  <1>3. CASE Key(c) \notin ActiveActions
    <2>1. /\ NextIndex' = [NextIndex EXCEPT ![o] = ActivePoolIdx] /\ ActivePoolIdx' = o
          /\ PendingPoolIdx' = PendingPoolIdx
          /\ ActiveActions' = ActiveActions \cup {Key(c)} /\ pc' = [pc EXCEPT ![t] = "send"]
      BY <1>3 DEF Enlist, Goto
    <2>2. /\ NextIndex' \in Link /\ NextIndex'[o] = ActivePoolIdx
          /\ \A x \in Obj \ {o} : NextIndex'[x] = NextIndex[x]
      BY <1>1, <2>1 DEF Link
    <2>3. ASSUME NEW f, Lists(NextIndex, f, PendingPoolIdx, ActivePoolIdx),
                 o \notin Members(NextIndex, f) \cup PendingList \cup ActiveList
          PROVE  /\ Lists(NextIndex', f, PendingPoolIdx', ActivePoolIdx')
                 /\ Members(NextIndex', f) = Members(NextIndex, f)
                 /\ PendingList' = PendingList /\ ActiveList' = ActiveList \cup {o}
      <3>1. Lists(NextIndex, ActivePoolIdx, PendingPoolIdx, f)
        BY <2>3, ListsSwap
      <3>2. /\ Lists(NextIndex', o, PendingPoolIdx, f)
            /\ Members(NextIndex', o) = {o} \cup Members(NextIndex, ActivePoolIdx)
            /\ Members(NextIndex', PendingPoolIdx) = Members(NextIndex, PendingPoolIdx)
            /\ Members(NextIndex', f) = Members(NextIndex, f)
        BY <2>2, <2>3, <3>1, PushFirst DEF PendingList, ActiveList
      <3>3. Lists(NextIndex', f, PendingPoolIdx', ActivePoolIdx')
        BY <2>1, <3>2, ListsSwap
      <3> QED
        BY <2>1, <3>2, <3>3 DEF PendingList, ActiveList
    <2> QED
      BY <1>1, <1>3, <2>1, <2>2, <2>3
  <1> QED
    BY <1>2, <1>3

\* What the type invariant says of a call under way.
LEMMA CallFacts ==
    ASSUME PoolTypeOK, CallInv, NEW t \in Task, pc[t] # "idle"
    PROVE  /\ ObjIdx[t] \in Obj /\ ObjIdx[t] # N /\ call[t] \in May[t]
           /\ ActionID[ObjIdx[t]] = call[t].act /\ AdditionalData[ObjIdx[t]] = call[t].sd
           /\ ObjKey(ObjIdx[t]) = Key(call[t])
  <1>1. ObjIdx[t] \in Obj /\ call[t] \in May[t] /\ ObjCall(ObjIdx[t]) = call[t]
    BY DEF CallInv
  <1>2. ObjCall(ObjIdx[t]).act = ActionID[ObjIdx[t]] /\ ObjCall(ObjIdx[t]).sd = AdditionalData[ObjIdx[t]]
    BY DEF ObjCall
  <1>3. ObjKey(ObjIdx[t]) = Key(call[t])
    BY <1>1 DEF ObjKey, ObjCall
  <1> QED
    BY <1>1, <1>2, <1>3, Indices

\* A call takes the first free object, which nobody uses.
LEMMA WaitForPoolObjInv ==
    ASSUME PoolInv, NEW t \in Task, NEW c \in May[t], WaitForPoolObj(t, c)
    PROVE  PoolInv'
  <1> DEFINE o == FreePoolIdx
             f == NextIndex[o]
  <1>1. PoolTypeOK /\ CallInv /\ KeyInv /\ ListInv /\ SignalInv /\ restart = FALSE /\ restart' = FALSE
    BY DEF PoolInv, WaitForPoolObj, PoolTypeOK
  <1>2. /\ pc[t] = "idle" /\ o # N /\ FreePoolIdx' = f
        /\ ActionID' = [ActionID EXCEPT ![o] = c.act]
        /\ AdditionalData' = IF c.sd = NoSocket THEN AdditionalData
                             ELSE [AdditionalData EXCEPT ![o] = c.sd]
        /\ Enlist(t, o, c) /\ ObjIdx' = [ObjIdx EXCEPT ![t] = o]
        /\ call' = [call EXCEPT ![t] = c]
        /\ UNCHANGED <<SyncObj, owed, leaked>>
    BY DEF WaitForPoolObj
  <1>3. /\ Lists(NextIndex, f, PendingPoolIdx, ActivePoolIdx) /\ o \in Obj /\ o \in FreeList
        /\ Members(NextIndex, f) = FreeList \ {o}
    BY <1>1, <1>2, PopFirst DEF ListInv, FreeList
  <1>4. /\ o \notin PendingList /\ o \notin ActiveList
        /\ ActionID[o] = NoAction /\ AdditionalData[o] = NoSocket /\ SyncObj[o] = FALSE
    <2>1. o \notin PendingList /\ o \notin ActiveList
      BY <1>1, <1>3 DEF ListInv, Lists, FreeList, PendingList, ActiveList
    <2>2. ~SyncObj[o] /\ ActionID[o] = NoAction /\ AdditionalData[o] = NoSocket
      BY <1>1, <1>3 DEF ListInv, Blank
    <2> QED
      BY <1>1, <1>3, <2>1, <2>2 DEF PoolTypeOK
  <1>5. \A u \in Task : ObjIdx[u] # o
    BY <1>1, <1>3, Indices DEF ListInv, Listed, CallInv
  <1>6. /\ c.act \in Action /\ c.sd \in Socket \cup {NoSocket} /\ c = [act |-> c.act, sd |-> c.sd]
        /\ Key(c) \in Socket \cup Action
    BY MayCall
  <1>7. /\ NextIndex' \in Link /\ PendingPoolIdx' \in 0..N /\ ActivePoolIdx' \in 0..N
        /\ pc' = [pc EXCEPT ![t] = IF Key(c) \in ActiveActions THEN "pend" ELSE "send"]
        /\ ActiveActions' = ActiveActions \cup {Key(c)}
        /\ Lists(NextIndex', f, PendingPoolIdx', ActivePoolIdx')
        /\ Members(NextIndex', f) = FreeList \ {o}
        /\ PendingList' = PendingList \cup {x \in {o} : Key(c) \in ActiveActions}
        /\ ActiveList' = ActiveList \cup {x \in {o} : Key(c) \notin ActiveActions}
    BY <1>1, <1>2, <1>3, <1>4, EnlistLists
  <1> HIDE DEF f, o
  <1>8. FreeList' = FreeList \ {o} /\ f \in 0..N
    BY <1>2, <1>3, <1>7 DEF FreeList, Lists
  <1>9. /\ ActionID'[o] = c.act /\ AdditionalData'[o] = c.sd
        /\ \A x \in Obj \ {o} : ActionID'[x] = ActionID[x] /\ AdditionalData'[x] = AdditionalData[x]
    BY <1>1, <1>2, <1>3, <1>4 DEF PoolTypeOK
  <1>10. /\ pc'[t] \in {"pend", "send"} /\ call'[t] = c /\ ObjIdx'[t] = o
         /\ (pc'[t] = "pend" <=> Key(c) \in ActiveActions)
         /\ \A u \in Task \ {t} : pc'[u] = pc[u] /\ call'[u] = call[u] /\ ObjIdx'[u] = ObjIdx[u]
    BY <1>1, <1>2, <1>7 DEF PoolTypeOK
  <1>11. PoolTypeOK'
    <2>1. /\ ActionID' \in [Obj -> Action \cup {NoAction}]
          /\ AdditionalData' \in [Obj -> Socket \cup {NoSocket}]
      BY <1>1, <1>2, <1>3, <1>6 DEF PoolTypeOK
    <2>2. /\ NextIndex' \in [Obj -> 0..N]
          /\ {FreePoolIdx', PendingPoolIdx', ActivePoolIdx'} \subseteq 0..N
          /\ ActiveActions' \subseteq Socket \cup Action
      BY <1>1, <1>2, <1>6, <1>7, <1>8 DEF PoolTypeOK, Link
    <2>3. pc' \in [Task -> {"idle", "pend", "recheck"} \cup Owning]
      BY <1>1, <1>7 DEF PoolTypeOK, Owning
    <2>4. /\ call' \in [Task -> [act : Action \cup {NoAction}, sd : Socket \cup {NoSocket}]]
          /\ ObjIdx' \in [Task -> 0..N]
      BY <1>1, <1>2, <1>3, <1>6, Indices DEF PoolTypeOK
    <2>5. \A u \in Task : call'[u] \in May[u] \cup {NoCall}
      BY <1>1, <1>10 DEF PoolTypeOK
    <2>6. SyncObj' \in [Obj -> BOOLEAN] /\ owed' \subseteq Task /\ leaked' \subseteq Socket \cup Action
      BY <1>1, <1>2 DEF PoolTypeOK
    <2> QED
      BY <1>1, <2>1, <2>2, <2>3, <2>4, <2>5, <2>6 DEF PoolTypeOK
  <1>12. CallInv'
    <2>1. ASSUME NEW u \in Task, pc'[u] # "idle"
          PROVE  ObjIdx'[u] \in Obj /\ call'[u] \in May[u] /\ ObjCall(ObjIdx[u])' = call'[u]
      <3>1. CASE u = t
        BY <1>3, <1>6, <1>9, <1>10, <3>1 DEF ObjCall
      <3>2. CASE u # t
        <4>1. pc[u] # "idle" /\ ObjIdx'[u] = ObjIdx[u] /\ call'[u] = call[u]
          BY <1>10, <2>1, <3>2
        <4>2. ObjIdx[u] \in Obj \ {o} /\ call[u] \in May[u] /\ ObjCall(ObjIdx[u]) = call[u]
          BY <1>1, <1>5, <4>1 DEF CallInv
        <4> QED
          BY <1>9, <4>1, <4>2 DEF ObjCall
      <3> QED
        BY <3>1, <3>2
    <2>2. \A u \in Task : pc'[u] = "idle" => ObjIdx'[u] = N
      BY <1>1, <1>10 DEF CallInv
    <2>3. \A u, v \in Task : pc'[u] # "idle" /\ ObjIdx'[u] = ObjIdx'[v] => u = v
      BY <1>1, <1>5, <1>10 DEF CallInv
    <2> QED
      BY <2>1, <2>2, <2>3 DEF CallInv
  <1>13. KeyInv'
    <2>1. \A u \in Task : pc'[u] \in Owning <=> \/ u # t /\ pc[u] \in Owning
                                                \/ u = t /\ Key(c) \notin ActiveActions
      BY <1>1, <1>2, <1>10 DEF Owning
    <2>2. \A u \in Task : u # t => Key(call'[u]) = Key(call[u])
      BY <1>10
    <2>3. Key(call'[t]) = Key(c) /\ pc[t] \notin Owning
      BY <1>2, <1>10 DEF Owning
    <2> QED
      BY <1>1, <1>2, <1>7, <2>1, <2>2, <2>3 DEF KeyInv
  <1>14. ListInv'
    <2>1. Lists(NextIndex, FreePoolIdx, PendingPoolIdx, ActivePoolIdx)'
      BY <1>2, <1>7
    <2>2. ASSUME NEW u \in Task PROVE Listed(u)'
      <3>1. CASE u = t
        BY <1>2, <1>4, <1>7, <1>8, <1>10, <3>1 DEF Listed, Owning
      <3>2. CASE u # t
        <4>1. /\ pc'[u] = pc[u] /\ ObjIdx'[u] = ObjIdx[u] /\ ObjIdx[u] # o
              /\ SyncObj' = SyncObj /\ Listed(u)
          BY <1>1, <1>2, <1>5, <1>10, <3>2 DEF ListInv
        <4>2. (Listed(u)' <=> Listed(u))
          BY <1>7, <1>8, <4>1 DEF Listed, Owning
        <4> QED
          BY <4>1, <4>2
      <3> QED
        BY <3>1, <3>2
    <2>3. FreeList \subseteq Obj /\ PendingList \subseteq Obj /\ ActiveList \subseteq Obj
      BY <1>1, MembersAreObjects DEF ListInv, Lists, FreeList, PendingList, ActiveList
    <2>4. \A x \in FreeList' : Blank(x)'
      BY <1>1, <1>2, <1>8, <1>9, <2>3 DEF ListInv, Blank
    <2>5. \A x \in PendingList' : \E u \in Task : pc'[u] = "pend" /\ ObjIdx'[u] = x
      BY <1>1, <1>2, <1>7, <1>10 DEF ListInv
    <2>6. ASSUME NEW x \in ActiveList'
          PROVE  \/ \E u \in Task : pc'[u] \in Owning /\ ObjIdx'[u] = x
                 \/ ObjKey(x)' \in leaked' /\ \E u \in Task : ObjCall(x)' \in May[u]
      <3>1. CASE x = o
        <4>1. Key(c) \notin ActiveActions
          BY <1>4, <1>7, <2>6, <3>1
        <4> QED
          BY <1>10, <3>1, <4>1 DEF Owning
      <3>2. CASE x # o
        <4>1. x \in ActiveList /\ x \in Obj \ {o}
          BY <1>7, <2>3, <2>6, <3>2
        <4>2. ObjKey(x)' = ObjKey(x) /\ ObjCall(x)' = ObjCall(x)
          BY <1>9, <4>1 DEF ObjKey, ObjCall
        <4>3. CASE \E u \in Task : pc[u] \in Owning /\ ObjIdx[u] = x
          BY <1>2, <1>10, <4>3 DEF Owning
        <4>4. CASE ObjKey(x) \in leaked /\ \E u \in Task : ObjCall(x) \in May[u]
          BY <1>2, <4>2, <4>4
        <4> QED
          BY <1>1, <4>1, <4>3, <4>4 DEF ListInv
      <3> QED
        BY <3>1, <3>2
    <2> QED
      BY <2>1, <2>2, <2>4, <2>5, <2>6 DEF ListInv
  <1>15. SignalInv'
    <2>1. \A u \in Task : pc'[u] \in {"send", "release", "recheck"} => ~SyncObj'[ObjIdx'[u]]
      BY <1>1, <1>2, <1>4, <1>10 DEF SignalInv
    <2>2. \A u \in owed' : pc'[u] = "wait" /\ ~SyncObj'[ObjIdx'[u]]
      BY <1>1, <1>2, <1>10 DEF SignalInv, PoolTypeOK
    <2> QED
      BY <2>1, <2>2 DEF SignalInv
  <1> QED
    BY <1>11, <1>12, <1>13, <1>14, <1>15 DEF PoolInv

\* A step that leaves the pool alone leaves its lists alone.
LEMMA PoolKept ==
    ASSUME UNCHANGED pool
    PROVE  /\ FreeList' = FreeList /\ PendingList' = PendingList /\ ActiveList' = ActiveList
           /\ (Lists(NextIndex, FreePoolIdx, PendingPoolIdx, ActivePoolIdx)
                 => Lists(NextIndex, FreePoolIdx, PendingPoolIdx, ActivePoolIdx)')
           /\ ActiveActions' = ActiveActions
           /\ ActionID' = ActionID /\ AdditionalData' = AdditionalData
           /\ \A o : ObjCall(o)' = ObjCall(o) /\ ObjKey(o)' = ObjKey(o)
  BY DEF pool, fields, heads, FreeList, PendingList, ActiveList, ObjCall, ObjKey

\* ... and keeps the calls and the keys, if no call gets or loses a key.
LEMMA CallsKept ==
    ASSUME PoolTypeOK, CallInv, KeyInv, UNCHANGED <<pool, call, ObjIdx, leaked>>,
           NEW t \in Task, NEW l \in {"recheck", "wait", "release"}, Goto(t, l),
           pc[t] # "idle", pc[t] \in Owning <=> l \in Owning,
           SyncObj' \in [Obj -> BOOLEAN], restart' \in BOOLEAN, owed' \subseteq Task
    PROVE  PoolTypeOK' /\ CallInv' /\ KeyInv'
  <1>1. pc' \in [Task -> {"idle", "pend", "recheck"} \cup Owning]
    BY DEF PoolTypeOK, Goto, Owning
  <1>2. PoolTypeOK'
    BY <1>1 DEF PoolTypeOK, pool, fields, heads
  <1>3. \A u \in Task : /\ (pc'[u] = "idle" <=> pc[u] = "idle")
                        /\ (pc'[u] \in Owning <=> pc[u] \in Owning)
    BY DEF PoolTypeOK, Goto, Owning
  <1>4. CallInv'
    BY <1>3, PoolKept DEF CallInv
  <1>5. KeyInv'
    BY <1>3, PoolKept DEF KeyInv
  <1> QED
    BY <1>2, <1>4, <1>5

\* A call whose object was signalled goes to look at the bitmap again.
LEMMA PendingWakeInv ==
    ASSUME PoolInv, NEW t \in Task, PendingWake(t)
    PROVE  PoolInv'
  <1> DEFINE o == ObjIdx[t]
  <1>1. PoolTypeOK /\ CallInv /\ KeyInv
    BY DEF PoolInv
  <1>2. /\ pc[t] = "pend" /\ SyncObj[o] /\ SyncObj' = [SyncObj EXCEPT ![o] = FALSE]
        /\ Goto(t, "recheck") /\ UNCHANGED <<pool, restart, call, ObjIdx, owed, leaked>>
    BY DEF PendingWake
  <1>3. PoolTypeOK' /\ CallInv' /\ KeyInv'
    <2>1. SyncObj' \in [Obj -> BOOLEAN] /\ restart' \in BOOLEAN /\ owed' \subseteq Task
      BY <1>1, <1>2 DEF PoolTypeOK
    <2> QED
      BY <1>1, <1>2, <2>1, CallsKept DEF Owning
  <1>4. o \in Obj
    BY <1>1, <1>2, CallFacts
  <1>5. SyncObj'[o] = FALSE /\ \A x \in Obj : x # o => SyncObj'[x] = SyncObj[x]
    BY <1>1, <1>2, <1>4 DEF PoolTypeOK
  <1>6. pc'[t] = "recheck" /\ \A u \in Task \ {t} : pc'[u] = pc[u]
    BY <1>1, <1>2 DEF PoolTypeOK, Goto
  <1>7. \A u \in Task \ {t} : pc[u] # "idle" => ObjIdx[u] # o /\ SyncObj'[ObjIdx[u]] = SyncObj[ObjIdx[u]]
    BY <1>1, <1>2, <1>5 DEF CallInv
  <1>8. ASSUME ~restart' PROVE ListInv' /\ SignalInv'
    <2>1. ListInv /\ SignalInv
      BY <1>2, <1>8 DEF PoolInv
    <2>2. Lists(NextIndex, FreePoolIdx, PendingPoolIdx, ActivePoolIdx)'
      BY <1>2, <2>1, PoolKept DEF ListInv
    <2>3. ASSUME NEW u \in Task PROVE Listed(u)'
      <3>1. FreeList' = FreeList /\ PendingList' = PendingList /\ ActiveList' = ActiveList
        BY <1>2, PoolKept
      <3>2. Listed(u) /\ ObjIdx'[u] = ObjIdx[u]
        BY <1>2, <2>1 DEF ListInv
      <3>3. CASE u = t
        BY <1>2, <1>6, <3>1, <3>2, <3>3 DEF Listed, Owning
      <3>4. CASE u # t
        BY <1>6, <1>7, <3>1, <3>2, <3>4 DEF Listed, Owning
      <3> QED
        BY <3>3, <3>4
    <2>4. \A x \in FreeList' : Blank(x)'
      <3>1. o \notin FreeList
        BY <1>2, <2>1 DEF ListInv, Listed
      <3>2. FreeList \subseteq Obj
        BY <2>1, MembersAreObjects DEF ListInv, Lists, FreeList
      <3> QED
        BY <1>2, <1>5, <2>1, <3>1, <3>2, PoolKept DEF ListInv, Blank
    <2>5. \A x \in PendingList' : \E u \in Task : pc'[u] = "pend" /\ ObjIdx'[u] = x
      <3>1. o \notin PendingList
        BY <1>2, <2>1 DEF ListInv, Listed
      <3> QED
        BY <1>2, <1>6, <2>1, <3>1, PoolKept DEF ListInv
    <2>6. \A x \in ActiveList' :
             \/ \E u \in Task : pc'[u] \in Owning /\ ObjIdx'[u] = x
             \/ ObjKey(x)' \in leaked' /\ \E u \in Task : ObjCall(x)' \in May[u]
      BY <1>2, <1>6, <2>1, PoolKept DEF ListInv, Owning
    <2>7. \A u \in Task : pc'[u] \in {"send", "release", "recheck"} => ~SyncObj'[ObjIdx'[u]]
      BY <1>2, <1>5, <1>6, <1>7, <2>1 DEF SignalInv
    <2>8. \A u \in owed' : pc'[u] = "wait" /\ ~SyncObj'[ObjIdx'[u]]
      BY <1>1, <1>2, <1>6, <1>7, <2>1 DEF SignalInv, PoolTypeOK
    <2> QED
      BY <2>2, <2>3, <2>4, <2>5, <2>6, <2>7, <2>8 DEF ListInv, SignalInv
  <1> QED
    BY <1>3, <1>8 DEF PoolInv

\* A woken call, whose object is in no list, joins one again.
LEMMA RecheckInv ==
    ASSUME PoolInv, NEW t \in Task, Recheck(t)
    PROVE  PoolInv'
  <1> DEFINE o == ObjIdx[t]
             c == call[t]
  <1>1. PoolTypeOK /\ CallInv /\ KeyInv
    BY DEF PoolInv
  <1>2. /\ pc[t] = "recheck" /\ Enlist(t, o, c)
        /\ UNCHANGED <<fields, FreePoolIdx, SyncObj, restart, call, ObjIdx, owed, leaked>>
    BY DEF Recheck
  <1>3. o \in Obj /\ c \in May[t] /\ Key(c) \in Socket \cup Action
    BY <1>1, <1>2, CallFacts, MayCall
  <1>4. /\ NextIndex' \in Link /\ PendingPoolIdx' \in 0..N /\ ActivePoolIdx' \in 0..N
        /\ pc' = [pc EXCEPT ![t] = IF Key(c) \in ActiveActions THEN "pend" ELSE "send"]
        /\ ActiveActions' = ActiveActions \cup {Key(c)}
    BY <1>1, <1>2, <1>3, EnlistLists
  <1>5. /\ pc'[t] \in {"pend", "send"} /\ (pc'[t] = "pend" <=> Key(c) \in ActiveActions)
        /\ \A u \in Task \ {t} : pc'[u] = pc[u]
    BY <1>1, <1>4 DEF PoolTypeOK
  <1>6. PoolTypeOK'
    <2>1. pc' \in [Task -> {"idle", "pend", "recheck"} \cup Owning]
      BY <1>1, <1>4 DEF PoolTypeOK, Owning
    <2>2. ActiveActions' \subseteq Socket \cup Action
      BY <1>1, <1>3, <1>4 DEF PoolTypeOK
    <2> QED
      BY <1>1, <1>2, <1>4, <2>1, <2>2 DEF PoolTypeOK, fields, Link
  <1>7. \A x : ObjCall(x)' = ObjCall(x) /\ ObjKey(x)' = ObjKey(x)
    BY <1>2 DEF fields, ObjCall, ObjKey
  <1>8. CallInv'
    <2>1. \A u \in Task : pc'[u] = "idle" <=> pc[u] = "idle"
      BY <1>2, <1>5
    <2> QED
      BY <1>1, <1>2, <1>7, <2>1 DEF CallInv
  <1>9. KeyInv'
    <2>1. \A u \in Task : pc'[u] \in Owning <=> \/ u # t /\ pc[u] \in Owning
                                                \/ u = t /\ Key(c) \notin ActiveActions
      BY <1>2, <1>5 DEF Owning
    <2>2. pc[t] \notin Owning
      BY <1>2 DEF Owning
    <2> QED
      BY <1>1, <1>2, <1>4, <2>1, <2>2 DEF KeyInv
  <1>10. ASSUME ~restart' PROVE ListInv' /\ SignalInv'
    <2>1. ListInv /\ SignalInv
      BY <1>2, <1>10 DEF PoolInv
    <2>2. o \notin FreeList \cup PendingList \cup ActiveList
      BY <1>2, <2>1 DEF ListInv, Listed
    <2>3. /\ Lists(NextIndex, FreePoolIdx, PendingPoolIdx, ActivePoolIdx)'
          /\ FreeList' = FreeList
          /\ PendingList' = PendingList \cup {x \in {o} : Key(c) \in ActiveActions}
          /\ ActiveList' = ActiveList \cup {x \in {o} : Key(c) \notin ActiveActions}
      <3>1. Lists(NextIndex, FreePoolIdx, PendingPoolIdx, ActivePoolIdx)
        BY <2>1 DEF ListInv
      <3>2. o \notin Members(NextIndex, FreePoolIdx) \cup PendingList \cup ActiveList
        BY <2>2 DEF FreeList
      <3>3. /\ Lists(NextIndex', FreePoolIdx, PendingPoolIdx', ActivePoolIdx')
            /\ Members(NextIndex', FreePoolIdx) = Members(NextIndex, FreePoolIdx)
            /\ PendingList' = PendingList \cup {x \in {o} : Key(c) \in ActiveActions}
            /\ ActiveList' = ActiveList \cup {x \in {o} : Key(c) \notin ActiveActions}
        BY <1>1, <1>2, <1>3, <3>1, <3>2, EnlistLists
      <3> QED
        BY <1>2, <3>3 DEF FreeList
    <2>4. ~SyncObj[o]
      BY <1>2, <2>1 DEF SignalInv
    <2>5. ASSUME NEW u \in Task PROVE Listed(u)'
      <3>1. Listed(u) /\ ObjIdx'[u] = ObjIdx[u] /\ SyncObj' = SyncObj
        BY <1>2, <2>1 DEF ListInv
      <3>2. CASE u = t
        BY <1>5, <2>2, <2>3, <2>4, <3>1, <3>2 DEF Listed, Owning
      <3>3. CASE u # t
        <4>1. pc'[u] = pc[u] /\ (pc[u] # "idle" => ObjIdx[u] # o)
          BY <1>1, <1>5, <3>3 DEF CallInv
        <4> QED
          BY <2>3, <3>1, <4>1 DEF Listed, Owning
      <3> QED
        BY <3>2, <3>3
    <2>6. \A x \in FreeList' : Blank(x)'
      BY <1>2, <2>1, <2>3 DEF ListInv, Blank, fields
    <2>7. \A x \in PendingList' : \E u \in Task : pc'[u] = "pend" /\ ObjIdx'[u] = x
      BY <1>2, <1>5, <2>1, <2>3 DEF ListInv
    <2>8. \A x \in ActiveList' :
             \/ \E u \in Task : pc'[u] \in Owning /\ ObjIdx'[u] = x
             \/ ObjKey(x)' \in leaked' /\ \E u \in Task : ObjCall(x)' \in May[u]
      BY <1>2, <1>5, <1>7, <2>1, <2>3 DEF ListInv, Owning
    <2>9. \A u \in Task : pc'[u] \in {"send", "release", "recheck"} => ~SyncObj'[ObjIdx'[u]]
      BY <1>2, <1>5, <2>1, <2>4 DEF SignalInv
    <2>10. \A u \in owed' : pc'[u] = "wait" /\ ~SyncObj'[ObjIdx'[u]]
      BY <1>1, <1>2, <1>5, <2>1 DEF SignalInv, PoolTypeOK
    <2> QED
      BY <2>3, <2>5, <2>6, <2>7, <2>8, <2>9, <2>10 DEF ListInv, SignalInv
  <1> QED
    BY <1>6, <1>8, <1>9, <1>10 DEF PoolInv

\* A call that returns without a release: its key is lost, its object stays.
LEMMA LeakKept ==
    ASSUME PoolTypeOK, CallInv, KeyInv, UNCHANGED pool, NEW t \in Task, pc[t] \in Owning, Leak(t),
           SyncObj' \in [Obj -> BOOLEAN], restart' \in BOOLEAN, owed' \subseteq Task
    PROVE  /\ PoolTypeOK' /\ CallInv' /\ KeyInv'
           /\ pc'[t] = "idle" /\ ObjIdx'[t] = N /\ leaked' = leaked \cup {Key(call[t])}
           /\ \A u \in Task \ {t} : pc'[u] = pc[u] /\ call'[u] = call[u] /\ ObjIdx'[u] = ObjIdx[u]
  <1>1. /\ leaked' = leaked \cup {Key(call[t])} /\ call' = [call EXCEPT ![t] = NoCall]
        /\ ObjIdx' = [ObjIdx EXCEPT ![t] = N] /\ pc' = [pc EXCEPT ![t] = "idle"]
    BY DEF Leak, Goto
  <1>2. /\ pc'[t] = "idle" /\ ObjIdx'[t] = N /\ call'[t] = NoCall
        /\ \A u \in Task \ {t} : pc'[u] = pc[u] /\ call'[u] = call[u] /\ ObjIdx'[u] = ObjIdx[u]
    BY <1>1 DEF PoolTypeOK
  <1>3. Key(call[t]) \in Socket \cup Action
    BY CallFacts, MayCall DEF Owning
  <1>4. PoolTypeOK'
    <2>1. pc' \in [Task -> {"idle", "pend", "recheck"} \cup Owning]
      BY <1>1 DEF PoolTypeOK
    <2>2. call' \in [Task -> [act : Action \cup {NoAction}, sd : Socket \cup {NoSocket}]]
      BY <1>1 DEF PoolTypeOK, NoCall
    <2>3. \A u \in Task : call'[u] \in May[u] \cup {NoCall}
      BY <1>2 DEF PoolTypeOK
    <2>4. ObjIdx' \in [Task -> 0..N] /\ leaked' \subseteq Socket \cup Action
      BY <1>1, <1>3, Indices DEF PoolTypeOK
    <2> QED
      BY <2>1, <2>2, <2>3, <2>4 DEF PoolTypeOK, pool, fields, heads
  <1>5. CallInv'
    <2>1. \A u \in Task : pc'[u] # "idle" => u # t /\ pc[u] # "idle"
      BY <1>2
    <2>2. ASSUME NEW u \in Task, pc'[u] # "idle"
          PROVE  ObjIdx'[u] \in Obj /\ call'[u] \in May[u] /\ ObjCall(ObjIdx[u])' = call'[u]
      BY <1>2, <2>1, <2>2, PoolKept DEF CallInv
    <2>3. \A u \in Task : pc'[u] = "idle" => ObjIdx'[u] = N
      BY <1>2 DEF CallInv
    <2>4. \A u, v \in Task : pc'[u] # "idle" /\ ObjIdx'[u] = ObjIdx'[v] => u = v
      BY <1>2, <2>1, Indices DEF CallInv
    <2> QED
      BY <2>2, <2>3, <2>4 DEF CallInv
  <1>6. KeyInv'
    <2>1. \A u \in Task : pc'[u] \in Owning => u # t /\ pc[u] \in Owning
      BY <1>2 DEF Owning
    <2>2. \A u \in Task : u # t /\ pc[u] \in Owning => pc'[u] \in Owning
      BY <1>2
    <2> QED
      BY <1>1, <1>2, <2>1, <2>2, PoolKept DEF KeyInv
  <1> QED
    BY <1>1, <1>2, <1>4, <1>5, <1>6

\* The command of a call that owns its key is sent.
LEMMA SendCommandInv ==
    ASSUME PoolInv, NEW t \in Task, SendCommand(t)
    PROVE  PoolInv'
  <1>1. PoolTypeOK /\ CallInv /\ KeyInv
    BY DEF PoolInv
  <1>2. pc[t] = "send" /\ pc[t] \in Owning /\ UNCHANGED <<pool, SyncObj, restart>>
    BY DEF SendCommand, Owning
  <1>3. SyncObj' \in [Obj -> BOOLEAN] /\ restart' \in BOOLEAN
    BY <1>1, <1>2 DEF PoolTypeOK
  <1>4. ASSUME NEW l \in {"wait", "release"}, Goto(t, l), UNCHANGED <<call, ObjIdx, leaked>>,
               owed' = owed \cup {u \in {t} : l = "wait"}
        PROVE  PoolInv'
    <2>1. PoolTypeOK' /\ CallInv' /\ KeyInv'
      <3>1. owed' \subseteq Task
        BY <1>1, <1>4 DEF PoolTypeOK
      <3> QED
        BY <1>1, <1>2, <1>3, <1>4, <3>1, CallsKept DEF Owning
    <2>2. pc'[t] = l /\ \A u \in Task \ {t} : pc'[u] = pc[u]
      BY <1>1, <1>4 DEF PoolTypeOK, Goto
    <2>3. \A u \in Task : /\ (pc'[u] = "idle" <=> pc[u] = "idle")
                          /\ (pc'[u] = "pend" <=> pc[u] = "pend")
                          /\ (pc'[u] = "recheck" <=> pc[u] = "recheck")
                          /\ (pc'[u] \in Owning <=> pc[u] \in Owning)
      BY <1>2, <2>2 DEF Owning
    <2>4. ASSUME ~restart' PROVE ListInv' /\ SignalInv'
      <3>1. ListInv /\ SignalInv
        BY <1>2, <2>4 DEF PoolInv
      <3>2. \A u \in Task : Listed(u)'
        BY <1>2, <1>4, <2>3, <3>1, PoolKept DEF ListInv, Listed
      <3>3. \A x \in FreeList' : Blank(x)'
        BY <1>2, <3>1, PoolKept DEF ListInv, Blank
      <3>4. /\ Lists(NextIndex, FreePoolIdx, PendingPoolIdx, ActivePoolIdx)'
            /\ \A x \in PendingList' : \E u \in Task : pc'[u] = "pend" /\ ObjIdx'[u] = x
        BY <1>2, <1>4, <2>3, <3>1, PoolKept DEF ListInv
      <3>5. \A x \in ActiveList' :
               \/ \E u \in Task : pc'[u] \in Owning /\ ObjIdx'[u] = x
               \/ ObjKey(x)' \in leaked' /\ \E u \in Task : ObjCall(x)' \in May[u]
        BY <1>2, <1>4, <2>3, <3>1, PoolKept DEF ListInv
      <3>6. \A u \in Task : pc'[u] \in {"send", "release", "recheck"} => ~SyncObj'[ObjIdx'[u]]
        BY <1>2, <1>4, <2>2, <3>1 DEF SignalInv
      <3>7. \A u \in owed' : pc'[u] = "wait" /\ ~SyncObj'[ObjIdx'[u]]
        BY <1>1, <1>2, <1>4, <2>2, <3>1 DEF SignalInv, PoolTypeOK
      <3> QED
        BY <3>2, <3>3, <3>4, <3>5, <3>6, <3>7 DEF ListInv, SignalInv
    <2> QED
      BY <2>1, <2>4 DEF PoolInv
  <1>5. ASSUME Leak(t), owed' = owed PROVE PoolInv'
    <2> DEFINE o == ObjIdx[t]
    <2>1. /\ PoolTypeOK' /\ CallInv' /\ KeyInv'
          /\ pc'[t] = "idle" /\ ObjIdx'[t] = N /\ leaked' = leaked \cup {Key(call[t])}
          /\ \A u \in Task \ {t} : pc'[u] = pc[u] /\ call'[u] = call[u] /\ ObjIdx'[u] = ObjIdx[u]
      <3>1. owed' \subseteq Task
        BY <1>1, <1>5 DEF PoolTypeOK
      <3> QED
        BY <1>1, <1>2, <1>3, <1>5, <3>1, LeakKept
    <2>2. o \in Obj /\ ObjKey(o) = Key(call[t]) /\ ObjCall(o) \in May[t]
      BY <1>1, <1>2, CallFacts DEF CallInv
    <2>3. ASSUME ~restart' PROVE ListInv' /\ SignalInv'
      <3>1. ListInv /\ SignalInv
        BY <1>2, <2>3 DEF PoolInv
      <3>2. ASSUME NEW u \in Task PROVE Listed(u)'
        <4>1. Listed(u)
          BY <3>1 DEF ListInv
        <4>2. CASE u = t
          BY <2>1, <4>2 DEF Listed, Owning
        <4>3. CASE u # t
          BY <1>2, <2>1, <4>1, <4>3, PoolKept DEF Listed
        <4> QED
          BY <4>2, <4>3
      <3>3. \A x \in FreeList' : Blank(x)'
        BY <1>2, <3>1, PoolKept DEF ListInv, Blank
      <3>4. /\ Lists(NextIndex, FreePoolIdx, PendingPoolIdx, ActivePoolIdx)'
            /\ \A x \in PendingList' : \E u \in Task : pc'[u] = "pend" /\ ObjIdx'[u] = x
        BY <1>2, <2>1, <3>1, PoolKept DEF ListInv
      <3>5. ASSUME NEW x \in ActiveList'
            PROVE  \/ \E u \in Task : pc'[u] \in Owning /\ ObjIdx'[u] = x
                   \/ ObjKey(x)' \in leaked' /\ \E u \in Task : ObjCall(x)' \in May[u]
        <4>1. x \in ActiveList /\ ObjKey(x)' = ObjKey(x) /\ ObjCall(x)' = ObjCall(x)
          BY <1>2, <3>5, PoolKept
        <4>2. CASE x = o
          BY <2>1, <2>2, <4>1, <4>2
        <4>3. CASE x # o /\ \E u \in Task : pc[u] \in Owning /\ ObjIdx[u] = x
          BY <2>1, <4>3
        <4>4. CASE ObjKey(x) \in leaked /\ \E u \in Task : ObjCall(x) \in May[u]
          BY <2>1, <4>1, <4>4
        <4> QED
          BY <3>1, <4>1, <4>2, <4>3, <4>4 DEF ListInv
      <3>6. \A u \in Task : pc'[u] \in {"send", "release", "recheck"} => ~SyncObj'[ObjIdx'[u]]
        BY <1>2, <2>1, <3>1 DEF SignalInv
      <3>7. \A u \in owed' : pc'[u] = "wait" /\ ~SyncObj'[ObjIdx'[u]]
        BY <1>1, <1>2, <1>5, <2>1, <3>1 DEF SignalInv, PoolTypeOK
      <3> QED
        BY <3>2, <3>3, <3>4, <3>5, <3>6, <3>7 DEF ListInv, SignalInv
    <2> QED
      BY <2>1, <2>3 DEF PoolInv
  <1>6. CASE owed' = owed \cup {t} /\ Goto(t, "wait") /\ UNCHANGED <<call, ObjIdx, leaked>>
    <2>1. owed' = owed \cup {u \in {t} : "wait" = "wait"}
      BY <1>6
    <2> QED
      BY <1>4, <1>6, <2>1
  <1>7. CASE Goto(t, "release") /\ UNCHANGED <<call, ObjIdx, owed, leaked>>
    <2>1. owed' = owed \cup {u \in {t} : "release" = "wait"}
      BY <1>7
    <2> QED
      BY <1>4, <1>7, <2>1
  <1>8. CASE Leak(t) /\ UNCHANGED owed
    BY <1>5, <1>8
  <1> QED
    BY <1>6, <1>7, <1>8 DEF SendCommand

\* Two calls of one action that a search may confuse concern the same key.
LEMMA SameKey ==
    ASSUME NEW t \in Task, NEW u \in Task, NEW c \in May[t], NEW d \in May[u],
           c.act = d.act, d.sd = c.sd \/ d.sd = NoSocket
    PROVE  Key(c) = Key(d)
  <1>1. c.sd = NoSocket <=> d.sd = NoSocket
    BY PoolAssumption
  <1> QED
    BY <1>1 DEF Key

\* An answer finds the object of its call: no other active object, lost or
\* owned, is taken for it.
LEMMA AnswerFindsCall ==
    ASSUME PoolTypeOK, CallInv, KeyInv, ListInv, SignalInv, NEW t \in owed
    PROVE  ActiveObjFor(call[t]) = ObjIdx[t]
  <1> DEFINE c == call[t]
             Hit == {o \in Obj : /\ ActionID[o] = c.act
                                 /\ \/ AdditionalData[o] = c.sd
                                    \/ c.act # Recv /\ AdditionalData[o] = NoSocket}
             x == FirstOn(NextIndex, ActivePoolIdx, Hit)
  <1>1. t \in Task /\ pc[t] = "wait" /\ pc[t] \in Owning
    BY DEF PoolTypeOK, SignalInv, Owning
  <1>2. /\ ObjIdx[t] \in Obj /\ c \in May[t] /\ ActionID[ObjIdx[t]] = c.act
        /\ AdditionalData[ObjIdx[t]] = c.sd
    BY <1>1, CallFacts
  <1>3. NextIndex \in Link /\ ActivePoolIdx \in 0..N
    BY DEF PoolTypeOK, Link
  <1>4. ActiveList = Reach(NextIndex, ActivePoolIdx) \ {N} /\ ObjIdx[t] \in ActiveList
    <2>1. Listed(t)
      BY <1>1 DEF ListInv
    <2> QED
      BY <1>1, <1>3, <2>1, MembersAreObjects DEF ActiveList, Listed
  <1>5. Hit \in SUBSET Obj /\ ObjIdx[t] \in Hit
    BY <1>2
  <1> HIDE DEF Hit
  <1>6. x \in Reach(NextIndex, ActivePoolIdx) \cap Hit
    BY <1>3, <1>4, <1>5, Search
  <1> HIDE DEF x
  <1>7. x \in ActiveList /\ x \in Obj
    BY <1>4, <1>5, <1>6, Indices
  <1>8. ActionID[x] = c.act /\ (AdditionalData[x] = c.sd \/ AdditionalData[x] = NoSocket)
    BY <1>6 DEF Hit
  <1>9. CASE \E u \in Task : pc[u] \in Owning /\ ObjIdx[u] = x
    <2>1. PICK u \in Task : pc[u] \in Owning /\ ObjIdx[u] = x
      BY <1>9
    <2>2. call[u] \in May[u] /\ ActionID[x] = call[u].act /\ AdditionalData[x] = call[u].sd
      BY <2>1, CallFacts DEF Owning
    <2>3. Key(c) = Key(call[u])
      <3>1. c.act = call[u].act /\ (call[u].sd = c.sd \/ call[u].sd = NoSocket)
        BY <1>8, <2>2
      <3>2. t \in Task /\ u \in Task /\ c \in May[t] /\ call[u] \in May[u]
        BY <1>1, <1>2, <2>2
      <3> HIDE DEF c
      <3> QED
        BY <3>1, <3>2, SameKey
    <2>4. u = t
      BY <1>1, <2>1, <2>3 DEF KeyInv
    <2> QED
      BY <2>1, <2>4 DEF x, Hit, ActiveObjFor
  <1>10. CASE ObjKey(x) \in leaked /\ \E u \in Task : ObjCall(x) \in May[u]
    <2>1. PICK u \in Task : ObjCall(x) \in May[u]
      BY <1>10
    <2>2. ObjCall(x).act = ActionID[x] /\ ObjCall(x).sd = AdditionalData[x]
      BY DEF ObjCall
    <2>3. Key(c) = Key(ObjCall(x))
      BY <1>1, <1>2, <1>8, <2>1, <2>2, SameKey
    <2>4. Key(c) \in leaked
      BY <1>10, <2>3 DEF ObjKey, ObjCall
    <2> QED
      BY <1>1, <2>4 DEF KeyInv
  <1> QED
    BY <1>7, <1>9, <1>10 DEF ListInv

\* The answer is signalled to the call that waits for it.
LEMMA SignalledInv ==
    ASSUME PoolInv, NEW t \in owed, ~restart, owed' = owed \ {t},
           SyncObj' = [SyncObj EXCEPT ![ObjIdx[t]] = TRUE],
           UNCHANGED <<pool, restart, pc, call, ObjIdx, leaked>>
    PROVE  PoolInv'
  <1> DEFINE o == ObjIdx[t]
  <1>1. /\ PoolTypeOK /\ CallInv /\ KeyInv /\ ListInv /\ SignalInv
        /\ t \in owed /\ owed' = owed \ {t} /\ t \in Task
        /\ UNCHANGED <<pool, restart, pc, call, ObjIdx, leaked>>
    BY DEF PoolInv, PoolTypeOK
  <1>2. pc[t] = "wait" /\ o \in Obj /\ o # N
    BY <1>1, CallFacts DEF SignalInv
  <1>3. SyncObj' = [SyncObj EXCEPT ![o] = TRUE]
    OBVIOUS
  <1>4. SyncObj'[o] = TRUE /\ \A x \in Obj : x # o => SyncObj'[x] = SyncObj[x]
    BY <1>1, <1>2, <1>3 DEF PoolTypeOK
  <1>5. \A u \in Task : u # t /\ pc[u] # "idle" => ObjIdx[u] \in Obj /\ ObjIdx[u] # o
    BY <1>1, <1>2 DEF CallInv
  <1>6. PoolTypeOK'
    BY <1>1, <1>3 DEF PoolTypeOK, pool, fields, heads
  <1>7. CallInv'
    BY <1>1, PoolKept DEF CallInv
  <1>8. KeyInv'
    BY <1>1, PoolKept DEF KeyInv
  <1>9. \A u \in Task : Listed(u)'
    <2>1. \A u \in Task : Listed(u)
      BY <1>1 DEF ListInv
    <2>2. \A u \in Task : pc[u] = "pend" => SyncObj'[ObjIdx[u]] = SyncObj[ObjIdx[u]]
      BY <1>2, <1>4, <1>5
    <2> QED
      BY <1>1, <2>1, <2>2, PoolKept DEF Listed
  <1>10. \A x \in FreeList' : Blank(x)'
    <2>1. o \notin FreeList
      BY <1>1, <1>2 DEF ListInv, Listed
    <2>2. FreeList \subseteq Obj
      BY <1>1, MembersAreObjects DEF ListInv, Lists, FreeList
    <2> QED
      BY <1>1, <1>4, <2>1, <2>2, PoolKept DEF ListInv, Blank
  <1>11. ListInv'
    <2>1. Lists(NextIndex, FreePoolIdx, PendingPoolIdx, ActivePoolIdx)'
      BY <1>1, PoolKept DEF ListInv
    <2>2. \A x \in PendingList' : \E u \in Task : pc'[u] = "pend" /\ ObjIdx'[u] = x
      BY <1>1, PoolKept DEF ListInv
    <2>3. \A x \in ActiveList' :
             \/ \E u \in Task : pc'[u] \in Owning /\ ObjIdx'[u] = x
             \/ ObjKey(x)' \in leaked' /\ \E u \in Task : ObjCall(x)' \in May[u]
      BY <1>1, PoolKept DEF ListInv
    <2> QED
      BY <1>9, <1>10, <2>1, <2>2, <2>3 DEF ListInv
  <1>12. SignalInv'
    <2>1. \A u \in Task : pc'[u] \in {"send", "release", "recheck"} => ~SyncObj'[ObjIdx'[u]]
      BY <1>1, <1>2, <1>4, <1>5 DEF SignalInv
    <2>2. \A u \in owed' : pc'[u] = "wait" /\ ~SyncObj'[ObjIdx'[u]]
      BY <1>1, <1>4, <1>5 DEF SignalInv, PoolTypeOK
    <2> QED
      BY <2>1, <2>2 DEF SignalInv
  <1> QED
    BY <1>6, <1>7, <1>8, <1>11, <1>12 DEF PoolInv

\* What an answer that is owed finds: its call's object.
LEMMA OwedObject ==
    ASSUME PoolInv, ~restart, NEW t \in owed
    PROVE  /\ ActiveObjFor(call[t]) = ObjIdx[t] /\ t \in Task
           /\ ObjIdx[t] \in Obj /\ ObjIdx[t] # N /\ ActionID[ObjIdx[t]] # NoAction
  <1>1. PoolTypeOK /\ CallInv /\ KeyInv /\ ListInv /\ SignalInv /\ t \in Task
    BY DEF PoolInv, PoolTypeOK
  <1>2. pc[t] = "wait"
    BY <1>1 DEF SignalInv
  <1>3. ObjIdx[t] \in Obj /\ ObjIdx[t] # N /\ call[t] \in May[t] /\ ActionID[ObjIdx[t]] = call[t].act
    BY <1>1, <1>2, CallFacts
  <1>4. call[t].act # NoAction
    BY <1>1, <1>3, MayCall, PoolAssumption
  <1> QED
    BY <1>1, <1>3, <1>4, AnswerFindsCall

\* The answer to a receive.
LEMMA DeliverDataInv ==
    ASSUME PoolInv, NEW t \in Task, DeliverData(t)
    PROVE  PoolInv'
  <1>1. t \in owed /\ ~restart /\ owed' = owed \ {t}
        /\ UNCHANGED <<pool, restart, pc, call, ObjIdx, leaked>>
    BY DEF DeliverData
  <1>2. SyncObj' = [SyncObj EXCEPT ![ObjIdx[t]] = TRUE]
    BY <1>1, OwedObject DEF DeliverData
  <1> QED
    BY <1>1, <1>2, SignalledInv

\* The handler of any other answer.
LEMMA HandleAsyncInv ==
    ASSUME PoolInv, HandInv, NEW t \in Task, HandleAsync(t)
    PROVE  PoolInv'
  <1>1. /\ t \in answering /\ owed' = owed \ {t}
        /\ UNCHANGED <<pool, restart, pc, call, ObjIdx, leaked>>
    BY DEF HandleAsync
  <1>2. CASE ~restart
    <2>1. t \in owed /\ ActionIndex = ObjIdx[t]
      BY <1>1, <1>2 DEF HandInv
    <2>2. SyncObj' = [SyncObj EXCEPT ![ObjIdx[t]] = TRUE]
      BY <1>2, <2>1, OwedObject DEF HandleAsync, SignalObj
    <2> QED
      BY <1>1, <1>2, <2>1, <2>2, SignalledInv
  <1>3. CASE restart
    <2>1. PoolTypeOK /\ CallInv /\ KeyInv
      BY DEF PoolInv
    <2>2. SyncObj' \in [Obj -> BOOLEAN]
      BY <2>1 DEF HandleAsync, SignalObj, PoolTypeOK
    <2>3. PoolTypeOK'
      BY <1>1, <2>1, <2>2 DEF PoolTypeOK, pool, fields, heads
    <2>4. CallInv'
      BY <1>1, <2>1, PoolKept DEF CallInv
    <2>5. KeyInv'
      BY <1>1, <2>1, PoolKept DEF KeyInv
    <2> QED
      BY <1>1, <1>3, <2>3, <2>4, <2>5 DEF PoolInv
  <1> QED
    BY <1>2, <1>3 DEF PoolInv, PoolTypeOK

\* The wait is over: the object is released, or lost when the device restarts.
LEMMA WaitDoneInv ==
    ASSUME PoolInv, NEW t \in Task, WaitDone(t)
    PROVE  PoolInv'
  <1> DEFINE o == ObjIdx[t]
  <1>1. /\ PoolTypeOK /\ CallInv /\ KeyInv /\ pc[t] = "wait" /\ pc[t] \in Owning /\ SyncObj[o]
        /\ SyncObj' = [SyncObj EXCEPT ![o] = FALSE] /\ UNCHANGED <<pool, restart, owed>>
    BY DEF PoolInv, WaitDone, Owning
  <1>2. SyncObj' \in [Obj -> BOOLEAN] /\ restart' \in BOOLEAN /\ owed' \subseteq Task
    BY <1>1 DEF PoolTypeOK
  <1>3. CASE restart
    <2>1. Leak(t)
      BY <1>3 DEF WaitDone
    <2>2. PoolTypeOK' /\ CallInv' /\ KeyInv'
      BY <1>1, <1>2, <2>1, LeakKept
    <2> QED
      BY <1>1, <1>3, <2>2 DEF PoolInv
  <1>4. CASE ~restart
    <2>1. Goto(t, "release") /\ UNCHANGED <<call, ObjIdx, leaked>> /\ ListInv /\ SignalInv
      BY <1>4 DEF WaitDone, PoolInv
    <2>2. PoolTypeOK' /\ CallInv' /\ KeyInv'
      BY <1>1, <1>2, <2>1, CallsKept DEF Owning
    <2>3. o \in Obj
      BY <1>1, CallFacts
    <2>4. SyncObj'[o] = FALSE /\ \A x \in Obj : x # o => SyncObj'[x] = SyncObj[x]
      BY <1>1, <2>3 DEF PoolTypeOK
    <2>5. \A u \in Task : u # t /\ pc[u] # "idle" => ObjIdx[u] \in Obj /\ ObjIdx[u] # o
      BY <1>1, <2>3 DEF CallInv
    <2>6. pc'[t] = "release" /\ \A u \in Task \ {t} : pc'[u] = pc[u]
      BY <1>1, <2>1 DEF PoolTypeOK, Goto
    <2>7. \A u \in Task : /\ (pc'[u] = "idle" <=> pc[u] = "idle")
                          /\ (pc'[u] = "pend" <=> pc[u] = "pend")
                          /\ (pc'[u] = "recheck" <=> pc[u] = "recheck")
                          /\ (pc'[u] \in Owning <=> pc[u] \in Owning)
      BY <1>1, <2>6 DEF Owning
    <2>8. \A u \in Task : Listed(u)'
      <3>1. \A u \in Task : Listed(u)
        BY <2>1 DEF ListInv
      <3>2. \A u \in Task : pc[u] = "pend" => SyncObj'[ObjIdx[u]] = SyncObj[ObjIdx[u]]
        BY <1>1, <2>4, <2>5
      <3> QED
        BY <1>1, <2>1, <2>7, <3>1, <3>2, PoolKept DEF Listed
    <2>9. \A x \in FreeList' : Blank(x)'
      <3>1. o \notin FreeList
        BY <1>1, <2>1 DEF ListInv, Listed
      <3>2. FreeList \subseteq Obj
        BY <2>1, MembersAreObjects DEF ListInv, Lists, FreeList
      <3> QED
        BY <1>1, <2>1, <2>4, <3>1, <3>2, PoolKept DEF ListInv, Blank
    <2>10. /\ Lists(NextIndex, FreePoolIdx, PendingPoolIdx, ActivePoolIdx)'
           /\ \A x \in PendingList' : \E u \in Task : pc'[u] = "pend" /\ ObjIdx'[u] = x
      BY <1>1, <2>1, <2>7, PoolKept DEF ListInv
    <2>11. \A x \in ActiveList' :
              \/ \E u \in Task : pc'[u] \in Owning /\ ObjIdx'[u] = x
              \/ ObjKey(x)' \in leaked' /\ \E u \in Task : ObjCall(x)' \in May[u]
      BY <1>1, <2>1, <2>7, PoolKept DEF ListInv
    <2>12. \A u \in Task : pc'[u] \in {"send", "release", "recheck"} => ~SyncObj'[ObjIdx'[u]]
      BY <2>1, <2>4, <2>5, <2>6 DEF SignalInv
    <2>13. \A u \in owed' : pc'[u] = "wait" /\ ~SyncObj'[ObjIdx'[u]]
      BY <1>1, <2>1, <2>4, <2>5, <2>6 DEF SignalInv, PoolTypeOK
    <2> QED
      BY <2>2, <2>8, <2>9, <2>10, <2>11, <2>12, <2>13 DEF ListInv, SignalInv, PoolInv
  <1> QED
    BY <1>3, <1>4

\* _SlDriverHandleError signals objects and nothing else.
LEMMA HandleErrorInv ==
    ASSUME PoolInv
    PROVE  /\ \A t \in Task : WaitTimeout(t) => PoolInv'
           /\ DriverError => PoolInv'
  <1>1. PoolTypeOK /\ CallInv /\ KeyInv
    BY DEF PoolInv
  <1>2. ASSUME HandleError
        PROVE  SyncObj' \in [Obj -> BOOLEAN] /\ restart' \in BOOLEAN /\ restart' = TRUE
    BY <1>1, <1>2 DEF HandleError, PoolTypeOK
  <1>3. ASSUME NEW t \in Task, WaitTimeout(t) PROVE PoolInv'
    <2>1. /\ pc[t] = "wait" /\ Goto(t, "release") /\ HandleError
          /\ UNCHANGED <<pool, call, ObjIdx, owed, leaked>>
      BY <1>3 DEF WaitTimeout
    <2>2. owed' \subseteq Task
      BY <1>1, <2>1 DEF PoolTypeOK
    <2>3. PoolTypeOK' /\ CallInv' /\ KeyInv'
      BY <1>1, <1>2, <2>1, <2>2, CallsKept DEF Owning
    <2> QED
      BY <1>2, <2>1, <2>3 DEF PoolInv
  <1>4. ASSUME DriverError PROVE PoolInv'
    <2>1. HandleError /\ UNCHANGED <<pool, pc, call, ObjIdx, owed, leaked>>
      BY <1>4 DEF DriverError
    <2>2. PoolTypeOK'
      BY <1>1, <1>2, <2>1 DEF PoolTypeOK, pool, fields, heads
    <2>3. CallInv'
      BY <1>1, <2>1, PoolKept DEF CallInv
    <2>4. KeyInv'
      BY <1>1, <2>1, PoolKept DEF KeyInv
    <2> QED
      BY <1>2, <2>1, <2>2, <2>3, <2>4 DEF PoolInv
  <1> QED
    BY <1>3, <1>4

\* Whatever the list is, what _SlRemoveFromList returns is one.
LEMMA RemoveType ==
    ASSUME NEW next \in Link, NEW h \in 0..N, NEW item \in Obj
    PROVE  LET r == RemoveFromList(next, h, item) IN r.next \in Link /\ r.head \in 0..N
  <1> DEFINE Hit == {o \in Obj : next[o] = item}
             p == FirstOn(next, h, Hit)
  <1>1. Hit \in SUBSET Obj
    OBVIOUS
  <1>2. p = N \/ p \in Obj
    <2> HIDE DEF Hit
    <2> QED
      BY <1>1, Search
  <1>3. next[item] \in 0..N /\ N \in 0..N
    BY Indices DEF Link
  <1>4. p \in Obj => [next EXCEPT ![p] = next[item]] \in Link
    <2> HIDE DEF p
    <2> QED
      BY <1>3 DEF Link
  <1>5. RemoveFromList(next, h, item) =
           IF next[h] = N THEN [head |-> N, next |-> next]
           ELSE IF h = item THEN [head |-> next[item], next |-> next]
           ELSE [head |-> h, next |-> IF p = N THEN next ELSE [next EXCEPT ![p] = next[item]]]
    BY DEF RemoveFromList
  <1> HIDE DEF p
  <1> QED
    BY <1>2, <1>3, <1>4, <1>5

\* What a release does to the fields: p is the call it wakes, or N.
Woken(t) == FirstOn(NextIndex, PendingPoolIdx, {q \in Obj : WakesUp(ObjIdx[t], q)})

\* The parts of a release.
LEMMA ReleaseStep ==
    ASSUME PoolTypeOK, CallInv, NEW t \in Task, ReleasePoolObj(t)
    PROVE  LET o == ObjIdx[t]
               p == Woken(t)
           IN  /\ pc[t] = "release" /\ o \in Obj /\ o # N
               /\ \/ p = N /\ \A q \in Obj : WakesUp(o, q)
                                => q \notin Reach(NextIndex, PendingPoolIdx)
                  \/ p \in Obj /\ p # N /\ p \in Reach(NextIndex, PendingPoolIdx) /\ WakesUp(o, p)
               /\ SyncObj' = IF p = N THEN SyncObj ELSE [SyncObj EXCEPT ![p] = TRUE]
               /\ ActiveActions' = ActiveActions \ {Key(call[t])}
               /\ ActionID' = [ActionID EXCEPT ![o] = NoAction]
               /\ AdditionalData' = [AdditionalData EXCEPT ![o] = NoSocket]
               /\ FreePoolIdx' = o
               /\ call' = [call EXCEPT ![t] = NoCall] /\ ObjIdx' = [ObjIdx EXCEPT ![t] = N]
               /\ pc' = [pc EXCEPT ![t] = "idle"] /\ UNCHANGED <<restart, owed, leaked>>
  <1> DEFINE o == ObjIdx[t]
             Hit == {q \in Obj : WakesUp(o, q)}
             p == Woken(t)
  <1>1. pc[t] = "release" /\ o \in Obj /\ o # N /\ ObjKey(o) = Key(call[t])
    BY CallFacts DEF ReleasePoolObj
  <1>2. \/ p = N /\ Reach(NextIndex, PendingPoolIdx) \cap Hit = {}
        \/ p \in Reach(NextIndex, PendingPoolIdx) \cap Hit
    <2>1. Hit \in SUBSET Obj /\ NextIndex \in Link /\ PendingPoolIdx \in 0..N
      BY DEF PoolTypeOK, Link
    <2>2. p = FirstOn(NextIndex, PendingPoolIdx, Hit)
      BY DEF Woken
    <2> HIDE DEF Hit, p
    <2> QED
      BY <2>1, <2>2, Search
  <1>3. \/ p = N /\ \A q \in Obj : WakesUp(o, q) => q \notin Reach(NextIndex, PendingPoolIdx)
        \/ p \in Obj /\ p # N /\ p \in Reach(NextIndex, PendingPoolIdx) /\ WakesUp(o, p)
    <2> HIDE DEF p
    <2> QED
      BY <1>2, Indices
  <1>4. /\ SyncObj' = IF p = N THEN SyncObj ELSE [SyncObj EXCEPT ![p] = TRUE]
        /\ ActiveActions' = ActiveActions \ {ObjKey(o)}
        /\ ActionID' = [ActionID EXCEPT ![o] = NoAction]
        /\ AdditionalData' = [AdditionalData EXCEPT ![o] = NoSocket]
        /\ FreePoolIdx' = o
        /\ call' = [call EXCEPT ![t] = NoCall] /\ ObjIdx' = [ObjIdx EXCEPT ![t] = N]
        /\ pc' = [pc EXCEPT ![t] = "idle"] /\ UNCHANGED <<restart, owed, leaked>>
    BY DEF ReleasePoolObj, Goto, Woken
  <1> QED
    BY <1>1, <1>3, <1>4

\* What a release does to the lists.
LEMMA ReleaseLists ==
    ASSUME PoolTypeOK, CallInv, NEW t \in Task, ReleasePoolObj(t)
    PROVE  /\ NextIndex' \in Link /\ PendingPoolIdx' \in 0..N /\ ActivePoolIdx' \in 0..N
           /\ ListInv => /\ Lists(NextIndex, FreePoolIdx, PendingPoolIdx, ActivePoolIdx)'
                         /\ PendingList' = PendingList \ {Woken(t)}
                         /\ ActiveList' = ActiveList \ {ObjIdx[t]}
                         /\ FreeList' = FreeList \cup {ObjIdx[t]}
  <1> DEFINE o == ObjIdx[t]
             p == Woken(t)
             pending == IF p = N THEN [head |-> PendingPoolIdx, next |-> NextIndex]
                        ELSE RemoveFromList(NextIndex, PendingPoolIdx, p)
             active == RemoveFromList(pending.next, ActivePoolIdx, o)
  <1>1. /\ pc[t] = "release" /\ o \in Obj /\ o # N
        /\ p = N \/ (p \in Obj /\ p # N /\ p \in Reach(NextIndex, PendingPoolIdx))
        /\ FreePoolIdx' = o
    BY ReleaseStep
  <1>2. /\ NextIndex \in Link /\ FreePoolIdx \in 0..N /\ PendingPoolIdx \in 0..N
        /\ ActivePoolIdx \in 0..N
    BY DEF PoolTypeOK, Link
  <1>3. /\ PendingPoolIdx' = pending.head /\ ActivePoolIdx' = active.head
        /\ NextIndex' = [active.next EXCEPT ![o] = FreePoolIdx]
    BY DEF ReleasePoolObj, Woken
  <1> HIDE DEF p
  <1>4. pending.next \in Link /\ pending.head \in 0..N
    <2>1. CASE p = N
      BY <1>2, <2>1
    <2>2. CASE p # N
      BY <1>1, <1>2, <2>2, RemoveType
    <2> QED
      BY <2>1, <2>2
  <1>5. active.next \in Link /\ active.head \in 0..N
    <2> HIDE DEF pending
    <2> QED
      BY <1>1, <1>2, <1>4, RemoveType
  <1>6. /\ NextIndex' \in Link /\ NextIndex'[o] = FreePoolIdx
        /\ \A x \in Obj \ {o} : NextIndex'[x] = active.next[x]
    <2> HIDE DEF active
    <2> QED
      BY <1>1, <1>2, <1>3, <1>5 DEF Link
  <1>7. ASSUME ListInv
        PROVE  /\ Lists(NextIndex, FreePoolIdx, PendingPoolIdx, ActivePoolIdx)'
               /\ PendingList' = PendingList \ {p} /\ ActiveList' = ActiveList \ {o}
               /\ FreeList' = FreeList \cup {o}
    <2>1. Lists(NextIndex, PendingPoolIdx, FreePoolIdx, ActivePoolIdx)
      BY <1>7, ListsSwap DEF ListInv
    <2>2. o \in ActiveList /\ o \notin FreeList /\ o \notin PendingList
      <3>1. o \in ActiveList
        BY <1>1, <1>7 DEF ListInv, Listed, Owning
      <3> QED
        BY <2>1, <3>1 DEF Lists, FreeList, PendingList, ActiveList
    <2>3. /\ Lists(pending.next, pending.head, FreePoolIdx, ActivePoolIdx)
          /\ Members(pending.next, pending.head) = PendingList \ {p}
          /\ Members(pending.next, FreePoolIdx) = FreeList
          /\ Members(pending.next, ActivePoolIdx) = ActiveList
      <3>1. CASE p = N
        <4>1. N \notin PendingList
          BY <1>2, MembersAreObjects DEF PendingList
        <4> QED
          BY <2>1, <3>1, <4>1 DEF FreeList, PendingList, ActiveList
      <3>2. CASE p # N
        <4>1. p \in Members(NextIndex, PendingPoolIdx)
          BY <1>1, <1>2, <3>2, MembersAreObjects
        <4>2. pending = RemoveFromList(NextIndex, PendingPoolIdx, p)
          BY <3>2
        <4> HIDE DEF pending
        <4> QED
          BY <2>1, <4>1, <4>2, RemoveFirst DEF FreeList, PendingList, ActiveList
      <3> QED
        BY <3>1, <3>2
    <2> HIDE DEF pending
    <2>4. Lists(pending.next, ActivePoolIdx, FreePoolIdx, pending.head)
      <3>1. Lists(pending.next, FreePoolIdx, pending.head, ActivePoolIdx)
        BY <2>3, ListsSwap
      <3>2. Lists(pending.next, ActivePoolIdx, pending.head, FreePoolIdx)
        BY <3>1, ListsSwap
      <3> QED
        BY <3>2, ListsSwap
    <2>5. /\ Lists(active.next, active.head, FreePoolIdx, pending.head)
          /\ Members(active.next, active.head) = ActiveList \ {o}
          /\ Members(active.next, FreePoolIdx) = FreeList
          /\ Members(active.next, pending.head) = PendingList \ {p}
      <3>1. o \in Members(pending.next, ActivePoolIdx)
        BY <2>2, <2>3
      <3> QED
        BY <2>3, <2>4, <3>1, RemoveFirst
    <2> HIDE DEF active
    <2>6. Lists(active.next, FreePoolIdx, active.head, pending.head)
      BY <2>5, ListsSwap
    <2>7. /\ Lists(NextIndex', o, active.head, pending.head)
          /\ Members(NextIndex', o) = {o} \cup FreeList
          /\ Members(NextIndex', active.head) = ActiveList \ {o}
          /\ Members(NextIndex', pending.head) = PendingList \ {p}
      <3>1. o \notin Members(active.next, FreePoolIdx) \cup Members(active.next, active.head)
                       \cup Members(active.next, pending.head)
        BY <2>2, <2>5
      <3> QED
        BY <1>1, <1>6, <2>5, <2>6, <3>1, PushFirst
    <2>8. Lists(NextIndex', FreePoolIdx', PendingPoolIdx', ActivePoolIdx')
      BY <1>1, <1>3, <2>7, ListsSwap
    <2> QED
      BY <1>1, <1>3, <2>7, <2>8 DEF FreeList, PendingList, ActiveList
  <1>8. PendingPoolIdx' \in 0..N /\ ActivePoolIdx' \in 0..N
    BY <1>3, <1>4, <1>5
  <1> QED
    BY <1>6, <1>7, <1>8 DEF p

\* A release gives the key back, wakes a pending call and frees the object.
LEMMA ReleasePoolObjInv ==
    ASSUME PoolInv, NEW t \in Task, ReleasePoolObj(t)
    PROVE  PoolInv'
  <1> DEFINE o == ObjIdx[t]
             p == Woken(t)
  <1>1. PoolTypeOK /\ CallInv /\ KeyInv
    BY DEF PoolInv
  <1>2. /\ pc[t] = "release" /\ o \in Obj /\ o # N
        /\ p = N \/ (p \in Obj /\ p # N /\ p \in Reach(NextIndex, PendingPoolIdx))
        /\ SyncObj' = IF p = N THEN SyncObj ELSE [SyncObj EXCEPT ![p] = TRUE]
        /\ ActiveActions' = ActiveActions \ {Key(call[t])}
        /\ ActionID' = [ActionID EXCEPT ![o] = NoAction]
        /\ AdditionalData' = [AdditionalData EXCEPT ![o] = NoSocket]
        /\ FreePoolIdx' = o
        /\ call' = [call EXCEPT ![t] = NoCall] /\ ObjIdx' = [ObjIdx EXCEPT ![t] = N]
        /\ pc' = [pc EXCEPT ![t] = "idle"] /\ UNCHANGED <<restart, owed, leaked>>
    BY <1>1, ReleaseStep
  <1>3. /\ NextIndex' \in Link /\ PendingPoolIdx' \in 0..N /\ ActivePoolIdx' \in 0..N
        /\ ListInv => /\ Lists(NextIndex, FreePoolIdx, PendingPoolIdx, ActivePoolIdx)'
                      /\ PendingList' = PendingList \ {p}
                      /\ ActiveList' = ActiveList \ {o}
                      /\ FreeList' = FreeList \cup {o}
    BY <1>1, ReleaseLists
  <1> HIDE DEF p
  <1>4. /\ pc'[t] = "idle" /\ call'[t] = NoCall /\ ObjIdx'[t] = N
        /\ \A u \in Task \ {t} : pc'[u] = pc[u] /\ call'[u] = call[u] /\ ObjIdx'[u] = ObjIdx[u]
    BY <1>1, <1>2 DEF PoolTypeOK
  <1>5. /\ ActionID'[o] = NoAction /\ AdditionalData'[o] = NoSocket
        /\ \A x \in Obj \ {o} : ActionID'[x] = ActionID[x] /\ AdditionalData'[x] = AdditionalData[x]
    BY <1>1, <1>2 DEF PoolTypeOK
  <1>6. /\ p \in Obj => SyncObj'[p] = TRUE
        /\ \A x \in Obj : x # p => SyncObj'[x] = SyncObj[x]
    BY <1>1, <1>2, Indices DEF PoolTypeOK
  <1>7. PoolTypeOK'
    <2>1. /\ ActionID' \in [Obj -> Action \cup {NoAction}]
          /\ AdditionalData' \in [Obj -> Socket \cup {NoSocket}]
          /\ SyncObj' \in [Obj -> BOOLEAN]
      BY <1>1, <1>2 DEF PoolTypeOK
    <2>2. /\ NextIndex' \in [Obj -> 0..N] /\ ActiveActions' \subseteq Socket \cup Action
          /\ {FreePoolIdx', PendingPoolIdx', ActivePoolIdx'} \subseteq 0..N
      BY <1>1, <1>2, <1>3, Indices DEF PoolTypeOK, Link
    <2>3. pc' \in [Task -> {"idle", "pend", "recheck"} \cup Owning]
      BY <1>1, <1>2 DEF PoolTypeOK
    <2>4. call' \in [Task -> [act : Action \cup {NoAction}, sd : Socket \cup {NoSocket}]]
      BY <1>1, <1>2 DEF PoolTypeOK, NoCall
    <2>5. \A u \in Task : call'[u] \in May[u] \cup {NoCall}
      BY <1>1, <1>4 DEF PoolTypeOK
    <2>6. ObjIdx' \in [Task -> 0..N]
      BY <1>1, <1>2, Indices DEF PoolTypeOK
    <2> QED
      BY <1>1, <1>2, <2>1, <2>2, <2>3, <2>4, <2>5, <2>6 DEF PoolTypeOK
  <1>8. \A u \in Task : u # t /\ pc[u] # "idle" => ObjIdx[u] \in Obj /\ ObjIdx[u] # o
    BY <1>1, <1>2 DEF CallInv
  <1>9. CallInv'
    <2>1. ASSUME NEW u \in Task, pc'[u] # "idle"
          PROVE  ObjIdx'[u] \in Obj /\ call'[u] \in May[u] /\ ObjCall(ObjIdx[u])' = call'[u]
      <3>1. u # t /\ pc[u] # "idle" /\ ObjIdx'[u] = ObjIdx[u] /\ call'[u] = call[u]
        BY <1>4, <2>1
      <3>2. ObjIdx[u] \in Obj \ {o} /\ call[u] \in May[u] /\ ObjCall(ObjIdx[u]) = call[u]
        BY <1>1, <1>8, <3>1 DEF CallInv
      <3> QED
        BY <1>5, <3>1, <3>2 DEF ObjCall
    <2>2. \A u \in Task : pc'[u] = "idle" => ObjIdx'[u] = N
      BY <1>1, <1>4 DEF CallInv
    <2>3. \A u, v \in Task : pc'[u] # "idle" /\ ObjIdx'[u] = ObjIdx'[v] => u = v
      <3>1. \A u \in Task : pc'[u] # "idle" => u # t /\ pc[u] # "idle" /\ ObjIdx[u] # N
        BY <1>4, <1>8, Indices
      <3> QED
        BY <1>1, <1>4, <3>1 DEF CallInv
    <2> QED
      BY <2>1, <2>2, <2>3 DEF CallInv
  <1>10. KeyInv'
    <2>1. \A u \in Task : pc'[u] \in Owning <=> u # t /\ pc[u] \in Owning
      BY <1>4 DEF Owning
    <2>2. pc[t] \in Owning
      BY <1>2 DEF Owning
    <2> QED
      BY <1>1, <1>2, <1>4, <2>1, <2>2 DEF KeyInv
  <1>11. ASSUME ~restart' PROVE ListInv' /\ SignalInv'
    <2>1. ListInv /\ SignalInv
      BY <1>2, <1>11 DEF PoolInv
    <2>2. /\ Lists(NextIndex, FreePoolIdx, PendingPoolIdx, ActivePoolIdx)'
          /\ PendingList' = PendingList \ {p} /\ ActiveList' = ActiveList \ {o}
          /\ FreeList' = FreeList \cup {o}
      BY <1>3, <2>1
    <2>3. /\ FreeList \subseteq Obj /\ PendingList \subseteq Obj /\ ActiveList \subseteq Obj
          /\ FreeList \cap PendingList = {} /\ PendingList \cap ActiveList = {}
          /\ p # N => p \in PendingList
      BY <1>2, <2>1, MembersAreObjects DEF ListInv, Lists, FreeList, PendingList, ActiveList
    <2>4. o \in ActiveList /\ ~SyncObj[o]
      BY <1>2, <2>1 DEF ListInv, Listed, Owning, SignalInv
    <2>5. ASSUME NEW u \in Task PROVE Listed(u)'
      <3>1. Listed(u)
        BY <2>1 DEF ListInv
      <3>2. CASE u = t
        BY <1>4, <3>2 DEF Listed, Owning
      <3>3. CASE u # t /\ pc[u] = "idle"
        BY <1>4, <3>3 DEF Listed, Owning
      <3>4. CASE u # t /\ pc[u] # "idle" /\ ObjIdx[u] = p
        <4>1. ObjIdx[u] \in PendingList /\ p \in Obj /\ SyncObj'[ObjIdx[u]]
          BY <1>2, <1>6, <1>8, <2>3, <3>4, Indices
        <4>2. pc'[u] = pc[u] /\ ObjIdx'[u] = ObjIdx[u] /\ pc[u] # "recheck" /\ pc[u] \notin Owning
          BY <1>4, <2>3, <3>1, <3>4, <4>1 DEF Listed
        <4> QED
          BY <2>2, <2>3, <2>4, <3>4, <4>1, <4>2 DEF Listed
      <3>5. CASE u # t /\ pc[u] # "idle" /\ ObjIdx[u] # p
        <4>1. /\ pc'[u] = pc[u] /\ ObjIdx'[u] = ObjIdx[u] /\ ObjIdx[u] # o
              /\ SyncObj'[ObjIdx[u]] = SyncObj[ObjIdx[u]]
          BY <1>4, <1>6, <1>8, <3>5
        <4> QED
          BY <2>2, <3>1, <3>5, <4>1 DEF Listed
      <3> QED
        BY <3>2, <3>3, <3>4, <3>5
    <2>6. ASSUME NEW x \in FreeList' PROVE Blank(x)'
      <3>1. x # p /\ x \in Obj
        BY <1>2, <2>2, <2>3, <2>4, <2>6, Indices
      <3>2. ~SyncObj[x]
        BY <2>1, <2>2, <2>4, <2>6 DEF ListInv, Blank
      <3>3. SyncObj'[x] = SyncObj[x]
        BY <1>6, <3>1
      <3>4. ActionID'[x] = NoAction /\ AdditionalData'[x] = NoSocket
        BY <1>5, <2>1, <2>2, <2>6, <3>1 DEF ListInv, Blank
      <3> QED
        BY <3>2, <3>3, <3>4 DEF Blank
    <2>7. \A x \in PendingList' : \E u \in Task : pc'[u] = "pend" /\ ObjIdx'[u] = x
      BY <1>2, <1>4, <2>1, <2>2 DEF ListInv
    <2>8. ASSUME NEW x \in ActiveList'
          PROVE  \/ \E u \in Task : pc'[u] \in Owning /\ ObjIdx'[u] = x
                 \/ ObjKey(x)' \in leaked' /\ \E u \in Task : ObjCall(x)' \in May[u]
      <3>1. x \in ActiveList /\ x # o /\ x \in Obj
        BY <2>2, <2>3, <2>8
      <3>2. ObjKey(x)' = ObjKey(x) /\ ObjCall(x)' = ObjCall(x)
        BY <1>5, <3>1 DEF ObjKey, ObjCall
      <3>3. CASE \E u \in Task : pc[u] \in Owning /\ ObjIdx[u] = x
        BY <1>4, <3>1, <3>3
      <3>4. CASE ObjKey(x) \in leaked /\ \E u \in Task : ObjCall(x) \in May[u]
        BY <1>2, <3>2, <3>4
      <3> QED
        BY <2>1, <3>1, <3>3, <3>4 DEF ListInv
    <2>9. ASSUME NEW u \in Task, pc'[u] \in Owning \cup {"recheck"}
          PROVE  u # t /\ pc[u] = pc'[u] /\ SyncObj'[ObjIdx'[u]] = SyncObj[ObjIdx[u]]
      <3>1. u # t /\ pc[u] = pc'[u] /\ ObjIdx'[u] = ObjIdx[u]
        BY <1>4, <2>9 DEF Owning
      <3>2. ObjIdx[u] \notin PendingList /\ ObjIdx[u] \in Obj
        BY <1>8, <2>1, <2>3, <2>9, <3>1 DEF ListInv, Listed, Owning
      <3>3. ObjIdx[u] # p
        BY <2>3, <3>2, Indices
      <3> QED
        BY <1>6, <3>1, <3>2, <3>3
    <2>10. \A u \in Task : pc'[u] \in {"send", "release", "recheck"} => ~SyncObj'[ObjIdx'[u]]
      BY <2>1, <2>9 DEF SignalInv, Owning
    <2>11. \A u \in owed' : pc'[u] = "wait" /\ ~SyncObj'[ObjIdx'[u]]
      <3>1. \A u \in owed : u \in Task /\ u # t /\ pc'[u] = "wait" /\ ~SyncObj[ObjIdx[u]]
        BY <1>1, <1>2, <1>4, <2>1 DEF SignalInv, PoolTypeOK
      <3> QED
        BY <1>2, <2>9, <3>1 DEF Owning
    <2> QED
      BY <2>2, <2>5, <2>6, <2>7, <2>8, <2>10, <2>11 DEF ListInv, SignalInv
  <1> QED
    BY <1>7, <1>9, <1>10, <1>11 DEF PoolInv

\* PoolInv does not depend on the answer in hand.
LEMMA UnchangedInv ==
    ASSUME PoolInv, UNCHANGED <<pool, SyncObj, restart, pc, call, ObjIdx, owed, leaked>>
    PROVE  PoolInv'
  <1>1. PoolTypeOK' /\ CallInv' /\ KeyInv'
    <2>1. UNCHANGED pool
      OBVIOUS
    <2>2. PoolTypeOK'
      BY DEF PoolInv, PoolTypeOK, pool, fields, heads
    <2>3. CallInv'
      BY <2>1, PoolKept DEF PoolInv, CallInv
    <2>4. KeyInv'
      BY <2>1, PoolKept DEF PoolInv, KeyInv
    <2> QED
      BY <2>2, <2>3, <2>4
  <1>2. ASSUME ~restart' PROVE ListInv' /\ SignalInv'
    <2>1. ListInv /\ SignalInv /\ UNCHANGED pool
      BY <1>2 DEF PoolInv
    <2>2. Lists(NextIndex, FreePoolIdx, PendingPoolIdx, ActivePoolIdx)'
      BY <2>1, PoolKept DEF ListInv
    <2>3. \A t \in Task : Listed(t)'
      BY <2>1, PoolKept DEF ListInv, Listed
    <2>4. \A o \in FreeList' : Blank(o)'
      BY <2>1, PoolKept DEF ListInv, Blank
    <2>5. \A o \in PendingList' : \E t \in Task : pc'[t] = "pend" /\ ObjIdx'[t] = o
      BY <2>1, PoolKept DEF ListInv
    <2>6. \A o \in ActiveList' :
             \/ \E t \in Task : pc'[t] \in Owning /\ ObjIdx'[t] = o
             \/ ObjKey(o)' \in leaked' /\ \E t \in Task : ObjCall(o)' \in May[t]
      BY <2>1, PoolKept DEF ListInv
    <2>7. SignalInv'
      BY <2>1 DEF SignalInv
    <2> QED
      BY <2>2, <2>3, <2>4, <2>5, <2>6, <2>7 DEF ListInv
  <1> QED
    BY <1>1, <1>2 DEF PoolInv

\* Every step keeps the invariants of the pool.
LEMMA StepInv ==
    ASSUME PoolInv, HandInv, [Next]_vars
    PROVE  PoolInv'
  <1>1. CASE UNCHANGED vars
    BY <1>1, UnchangedInv DEF vars
  <1>2. ASSUME NEW t \in Task, FindActiveObj(t) PROVE PoolInv'
    BY <1>2, UnchangedInv DEF FindActiveObj
  <1>3. CASE Next
    BY <1>2, <1>3, WaitForPoolObjInv, PendingWakeInv, RecheckInv, SendCommandInv, DeliverDataInv,
       HandleAsyncInv, WaitDoneInv, HandleErrorInv, ReleasePoolObjInv DEF Next
  <1> QED
    BY <1>1, <1>3

\* Every step keeps the answer in hand with its call: the call waits, unsignalled,
\* until the handler signals it, so its object stays its own.
LEMMA HandStep ==
    ASSUME PoolInv, HandInv, [Next]_vars
    PROVE  HandInv'
  <1>1. PoolTypeOK /\ (~restart => \A t \in owed : pc[t] = "wait" /\ ~SyncObj[ObjIdx[t]])
    BY DEF PoolInv, SignalInv
  \* A step that leaves the reader alone.
  <1>2. ASSUME UNCHANGED reader,
               ~restart' => ~restart /\ \A u \in answering : u \in owed' /\ ObjIdx'[u] = ObjIdx[u]
        PROVE  HandInv'
    BY <1>2 DEF HandInv, reader
  <1>3. CASE UNCHANGED vars
    BY <1>2, <1>3 DEF vars, HandInv
  <1>4. ASSUME NEW t \in Task, UNCHANGED reader, restart' = restart, owed \subseteq owed',
               ~restart => t \notin owed, \A u \in Task \ {t} : ObjIdx'[u] = ObjIdx[u]
        PROVE  HandInv'
    BY <1>2, <1>4 DEF HandInv
  <1>5. ASSUME NEW t \in Task, NEW c \in May[t], WaitForPoolObj(t, c) PROVE HandInv'
    <2>1. \A u \in Task \ {t} : ObjIdx'[u] = ObjIdx[u]
      BY <1>1, <1>5 DEF WaitForPoolObj, PoolTypeOK
    <2> QED
      BY <1>1, <1>4, <1>5, <2>1 DEF WaitForPoolObj
  <1>6. ASSUME NEW t \in Task, PendingWake(t) \/ Recheck(t) PROVE HandInv'
    BY <1>1, <1>4, <1>6 DEF PendingWake, Recheck
  <1>7. ASSUME NEW t \in Task, SendCommand(t) PROVE HandInv'
    <2>1. \A u \in Task \ {t} : ObjIdx'[u] = ObjIdx[u]
      BY <1>1, <1>7 DEF SendCommand, Leak, PoolTypeOK
    <2>2. owed \subseteq owed'
      BY <1>7 DEF SendCommand
    <2> QED
      BY <1>1, <1>4, <1>7, <2>1, <2>2 DEF SendCommand
  <1>8. ASSUME NEW t \in Task, DeliverData(t) PROVE HandInv'
    BY <1>2, <1>8 DEF DeliverData
  <1>9. ASSUME NEW t \in Task, FindActiveObj(t) PROVE HandInv'
    <2>1. /\ t \in owed /\ ~restart /\ UNCHANGED <<restart, owed, ObjIdx>>
          /\ answering' = {t} /\ ActionIndex' = ActiveObjFor(call[t])
      BY <1>9 DEF FindActiveObj
    <2>2. ActionIndex' = ObjIdx[t] /\ ObjIdx[t] \in 0..N
      BY <2>1, OwedObject, Indices
    <2> QED
      BY <2>1, <2>2 DEF HandInv
  <1>10. ASSUME NEW t \in Task, HandleAsync(t) PROVE HandInv'
    BY <1>10, Indices DEF HandleAsync, HandInv
  <1>11. ASSUME NEW t \in Task, WaitDone(t) PROVE HandInv'
    <2>1. \A u \in Task \ {t} : ObjIdx'[u] = ObjIdx[u]
      BY <1>1, <1>11 DEF WaitDone, Leak, PoolTypeOK
    <2> QED
      BY <1>1, <1>4, <1>11, <2>1 DEF WaitDone
  <1>12. ASSUME NEW t \in Task, WaitTimeout(t) PROVE HandInv'
    BY <1>2, <1>12 DEF WaitTimeout, HandleError
  <1>13. CASE DriverError
    BY <1>2, <1>13 DEF DriverError, HandleError
  <1>14. ASSUME NEW t \in Task, ReleasePoolObj(t) PROVE HandInv'
    <2>1. \A u \in Task \ {t} : ObjIdx'[u] = ObjIdx[u]
      BY <1>1, <1>14 DEF ReleasePoolObj, PoolTypeOK
    <2> QED
      BY <1>1, <1>4, <1>14, <2>1 DEF ReleasePoolObj
  <1> QED
    BY <1>3, <1>5, <1>6, <1>7, <1>8, <1>9, <1>10, <1>11, <1>12, <1>13, <1>14 DEF Next

\* PoolInv and HandInv are invariants: calls, keys, lists, signals and the answer
\* in hand stay together.
THEOREM PoolCorrect == Spec => [](PoolInv /\ HandInv)
  <1>1. Init => PoolInv /\ HandInv
    BY InitInv, Indices DEF Init, HandInv
  <1>2. PoolInv /\ HandInv /\ [Next]_vars => PoolInv' /\ HandInv'
    BY StepInv, HandStep
  <1> QED
    BY <1>1, <1>2, PTL DEF Spec

\* TypeOK: the variables keep their types, also after the driver's error
\* handling has signalled objects out of order.
THEOREM TypeCorrect == Spec => []TypeOK
  <1>1. PoolInv /\ HandInv => TypeOK
    <2> SUFFICES ASSUME PoolInv, HandInv PROVE Cardinality(answering) <= 1
      BY DEF PoolInv, HandInv, TypeOK
    <2>1. CASE answering = {}
      BY <2>1, FS_EmptySet
    <2>2. CASE answering # {}
      <3>1. PICK t \in answering : TRUE
        BY <2>2
      <3>2. answering = {t}
        BY <3>1 DEF HandInv
      <3> QED
        BY <3>2, FS_Singleton
    <2> QED
      BY <2>1, <2>2
  <1> QED
    BY <1>1, PoolCorrect, PTL

\* ListsSound: _SlDrvWaitForPoolObj, _SlDrvReleasePoolObj and _SlRemoveFromList
\* keep the three lists apart, ended and in step with the callers.
THEOREM ListsSoundCorrect == Spec => []ListsSound
  <1>1. PoolInv => ListsSound
    <2> SUFFICES ASSUME PoolInv, ~restart
                 PROVE  /\ \A h \in {FreePoolIdx, PendingPoolIdx, ActivePoolIdx} : Ends(NextIndex, h)
                        /\ FreeList \cap (PendingList \cup ActiveList) = {}
                        /\ PendingList = {ObjIdx[t] : t \in {u \in Task : pc[u] = "pend" /\ ~SyncObj[ObjIdx[u]]}}
                        /\ {ObjIdx[t] : t \in {u \in Task : pc[u] \in Owning}} \subseteq ActiveList
                        /\ \A o \in Obj : Cardinality(Owner(o)) <= 1 /\ (o \in FreeList => Owner(o) = {})
      BY DEF ListsSound
    <2>1. PoolTypeOK /\ CallInv /\ ListInv
      BY DEF PoolInv
    <2>2. \A h \in {FreePoolIdx, PendingPoolIdx, ActivePoolIdx} : Ends(NextIndex, h)
      BY <2>1 DEF ListInv, Lists
    <2>3. FreeList \cap (PendingList \cup ActiveList) = {}
      BY <2>1 DEF ListInv, Lists, FreeList, PendingList, ActiveList
    <2>4. PendingList = {ObjIdx[t] : t \in {u \in Task : pc[u] = "pend" /\ ~SyncObj[ObjIdx[u]]}}
      <3>1. ASSUME NEW o \in PendingList
            PROVE  \E t \in Task : pc[t] = "pend" /\ ~SyncObj[ObjIdx[t]] /\ o = ObjIdx[t]
        BY <2>1 DEF ListInv, Listed
      <3>2. ASSUME NEW t \in Task, pc[t] = "pend", ~SyncObj[ObjIdx[t]] PROVE ObjIdx[t] \in PendingList
        BY <2>1, <3>2 DEF ListInv, Listed
      <3> QED
        BY <3>1, <3>2
    <2>5. {ObjIdx[t] : t \in {u \in Task : pc[u] \in Owning}} \subseteq ActiveList
      BY <2>1 DEF ListInv, Listed
    <2>6. ASSUME NEW o \in Obj
          PROVE  Cardinality(Owner(o)) <= 1 /\ (o \in FreeList => Owner(o) = {})
      <3>1. \A t \in Owner(o) : t \in Task /\ pc[t] # "idle" /\ ObjIdx[t] = o
        BY <2>1, Indices DEF Owner, CallInv
      <3>2. \A t, u \in Owner(o) : t = u
        BY <2>1, <3>1 DEF CallInv
      <3>3. Cardinality(Owner(o)) <= 1
        <4>1. CASE Owner(o) = {}
          BY <4>1, FS_EmptySet
        <4>2. CASE Owner(o) # {}
          <5>1. PICK t \in Owner(o) : TRUE
            BY <4>2
          <5>2. Owner(o) = {t}
            BY <3>2
          <5> QED
            BY <5>2, FS_Singleton
        <4> QED
          BY <4>1, <4>2
      <3>4. o \in FreeList => Owner(o) = {}
        BY <2>1, <3>1 DEF ListInv, Listed
      <3> QED
        BY <3>3, <3>4
    <2> QED
      BY <2>2, <2>3, <2>4, <2>5, <2>6
  <1> QED
    BY <1>1, PoolCorrect, PTL

\* RightTaker: _SlFindAndSetActiveObj gives an answer to the call it is for, and
\* the object it found is still that call's when the handler signals it.
THEOREM RightTakerCorrect == Spec => []RightTaker
  <1>1. PoolInv /\ HandInv => RightTaker
    BY AnswerFindsCall DEF PoolInv, HandInv, RightTaker
  <1> QED
    BY <1>1, PoolCorrect, PTL

\* NoStaleSignal: a signal does not outlive the call it was for, and no answer is
\* owed to a call that has given its object back.
THEOREM NoStaleSignalCorrect == Spec => []NoStaleSignal
  <1>1. PoolInv => NoStaleSignal
    <2> SUFFICES ASSUME PoolInv, ~restart
                 PROVE  /\ \A o \in FreeList : ~SyncObj[o]
                        /\ \A t \in Task : pc[t] \in {"send", "release"} => ~SyncObj[ObjIdx[t]]
                        /\ \A t \in owed : ObjIdx[t] \in Obj /\ ~SyncObj[ObjIdx[t]]
      BY DEF NoStaleSignal
    <2>1. \A o \in FreeList : ~SyncObj[o]
      BY DEF PoolInv, ListInv, Blank
    <2>2. SignalInv
      BY DEF PoolInv
    <2> QED
      BY <2>1, <2>2, OwedObject DEF SignalInv
  <1> QED
    BY <1>1, PoolCorrect, PTL

------------------------------------------------------------------------------
(* Pending calls are woken.                                                *)

\* A task that will release key k, or will look at the bitmap for it again.
Minds(u, k) ==
    /\ pc[u] \in Owning \cup {"pend", "recheck"} /\ Key(call[u]) = k
    /\ pc[u] = "pend" => SyncObj[ObjIdx[u]]

\* A release wakes a call that waits for the same key, if there is one.
LEMMA ReleaseWakes ==
    ASSUME OneActionPerSocket, PoolTypeOK, CallInv, KeyInv, ListInv, NEW t \in Task, ReleasePoolObj(t),
           NEW v \in Task, v # t, pc[v] = "pend", ~SyncObj[ObjIdx[v]], Key(call[v]) = Key(call[t])
    PROVE  \E w \in Task \ {t} : pc[w] = "pend" /\ Key(call[w]) = Key(call[t]) /\ SyncObj'[ObjIdx[w]]
  <1> DEFINE o == ObjIdx[t]
             q == ObjIdx[v]
             p == Woken(t)
  <1>1. /\ pc[t] = "release"
        /\ \/ p = N /\ \A x \in Obj : WakesUp(o, x) => x \notin Reach(NextIndex, PendingPoolIdx)
           \/ p \in Obj /\ p # N /\ p \in Reach(NextIndex, PendingPoolIdx) /\ WakesUp(o, p)
        /\ SyncObj' = IF p = N THEN SyncObj ELSE [SyncObj EXCEPT ![p] = TRUE]
    BY ReleaseStep
  <1> HIDE DEF p
  <1>2. call[t] \in May[t] /\ ActionID[o] = call[t].act /\ AdditionalData[o] = call[t].sd
    BY <1>1, CallFacts
  <1>3. /\ q \in Obj /\ call[v] \in May[v]
        /\ ActionID[q] = call[v].act /\ AdditionalData[q] = call[v].sd
    BY CallFacts
  <1>4. PendingList = Reach(NextIndex, PendingPoolIdx) \ {N} /\ q \in PendingList
    <2>1. NextIndex \in Link /\ PendingPoolIdx \in 0..N
      BY DEF PoolTypeOK, Link
    <2> QED
      BY <2>1, MembersAreObjects DEF PendingList, ListInv, Listed
  <1>5. /\ call[t].act \in Action /\ call[t].sd \in Socket \cup {NoSocket}
        /\ call[v].act \in Action /\ call[v].sd \in Socket \cup {NoSocket}
    BY <1>2, <1>3, MayCall
  <1>6. call[v].act = call[t].act /\ call[v].sd = call[t].sd
    <2>1. CASE Key(call[t]) \in Socket
      <3>1. call[t].sd = Key(call[t]) /\ call[v].sd = Key(call[t])
        BY <1>5, <2>1, PoolAssumption DEF Key
      <3> QED
        BY <1>2, <1>3, <2>1, <3>1 DEF OneActionPerSocket
    <2>2. CASE Key(call[t]) \notin Socket
      BY <1>5, <2>2, PoolAssumption DEF Key
    <2> QED
      BY <2>1, <2>2
  <1>7. WakesUp(o, q)
    BY <1>2, <1>3, <1>5, <1>6 DEF WakesUp
  <1>8. p \in Obj /\ p # N /\ p \in PendingList /\ WakesUp(o, p) /\ SyncObj'[p] = TRUE
    BY <1>1, <1>3, <1>4, <1>7 DEF PoolTypeOK
  <1>9. PICK w \in Task : pc[w] = "pend" /\ ObjIdx[w] = p
    BY <1>8 DEF ListInv
  <1>10. call[w] \in May[w] /\ ActionID[p] = call[w].act /\ AdditionalData[p] = call[w].sd
    BY <1>9, CallFacts
  <1>11. call[t].act = call[w].act /\ (call[w].sd = call[t].sd \/ call[w].sd = NoSocket)
    BY <1>2, <1>8, <1>10 DEF WakesUp
  <1>12. Key(call[w]) = Key(call[t])
    BY <1>2, <1>10, <1>11, SameKey
  <1> QED
    BY <1>1, <1>8, <1>9, <1>12

\* Every step keeps a pending call minded.
LEMMA PendingKept ==
    ASSUME OneActionPerSocket, PoolInv, HandInv, PoolInv', NoStrandedPending, [Next]_vars
    PROVE  NoStrandedPending'
  <1> SUFFICES ASSUME NEW v \in Task, pc'[v] = "pend", ~restart', ~SyncObj'[ObjIdx'[v]]
               PROVE  Key(call'[v]) \in leaked' \/ \E u \in Task : Minds(u, Key(call[v]))'
    BY DEF NoStrandedPending, Minds
  <1>1. PoolTypeOK /\ CallInv /\ KeyInv /\ PoolTypeOK' /\ CallInv' /\ KeyInv'
    BY DEF PoolInv
  <1>2. ASSUME pc[v] = "pend", ~restart, ~SyncObj[ObjIdx[v]]
        PROVE  Key(call[v]) \in leaked \/ \E u \in Task \ {v} : Minds(u, Key(call[v]))
    BY <1>2 DEF NoStrandedPending, Minds
  \* A step of t that leaves the other tasks, their signals and v as they were.
  <1>3. ASSUME NEW t \in Task, pc[v] = "pend", ~restart, ~SyncObj[ObjIdx[v]],
               call'[v] = call[v], leaked \subseteq leaked',
               \A u \in Task \ {t} : /\ pc'[u] = pc[u] /\ call'[u] = call[u]
                                     /\ pc[u] = "pend" /\ SyncObj[ObjIdx[u]] => SyncObj'[ObjIdx'[u]],
               Minds(t, Key(call[v])) =>
                  Key(call[v]) \in leaked' \/ \E u \in Task : Minds(u, Key(call[v]))'
        PROVE  Key(call'[v]) \in leaked' \/ \E u \in Task : Minds(u, Key(call[v]))'
    <2>1. CASE Key(call[v]) \in leaked
      BY <1>3, <2>1
    <2>2. CASE \E u \in Task \ {v} : Minds(u, Key(call[v]))
      <3>1. PICK u \in Task \ {v} : Minds(u, Key(call[v]))
        BY <2>2
      <3>2. CASE u = t
        BY <1>3, <3>1, <3>2
      <3>3. CASE u # t
        <4>1. Minds(u, Key(call[v]))'
          BY <1>3, <3>1, <3>3 DEF Minds
        <4> QED
          BY <1>3, <4>1
      <3> QED
        BY <3>2, <3>3
    <2> QED
      BY <1>2, <1>3, <2>1, <2>2
  \* The keys in the bitmap before a call is enlisted are minded afterwards.
  <1>4. ASSUME Key(call'[v]) \in ActiveActions'
        PROVE  Key(call'[v]) \in leaked' \/ \E u \in Task : Minds(u, Key(call[v]))'
    <2>1. CASE Key(call'[v]) \in leaked'
      BY <2>1
    <2>2. CASE \E u \in Task : pc'[u] \in Owning /\ Key(call'[u]) = Key(call'[v])
      BY <2>2 DEF Minds, Owning
    <2> QED
      BY <1>1, <1>4, <2>1, <2>2 DEF KeyInv
  <1>5. CASE UNCHANGED vars
    BY <1>2, <1>5 DEF vars, Minds
  <1>6. ASSUME NEW t \in Task, NEW c \in May[t], WaitForPoolObj(t, c)
        PROVE  Key(call'[v]) \in leaked' \/ \E u \in Task : Minds(u, Key(call[v]))'
    <2>1. /\ pc[t] = "idle" /\ Enlist(t, FreePoolIdx, c)
          /\ ObjIdx' = [ObjIdx EXCEPT ![t] = FreePoolIdx]
          /\ call' = [call EXCEPT ![t] = c] /\ UNCHANGED <<SyncObj, restart, owed, leaked>>
      BY <1>6 DEF WaitForPoolObj
    <2>2. /\ pc'[t] \in {"pend", "send"} /\ call'[t] = c
          /\ (pc'[t] = "pend" => Key(c) \in ActiveActions')
          /\ \A u \in Task \ {t} : pc'[u] = pc[u] /\ call'[u] = call[u] /\ ObjIdx'[u] = ObjIdx[u]
      BY <1>1, <2>1 DEF PoolTypeOK, Enlist, Goto
    <2>3. CASE v = t
      BY <1>4, <2>2, <2>3
    <2>4. CASE v # t
      BY <1>3, <2>1, <2>2, <2>4 DEF Minds, Owning
    <2> QED
      BY <2>3, <2>4
  <1>7. ASSUME NEW t \in Task, PendingWake(t)
        PROVE  Key(call'[v]) \in leaked' \/ \E u \in Task : Minds(u, Key(call[v]))'
    <2>1. /\ pc[t] = "pend" /\ SyncObj[ObjIdx[t]] /\ SyncObj' = [SyncObj EXCEPT ![ObjIdx[t]] = FALSE]
          /\ Goto(t, "recheck") /\ UNCHANGED <<restart, call, ObjIdx, leaked>>
      BY <1>7 DEF PendingWake
    <2>2. pc'[t] = "recheck" /\ v # t /\ \A u \in Task \ {t} : pc'[u] = pc[u]
      BY <1>1, <2>1 DEF PoolTypeOK, Goto
    <2>3. ASSUME NEW u \in Task, u # t, pc[u] # "idle"
          PROVE  SyncObj'[ObjIdx[u]] = SyncObj[ObjIdx[u]]
      <3>1. ObjIdx[u] \in Obj /\ ObjIdx[u] # ObjIdx[t]
        BY <1>1, <2>3 DEF CallInv
      <3> QED
        BY <1>1, <2>1, <3>1 DEF PoolTypeOK
    <2>4. Minds(t, Key(call[v])) => Minds(t, Key(call[v]))'
      BY <2>1, <2>2 DEF Minds
    <2>5. SyncObj'[ObjIdx[v]] = SyncObj[ObjIdx[v]] /\ pc[v] = "pend"
      BY <2>2, <2>3
    <2>6. \A u \in Task \ {t} : /\ pc'[u] = pc[u] /\ call'[u] = call[u]
                                /\ pc[u] = "pend" /\ SyncObj[ObjIdx[u]] => SyncObj'[ObjIdx'[u]]
      BY <2>1, <2>2, <2>3
    <2> QED
      BY <1>3, <2>1, <2>4, <2>5, <2>6
  <1>8. ASSUME NEW t \in Task, Recheck(t)
        PROVE  Key(call'[v]) \in leaked' \/ \E u \in Task : Minds(u, Key(call[v]))'
    <2>1. /\ pc[t] = "recheck" /\ Enlist(t, ObjIdx[t], call[t])
          /\ UNCHANGED <<SyncObj, restart, call, ObjIdx, leaked>>
      BY <1>8 DEF Recheck
    <2>2. /\ pc'[t] \in {"pend", "send"} /\ (pc'[t] = "pend" => Key(call[t]) \in ActiveActions')
          /\ \A u \in Task \ {t} : pc'[u] = pc[u]
      BY <1>1, <2>1 DEF PoolTypeOK, Enlist, Goto
    <2>3. CASE v = t
      BY <1>4, <2>1, <2>2, <2>3
    <2>4. CASE v # t /\ Minds(t, Key(call[v])) /\ pc'[t] = "pend"
      <3>1. Key(call[t]) = Key(call[v]) /\ Key(call'[v]) \in ActiveActions'
        BY <2>1, <2>2, <2>4 DEF Minds
      <3> QED
        BY <1>4, <3>1
    <2>5. CASE v # t /\ Minds(t, Key(call[v])) /\ pc'[t] = "send"
      <3>1. Minds(t, Key(call[v]))'
        BY <2>1, <2>5 DEF Minds, Owning
      <3> QED
        BY <2>1, <3>1
    <2>6. CASE v # t /\ ~Minds(t, Key(call[v]))
      BY <1>3, <2>1, <2>2, <2>6
    <2> QED
      BY <2>2, <2>3, <2>4, <2>5, <2>6
  <1>9. ASSUME NEW t \in Task, SendCommand(t)
        PROVE  Key(call'[v]) \in leaked' \/ \E u \in Task : Minds(u, Key(call[v]))'
    <2>1. pc[t] = "send" /\ UNCHANGED <<SyncObj, restart>>
      BY <1>9 DEF SendCommand
    <2>2. CASE Leak(t)
      <3>1. /\ pc'[t] = "idle" /\ leaked' = leaked \cup {Key(call[t])}
            /\ \A u \in Task \ {t} : pc'[u] = pc[u] /\ call'[u] = call[u] /\ ObjIdx'[u] = ObjIdx[u]
        BY <1>1, <2>2 DEF Leak, Goto, PoolTypeOK
      <3>2. v # t /\ (Minds(t, Key(call[v])) => Key(call[v]) \in leaked')
        BY <3>1 DEF Minds
      <3> QED
        BY <1>3, <2>1, <3>1, <3>2
    <2>3. CASE \E l \in {"wait", "release"} : Goto(t, l) /\ UNCHANGED <<call, ObjIdx, leaked>>
      <3>1. /\ pc'[t] \in {"wait", "release"} /\ UNCHANGED <<call, ObjIdx, leaked>>
            /\ \A u \in Task \ {t} : pc'[u] = pc[u]
        BY <1>1, <2>3 DEF Goto, PoolTypeOK
      <3>2. v # t /\ (Minds(t, Key(call[v])) => Minds(t, Key(call[v]))')
        BY <3>1 DEF Minds, Owning
      <3> QED
        BY <1>3, <2>1, <3>1, <3>2
    <2> QED
      BY <1>9, <2>2, <2>3 DEF SendCommand
  <1>10. ASSUME NEW t \in Task, DeliverData(t) \/ FindActiveObj(t) \/ HandleAsync(t)
         PROVE  Key(call'[v]) \in leaked' \/ \E u \in Task : Minds(u, Key(call[v]))'
    <2>1. UNCHANGED <<restart, pc, call, ObjIdx, leaked>> /\ ~restart
      BY <1>10 DEF DeliverData, FindActiveObj, HandleAsync
    <2>2. SyncObj' = SyncObj \/ \E x \in Obj : SyncObj' = [SyncObj EXCEPT ![x] = TRUE]
      <3>1. CASE DeliverData(t)
        BY <2>1, <3>1, OwedObject DEF DeliverData
      <3>2. CASE FindActiveObj(t)
        BY <3>2 DEF FindActiveObj
      <3>3. CASE HandleAsync(t)
        BY <3>3, Indices DEF HandleAsync, SignalObj, HandInv
      <3> QED
        BY <1>10, <3>1, <3>2, <3>3
    <2>3. \A x \in Obj : SyncObj[x] => SyncObj'[x]
      BY <1>1, <2>2 DEF PoolTypeOK
    <2>4. \A u \in Task : pc[u] = "pend" => ObjIdx[u] \in Obj
      BY <1>1 DEF CallInv
    <2>5. \A u \in Task : Minds(u, Key(call[v])) => Minds(u, Key(call[v]))'
      BY <2>1, <2>3, <2>4 DEF Minds
    <2>6. pc[v] = "pend" /\ ~restart /\ ~SyncObj[ObjIdx[v]]
      BY <2>1, <2>3, <2>4
    <2> QED
      BY <1>2, <2>1, <2>5, <2>6
  <1>11. ASSUME NEW t \in Task, WaitDone(t)
         PROVE  Key(call'[v]) \in leaked' \/ \E u \in Task : Minds(u, Key(call[v]))'
    <2>1. /\ pc[t] = "wait" /\ SyncObj' = [SyncObj EXCEPT ![ObjIdx[t]] = FALSE]
          /\ ~restart /\ Goto(t, "release") /\ UNCHANGED <<call, ObjIdx, leaked>>
      BY <1>11 DEF WaitDone
    <2>2. pc'[t] = "release" /\ v # t /\ \A u \in Task \ {t} : pc'[u] = pc[u]
      BY <1>1, <2>1 DEF PoolTypeOK, Goto
    <2>3. ASSUME NEW u \in Task, u # t, pc[u] # "idle"
          PROVE  SyncObj'[ObjIdx[u]] = SyncObj[ObjIdx[u]]
      <3>1. ObjIdx[u] \in Obj /\ ObjIdx[u] # ObjIdx[t]
        BY <1>1, <2>3 DEF CallInv
      <3> QED
        BY <1>1, <2>1, <3>1 DEF PoolTypeOK
    <2>4. Minds(t, Key(call[v])) => Minds(t, Key(call[v]))'
      BY <2>1, <2>2 DEF Minds, Owning
    <2>5. SyncObj'[ObjIdx[v]] = SyncObj[ObjIdx[v]] /\ pc[v] = "pend"
      BY <2>2, <2>3
    <2>6. \A u \in Task \ {t} : /\ pc'[u] = pc[u] /\ call'[u] = call[u]
                                /\ pc[u] = "pend" /\ SyncObj[ObjIdx[u]] => SyncObj'[ObjIdx'[u]]
      BY <2>1, <2>2, <2>3
    <2> QED
      BY <1>3, <2>1, <2>4, <2>5, <2>6
  <1>12. ASSUME NEW t \in Task, ReleasePoolObj(t)
         PROVE  Key(call'[v]) \in leaked' \/ \E u \in Task : Minds(u, Key(call[v]))'
    <2> DEFINE p == Woken(t)
    <2>1. /\ pc[t] = "release" /\ (p = N \/ p \in Obj)
          /\ SyncObj' = IF p = N THEN SyncObj ELSE [SyncObj EXCEPT ![p] = TRUE]
          /\ call' = [call EXCEPT ![t] = NoCall] /\ ObjIdx' = [ObjIdx EXCEPT ![t] = N]
          /\ pc' = [pc EXCEPT ![t] = "idle"] /\ UNCHANGED <<restart, owed, leaked>>
      BY <1>1, <1>12, ReleaseStep
    <2> HIDE DEF p
    <2>2. /\ pc'[t] = "idle" /\ v # t
          /\ \A u \in Task \ {t} : pc'[u] = pc[u] /\ call'[u] = call[u] /\ ObjIdx'[u] = ObjIdx[u]
      BY <1>1, <2>1 DEF PoolTypeOK
    <2>3. \A x \in Obj : SyncObj[x] => SyncObj'[x]
      BY <1>1, <2>1 DEF PoolTypeOK
    <2>4. \A u \in Task : pc[u] = "pend" => ObjIdx[u] \in Obj
      BY <1>1 DEF CallInv
    <2>5. pc[v] = "pend" /\ ~restart /\ ~SyncObj[ObjIdx[v]] /\ call'[v] = call[v]
      BY <2>1, <2>2, <2>3, <2>4
    <2>6. \A u \in Task \ {t} : /\ pc'[u] = pc[u] /\ call'[u] = call[u]
                                /\ pc[u] = "pend" /\ SyncObj[ObjIdx[u]] => SyncObj'[ObjIdx'[u]]
      BY <2>2, <2>3, <2>4
    <2>7. ASSUME Minds(t, Key(call[v])) PROVE \E u \in Task : Minds(u, Key(call[v]))'
      <3>1. Key(call[v]) = Key(call[t]) /\ ListInv
        BY <2>5, <2>7 DEF Minds, PoolInv
      <3>2. PICK w \in Task \ {t} :
               pc[w] = "pend" /\ Key(call[w]) = Key(call[t]) /\ SyncObj'[ObjIdx[w]]
        BY <1>1, <1>12, <2>2, <2>5, <3>1, ReleaseWakes
      <3>3. Minds(w, Key(call[v]))'
        BY <2>2, <2>5, <3>1, <3>2 DEF Minds
      <3> QED
        BY <3>3
    <2> QED
      BY <1>3, <2>1, <2>5, <2>6, <2>7
  <1>13. CASE DriverError \/ \E t \in Task : WaitTimeout(t)
    BY <1>13 DEF DriverError, WaitTimeout, HandleError
  <1> QED
    BY <1>5, <1>6, <1>7, <1>8, <1>9, <1>10, <1>11, <1>12, <1>13 DEF Next

\* NoStrandedPending: while the device needs no restart, a call on the pending
\* list has a task that will wake it or has overtaken it, or its key was lost.
THEOREM NoStrandedPendingCorrect ==
    ASSUME OneActionPerSocket
    PROVE  Spec => []NoStrandedPending
  <1>1. Init => NoStrandedPending
    BY DEF Init, NoStrandedPending
  <1>2. PoolInv /\ HandInv /\ PoolInv' /\ NoStrandedPending /\ [Next]_vars => NoStrandedPending'
    BY PendingKept
  <1> QED
    BY <1>1, <1>2, PoolCorrect, PTL DEF Spec

------------------------------------------------------------------------------
(* The pool is one lock for each key.                                      *)

\* The key each task owns, or NoAction.
Held == [t \in Task |-> IF pc[t] \in Owning THEN Key(call[t]) ELSE NoAction]

\* What the steps of KeyLocks are in terms of the pool.
LEMMA LockStep ==
    ASSUME PoolTypeOK, CallInv, KeyInv, NEW t \in Task
    PROVE  /\ \A k \in (Socket \cup Action) \ ActiveActions :
                 pc[t] \notin Owning /\ Held' = [Held EXCEPT ![t] = k] /\ leaked' = leaked
                    => Locks!Acquire(t, k)
           /\ pc[t] \in Owning /\ Held' = [Held EXCEPT ![t] = NoAction] /\ leaked' = leaked
                 => Locks!Release(t)
           /\ pc[t] \in Owning /\ Held' = [Held EXCEPT ![t] = NoAction]
              /\ leaked' = leaked \cup {Key(call[t])} => Locks!Lose(t)
  <1>1. pc[t] \in Owning => Held[t] = Key(call[t]) /\ Held[t] # NoAction
    BY CallFacts, MayCall DEF Held, Owning
  <1>2. ASSUME NEW k \in (Socket \cup Action) \ ActiveActions, pc[t] \notin Owning,
               Held' = [Held EXCEPT ![t] = k], leaked' = leaked
        PROVE  Locks!Acquire(t, k)
    <2>1. Held[t] = NoAction /\ k \notin leaked /\ k # NoAction
      BY <1>2, PoolAssumption DEF Held, KeyInv
    <2>2. \A u \in Task : Held[u] # k
      BY <1>2, <2>1 DEF Held, KeyInv
    <2> QED
      BY <1>2, <2>1, <2>2 DEF Locks!Acquire, Held
  <1>3. ASSUME pc[t] \in Owning, Held' = [Held EXCEPT ![t] = NoAction], leaked' = leaked
        PROVE  Locks!Release(t)
    BY <1>1, <1>3 DEF Locks!Release, Held
  <1>4. ASSUME pc[t] \in Owning, Held' = [Held EXCEPT ![t] = NoAction],
               leaked' = leaked \cup {Key(call[t])}
        PROVE  Locks!Lose(t)
    BY <1>1, <1>4 DEF Locks!Lose, Held
  <1> QED
    BY <1>2, <1>3, <1>4

\* An enlisted call gets its key or waits for it.
LEMMA EnlistHeld ==
    ASSUME PoolTypeOK, NEW t \in Task, NEW o, NEW c, Enlist(t, o, c), pc[t] \notin Owning,
           call'[t] = c, \A u \in Task \ {t} : call'[u] = call[u]
    PROVE  Held' = IF Key(c) \in ActiveActions THEN Held ELSE [Held EXCEPT ![t] = Key(c)]
  <1>1. pc' = [pc EXCEPT ![t] = IF Key(c) \in ActiveActions THEN "pend" ELSE "send"]
    BY DEF Enlist, Goto
  <1>2. /\ pc'[t] = IF Key(c) \in ActiveActions THEN "pend" ELSE "send"
        /\ \A u \in Task \ {t} : pc'[u] = pc[u]
    BY <1>1 DEF PoolTypeOK
  <1>3. CASE Key(c) \in ActiveActions
    <2>1. \A u \in Task : pc'[u] \in Owning <=> pc[u] \in Owning
      BY <1>2, <1>3 DEF Owning
    <2>2. \A u \in Task : pc[u] \in Owning => call'[u] = call[u]
      OBVIOUS
    <2> QED
      BY <1>3, <2>1, <2>2 DEF Held
  <1>4. CASE Key(c) \notin ActiveActions
    <2>1. pc'[t] \in Owning
      BY <1>2, <1>4 DEF Owning
    <2> QED
      BY <1>2, <1>4, <2>1 DEF Held
  <1> QED
    BY <1>3, <1>4

\* A call that goes back to idle gives its key up.
LEMMA IdleHeld ==
    ASSUME PoolTypeOK, NEW t \in Task, pc' = [pc EXCEPT ![t] = "idle"],
           \A u \in Task \ {t} : call'[u] = call[u]
    PROVE  Held' = [Held EXCEPT ![t] = NoAction]
  <1>1. pc'[t] \notin Owning /\ \A u \in Task \ {t} : pc'[u] = pc[u]
    BY DEF PoolTypeOK, Owning
  <1> QED
    BY <1>1 DEF Held

\* A step of the pool is a step of the locks, or changes neither the keys that
\* are owned nor those that are lost.
LEMMA StepImplements ==
    ASSUME PoolInv, [Next]_vars
    PROVE  Locks!Next \/ UNCHANGED <<Held, leaked>>
  <1>1. PoolTypeOK /\ CallInv /\ KeyInv
    BY DEF PoolInv
  <1>2. ASSUME NEW t \in Task, NEW o, NEW c \in May[t], Enlist(t, o, c), pc[t] \notin Owning,
               call'[t] = c, \A u \in Task \ {t} : call'[u] = call[u], leaked' = leaked
        PROVE  Locks!Next \/ UNCHANGED <<Held, leaked>>
    <2>1. Held' = IF Key(c) \in ActiveActions THEN Held ELSE [Held EXCEPT ![t] = Key(c)]
      BY <1>1, <1>2, EnlistHeld
    <2>2. Key(c) \in Socket \cup Action
      BY MayCall
    <2>3. CASE Key(c) \in ActiveActions
      BY <1>2, <2>1, <2>3
    <2>4. CASE Key(c) \notin ActiveActions
      <3>1. Locks!Acquire(t, Key(c))
        BY <1>1, <1>2, <2>1, <2>2, <2>4, LockStep
      <3> QED
        BY <2>2, <3>1 DEF Locks!Next
    <2> QED
      BY <2>3, <2>4
  <1>3. ASSUME NEW t \in Task, NEW l, Goto(t, l), pc[t] \in Owning <=> l \in Owning,
               call' = call, leaked' = leaked
        PROVE  UNCHANGED <<Held, leaked>>
    <2>1. \A u \in Task : pc'[u] \in Owning <=> pc[u] \in Owning
      BY <1>1, <1>3 DEF PoolTypeOK, Goto
    <2> QED
      BY <1>3, <2>1 DEF Held
  <1>4. ASSUME NEW t \in Task, pc[t] \in Owning, Leak(t)
        PROVE  Locks!Next
    <2>1. /\ pc' = [pc EXCEPT ![t] = "idle"] /\ leaked' = leaked \cup {Key(call[t])}
          /\ \A u \in Task \ {t} : call'[u] = call[u]
      BY <1>1, <1>4 DEF Leak, Goto, PoolTypeOK
    <2>2. Held' = [Held EXCEPT ![t] = NoAction]
      BY <1>1, <2>1, IdleHeld
    <2>3. Locks!Lose(t)
      BY <1>1, <1>4, <2>1, <2>2, LockStep
    <2> QED
      BY <2>3 DEF Locks!Next
  <1>5. CASE UNCHANGED vars
    BY <1>5 DEF vars, Held
  <1>6. ASSUME NEW t \in Task, NEW c \in May[t], WaitForPoolObj(t, c)
        PROVE  Locks!Next \/ UNCHANGED <<Held, leaked>>
    <2>1. pc[t] \notin Owning /\ Enlist(t, FreePoolIdx, c) /\ leaked' = leaked
      BY <1>6 DEF WaitForPoolObj, Owning
    <2>2. call'[t] = c /\ \A u \in Task \ {t} : call'[u] = call[u]
      BY <1>1, <1>6 DEF WaitForPoolObj, PoolTypeOK
    <2> QED
      BY <1>2, <2>1, <2>2
  <1>7. ASSUME NEW t \in Task, Recheck(t)
        PROVE  Locks!Next \/ UNCHANGED <<Held, leaked>>
    <2>1. /\ pc[t] \notin Owning /\ Enlist(t, ObjIdx[t], call[t]) /\ leaked' = leaked
          /\ call' = call
      BY <1>7 DEF Recheck, Owning
    <2>2. call[t] \in May[t]
      BY <1>1, <1>7, CallFacts DEF Recheck
    <2> QED
      BY <1>2, <2>1, <2>2
  <1>8. ASSUME NEW t \in Task, PendingWake(t)
        PROVE  Locks!Next \/ UNCHANGED <<Held, leaked>>
    <2>1. pc[t] \notin Owning /\ "recheck" \notin Owning
      BY <1>8 DEF PendingWake, Owning
    <2> QED
      BY <1>3, <1>8, <2>1 DEF PendingWake
  <1>9. ASSUME NEW t \in Task, SendCommand(t)
        PROVE  Locks!Next \/ UNCHANGED <<Held, leaked>>
    <2>1. pc[t] \in Owning /\ "wait" \in Owning /\ "release" \in Owning
      BY <1>9 DEF SendCommand, Owning
    <2> QED
      BY <1>3, <1>4, <1>9, <2>1 DEF SendCommand
  <1>10. ASSUME NEW t \in Task, DeliverData(t) \/ FindActiveObj(t) \/ HandleAsync(t)
         PROVE  Locks!Next \/ UNCHANGED <<Held, leaked>>
    BY <1>10 DEF DeliverData, FindActiveObj, HandleAsync, Held
  <1>11. ASSUME NEW t \in Task, WaitDone(t)
         PROVE  Locks!Next \/ UNCHANGED <<Held, leaked>>
    <2>1. pc[t] \in Owning /\ "release" \in Owning
      BY <1>11 DEF WaitDone, Owning
    <2> QED
      BY <1>3, <1>4, <1>11, <2>1 DEF WaitDone
  <1>12. ASSUME NEW t \in Task, WaitTimeout(t)
         PROVE  Locks!Next \/ UNCHANGED <<Held, leaked>>
    <2>1. pc[t] \in Owning /\ "release" \in Owning
      BY <1>12 DEF WaitTimeout, Owning
    <2> QED
      BY <1>3, <1>12, <2>1 DEF WaitTimeout
  <1>13. CASE DriverError
    BY <1>13 DEF DriverError, Held
  <1>14. ASSUME NEW t \in Task, ReleasePoolObj(t)
         PROVE  Locks!Next \/ UNCHANGED <<Held, leaked>>
    <2>1. /\ pc[t] \in Owning /\ pc' = [pc EXCEPT ![t] = "idle"] /\ leaked' = leaked
          /\ call' = [call EXCEPT ![t] = NoCall]
      BY <1>14 DEF ReleasePoolObj, Goto, Owning
    <2>2. \A u \in Task \ {t} : call'[u] = call[u]
      BY <1>1, <2>1 DEF PoolTypeOK
    <2>3. Held' = [Held EXCEPT ![t] = NoAction]
      BY <1>1, <2>1, <2>2, IdleHeld
    <2>4. Locks!Release(t)
      BY <1>1, <2>1, <2>3, LockStep
    <2> QED
      BY <2>4 DEF Locks!Next
  <1> QED
    BY <1>5, <1>6, <1>7, <1>8, <1>9, <1>10, <1>11, <1>12, <1>13, <1>14 DEF Next

\* LockSpec: the pool implements KeyLocks, so no two calls own one socket, or
\* one action, at a time and a key that was lost is never owned again.
THEOREM LocksCorrect == Spec => LockSpec
  <1>1. Init => Locks!Init
    BY DEF Init, Locks!Init, Owning
  <1>2. PoolInv /\ [Next]_vars => [Locks!Next]_<<Held, leaked>>
    BY StepImplements
  <1> QED
    BY <1>1, <1>2, PoolCorrect, PTL DEF Spec, LockSpec, Locks!Spec, Held

=============================================================================
