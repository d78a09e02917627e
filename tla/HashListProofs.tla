--------------------------- MODULE HashListProofs ---------------------------
(***************************************************************************)
(* Theorems about HashList, for every set of hashes, of addresses and of   *)
(* data and every number of leaves: the lists stay linked in order, the    *)
(* data has one owner, a walk visits every item once, and the lists        *)
(* implement the map of HashMap.                                           *)
(***************************************************************************)
EXTENDS HashList, TLAPS

-----------------------------------------------------------------------------
(* A sorted, doubly linked list: the items S of a heap hp, with head f *)

IsHead(hp, S, f) ==
    /\ f = NULL => S = {}
    /\ f # NULL => f \in S /\ \A j \in S : hp[f].hash <= hp[j].hash

(* n is the first item of S beyond hash h, p the last one before it; NULL   *)
(* if there is none.                                                        *)
IsNext(hp, S, h, n) ==
    /\ n = NULL => \A j \in S : ~(h < hp[j].hash)
    /\ n # NULL =>
        n \in S /\ h < hp[n].hash /\ \A j \in S : h < hp[j].hash => hp[n].hash <= hp[j].hash
IsPrevious(hp, S, h, p) ==
    /\ p = NULL => \A j \in S : ~(hp[j].hash < h)
    /\ p # NULL =>
        p \in S /\ hp[p].hash < h /\ \A j \in S : hp[j].hash < h => hp[j].hash <= hp[p].hash

Ordered(hp, S, f) ==
    /\ IsHead(hp, S, f)
    /\ \A i \in S :
        /\ IsNext(hp, S, hp[i].hash, hp[i].nextInLeaf)
        /\ IsPrevious(hp, S, hp[i].hash, hp[i].previousInLeaf)
        /\ \A j \in S : hp[j].hash = hp[i].hash => j = i

(* Only the hashes and the links matter. *)
LEMMA OrderedSame ==
    ASSUME NEW hp, NEW hq, NEW S, NEW f, Ordered(hp, S, f),
           \A j \in S : /\ hq[j].hash = hp[j].hash /\ hq[j].nextInLeaf = hp[j].nextInLeaf
                        /\ hq[j].previousInLeaf = hp[j].previousInLeaf
    PROVE  Ordered(hq, S, f)
  BY DEF Ordered, IsHead, IsNext, IsPrevious

(* The heap hq has a new item i with hash h between its neighbours p and n. *)
Inserted(hp, hq, S, i, h, p, n) ==
    /\ i \notin S /\ i # NULL /\ NULL \notin S
    /\ h \in Nat /\ \A j \in S : hp[j].hash \in Nat \ {h}
    /\ IsPrevious(hp, S, h, p) /\ IsNext(hp, S, h, n)
    /\ hq[i].hash = h /\ hq[i].nextInLeaf = n /\ hq[i].previousInLeaf = p
    /\ \A j \in S : /\ hq[j].hash = hp[j].hash
                    /\ hq[j].nextInLeaf = IF j = p THEN i ELSE hp[j].nextInLeaf
                    /\ hq[j].previousInLeaf = IF j = n THEN i ELSE hp[j].previousInLeaf

(* An item linked between its neighbours is in its place. *)
LEMMA OrderedInsert ==
    ASSUME NEW hp, NEW hq, NEW S, NEW f, Ordered(hp, S, f),
           NEW i, NEW h, NEW p, NEW n, Inserted(hp, hq, S, i, h, p, n)
    PROVE  Ordered(hq, S \cup {i}, IF p = NULL THEN i ELSE f)
  <1> DEFINE T == S \cup {i}
  <1> USE DEF Inserted
  <1>1. IsHead(hq, T, IF p = NULL THEN i ELSE f)
    BY DEF Ordered, IsHead, IsPrevious
  <1>2. \A j \in T : \A k \in T : hq[k].hash = hq[j].hash => k = j
    BY DEF Ordered
  <1>3. IsNext(hq, T, hq[i].hash, hq[i].nextInLeaf) /\ IsPrevious(hq, T, hq[i].hash, hq[i].previousInLeaf)
    BY DEF IsNext, IsPrevious
  <1>4. ASSUME NEW j \in S
        PROVE  IsNext(hq, T, hq[j].hash, hq[j].nextInLeaf)
    <2>1. CASE j = p
      BY <2>1 DEF IsNext, IsPrevious
    <2>2. CASE j # p
      BY <2>2 DEF Ordered, IsNext, IsPrevious
    <2> QED  BY <2>1, <2>2
  <1>5. ASSUME NEW j \in S
        PROVE  IsPrevious(hq, T, hq[j].hash, hq[j].previousInLeaf)
    <2>1. CASE j = n
      BY <2>1 DEF IsNext, IsPrevious
    <2>2. CASE j # n
      BY <2>2 DEF Ordered, IsNext, IsPrevious
    <2> QED  BY <2>1, <2>2
  <1> QED  BY <1>1, <1>2, <1>3, <1>4, <1>5 DEF Ordered

(* The heap hq has the items S of hp but for i, whose neighbours are linked. *)
Removed(hp, hq, S, i) ==
    /\ NULL \notin S /\ \A j \in S : hp[j].hash \in Nat
    /\ \A j \in S \ {i} :
         /\ hq[j].hash = hp[j].hash
         /\ hq[j].nextInLeaf =
                IF j = hp[i].previousInLeaf THEN hp[i].nextInLeaf ELSE hp[j].nextInLeaf
         /\ hq[j].previousInLeaf =
                IF j = hp[i].nextInLeaf THEN hp[i].previousInLeaf ELSE hp[j].previousInLeaf

(* An item that is unlinked leaves the others in their place. *)
LEMMA OrderedRemove ==
    ASSUME NEW hp, NEW hq, NEW S, NEW f, Ordered(hp, S, f), NEW i \in S, Removed(hp, hq, S, i)
    PROVE  Ordered(hq, S \ {i}, IF hp[i].previousInLeaf = NULL THEN hp[i].nextInLeaf ELSE f)
  <1> DEFINE T == S \ {i}
             p == hp[i].previousInLeaf
             n == hp[i].nextInLeaf
             h == hp[i].hash
  <1> USE DEF Removed
  <1>0. IsPrevious(hp, S, h, p) /\ IsNext(hp, S, h, n) /\ \A j \in T : hp[j].hash # h
    BY DEF Ordered
  <1> HIDE DEF p, n
  <1>1. IsHead(hq, T, IF p = NULL THEN n ELSE f)
    <2>1. CASE p = NULL
      <3>1. \A j \in T : h < hp[j].hash
        BY <1>0, <2>1 DEF IsPrevious
      <3> QED  BY <1>0, <2>1, <3>1 DEF IsHead, IsNext, p, n
    <2>2. CASE p # NULL
      <3>1. f # NULL /\ f \in S /\ \A j \in S : hp[f].hash <= hp[j].hash
        BY DEF Ordered, IsHead
      <3>2. f # i
        BY <1>0, <2>2, <3>1 DEF IsPrevious
      <3> QED  BY <2>2, <3>1, <3>2 DEF IsHead
    <2> QED  BY <2>1, <2>2
  <1>2. \A j \in T : \A k \in T : hq[k].hash = hq[j].hash => k = j
    BY DEF Ordered
  <1>3. ASSUME NEW j \in T
        PROVE  IsNext(hq, T, hq[j].hash, hq[j].nextInLeaf)
    <2>0. IsNext(hp, S, hp[j].hash, hp[j].nextInLeaf)
      BY DEF Ordered
    <2>1. CASE j = p
      BY <1>0, <2>1 DEF IsNext, IsPrevious, p, n
    <2>2. CASE j # p
      <3>1. hp[j].nextInLeaf # i
        <4>1. ASSUME hp[j].nextInLeaf = i PROVE FALSE
          <5>1. i # NULL /\ hp[j].hash < h /\ \A k \in S : hp[j].hash < hp[k].hash => h <= hp[k].hash
            BY <2>0, <4>1 DEF IsNext
          <5>2. p # NULL /\ p \in S /\ hp[p].hash < h /\ hp[j].hash <= hp[p].hash
            BY <1>0, <5>1 DEF IsPrevious
          <5>3. hp[j].hash # hp[p].hash
            BY <2>2, <5>2 DEF Ordered
          <5> QED  BY <5>1, <5>2, <5>3
        <4> QED  BY <4>1
      <3> QED  BY <2>0, <2>2, <3>1 DEF IsNext, p
    <2> QED  BY <2>1, <2>2
  <1>4. ASSUME NEW j \in T
        PROVE  IsPrevious(hq, T, hq[j].hash, hq[j].previousInLeaf)
    <2>0. IsPrevious(hp, S, hp[j].hash, hp[j].previousInLeaf)
      BY DEF Ordered
    <2>1. CASE j = n
      BY <1>0, <2>1 DEF IsNext, IsPrevious, p, n
    <2>2. CASE j # n
      <3>1. hp[j].previousInLeaf # i
        <4>1. ASSUME hp[j].previousInLeaf = i PROVE FALSE
          <5>1. i # NULL /\ h < hp[j].hash /\ \A k \in S : hp[k].hash < hp[j].hash => hp[k].hash <= h
            BY <2>0, <4>1 DEF IsPrevious
          <5>2. n # NULL /\ n \in S /\ h < hp[n].hash /\ hp[n].hash <= hp[j].hash
            BY <1>0, <5>1 DEF IsNext
          <5>3. hp[j].hash # hp[n].hash
            BY <2>2, <5>2 DEF Ordered
          <5> QED  BY <5>1, <5>2, <5>3
        <4> QED  BY <4>1
      <3> QED  BY <2>0, <2>2, <3>1 DEF IsPrevious, n
    <2> QED  BY <2>1, <2>2
  <1>5. Ordered(hq, T, IF p = NULL THEN n ELSE f)
    BY <1>1, <1>2, <1>3, <1>4 DEF Ordered
  <1> QED  BY <1>5 DEF p, n

-----------------------------------------------------------------------------
(* The leaves of a heap hp with the heads first *)

Heaps == [Items -> Item \cup {Free}]
Heads == [Leaves -> Pointers]
LiveIn(hp, l) == {i \in Items : hp[i] # Free /\ hp[i].leaf = l}
Sorted(hp, first) == \A l \in Leaves : Ordered(hp, LiveIn(hp, l), first[l])

(* The items that two heaps have, but for item i, differ in links only. *)
SameBut(hp, hq, i) ==
    \A j \in Items \ {i} :
        /\ hq[j] = Free <=> hp[j] = Free
        /\ hp[j] # Free =>
            /\ hq[j].hash = hp[j].hash /\ hq[j].leaf = hp[j].leaf /\ hq[j].data = hp[j].data

(* LinkedInOrder says that all the leaves are sorted. *)
LEMMA LinkedIs ==
    ASSUME TypeOK
    PROVE  LinkedInOrder <=> Sorted(heap, firstItem)
  <1>1. \A l \in Leaves : InLeaf(l) = LiveIn(heap, l) /\ InLeaf(l) \subseteq Live
    BY DEF InLeaf, Live, LiveIn
  <1>2. \A i \in Live : heap[i] \in Item /\ heap[i].hash \in Nat /\ heap[i].leaf \in Leaves /\ i # NULL
    BY HashesAssumption, AddressAssumption DEF TypeOK, Live, Item
  <1>3. ASSUME NEW l \in Leaves
        PROVE  IsFirstOf(firstItem[l], InLeaf(l)) <=> IsHead(heap, InLeaf(l), firstItem[l])
    BY <1>1, <1>2 DEF IsFirstOf, IsHead
  <1>4. ASSUME NEW i \in Live
        PROVE  LET S == InLeaf(heap[i].leaf) IN
               /\ IsFirstOf(heap[i].nextInLeaf, {j \in S : heap[j].hash > heap[i].hash})
                    <=> IsNext(heap, S, heap[i].hash, heap[i].nextInLeaf)
               /\ IsLastOf(heap[i].previousInLeaf, {j \in S : heap[j].hash < heap[i].hash})
                    <=> IsPrevious(heap, S, heap[i].hash, heap[i].previousInLeaf)
    <2> DEFINE S == InLeaf(heap[i].leaf)
               n == heap[i].nextInLeaf
               p == heap[i].previousInLeaf
               h == heap[i].hash
    <2>1. /\ \A j \in S : heap[j].hash \in Nat /\ j # NULL
          /\ h \in Nat
      BY <1>1, <1>2
    <2> HIDE DEF S, n, p, h
    <2>2. \A j \in S : heap[j].hash > h <=> h < heap[j].hash
      BY <2>1
    <2>3. IsFirstOf(n, {j \in S : heap[j].hash > h}) <=> IsNext(heap, S, h, n)
      BY <2>1, <2>2 DEF IsFirstOf, IsNext
    <2>4. IsLastOf(p, {j \in S : heap[j].hash < h}) <=> IsPrevious(heap, S, h, p)
      BY <2>1 DEF IsLastOf, IsPrevious
    <2> QED  BY <2>3, <2>4 DEF S, n, p, h
  <1>5. \A l \in Leaves : \A i \in InLeaf(l) : i \in Live /\ heap[i].leaf = l
    BY DEF InLeaf
  <1>6. \A i \in Live : i \in InLeaf(heap[i].leaf)
    BY DEF InLeaf
  <1>7. Sorted(heap, firstItem) <=> \A l \in Leaves : Ordered(heap, InLeaf(l), firstItem[l])
    BY <1>1 DEF Sorted
  <1>8. LinkedInOrder =>
            \A l \in Leaves : Ordered(heap, InLeaf(l), firstItem[l])
    BY <1>3, <1>4, <1>5 DEF LinkedInOrder, Ordered
  <1>9. (\A l \in Leaves : Ordered(heap, InLeaf(l), firstItem[l])) => LinkedInOrder
    BY <1>2, <1>3, <1>4, <1>6 DEF LinkedInOrder, Ordered
  <1> QED  BY <1>7, <1>8, <1>9

(* The insertion of setHash *)
LEMMA Insert ==
    ASSUME TypeOK, Sorted(heap, firstItem), NEW i \in Items, heap[i] = Free, NEW new \in Item,
           IsPrevious(heap, InLeaf(new.leaf), new.hash, new.previousInLeaf),
           IsNext(heap, InLeaf(new.leaf), new.hash, new.nextInLeaf),
           \A j \in InLeaf(new.leaf) : heap[j].hash # new.hash
    PROVE  /\ Linked(i, new) \in Heaps /\ LinkedFirst(i, new) \in Heads
           /\ Sorted(Linked(i, new), LinkedFirst(i, new))
           /\ Linked(i, new)[i] = new /\ SameBut(heap, Linked(i, new), i)
           /\ \A j \in Items \ {i} :
                heap[j] # Free /\ heap[j].leaf # new.leaf => Linked(i, new)[j] = heap[j]
  <1> DEFINE hq == Linked(i, new)
             first == LinkedFirst(i, new)
             l == new.leaf
             S == InLeaf(l)
             p == new.previousInLeaf
             n == new.nextInLeaf
  <1>1. /\ l \in Leaves /\ new.hash \in Nat /\ p \in Pointers /\ n \in Pointers /\ new # Free
        /\ heap \in Heaps /\ firstItem \in Heads /\ i # NULL /\ NULL \notin S
    BY HashesAssumption, AddressAssumption DEF Item, TypeOK, Heaps, Heads, InLeaf, Live
  <1>2. /\ p # NULL => p \in S /\ heap[p].hash < new.hash
        /\ n # NULL => n \in S /\ new.hash < heap[n].hash
    BY DEF IsPrevious, IsNext
  <1>3. \A j \in S : j \in Items /\ j # i /\ heap[j] \in Item /\ heap[j].hash \in Nat /\ heap[j].leaf = l
    BY <1>1, HashesAssumption DEF InLeaf, Live, Item, Heaps
  <1>4. p # NULL \/ n # NULL => p # n
    BY <1>1, <1>2, <1>3
  <1>5. \A j \in Items : hq[j] =
            IF j = i THEN new
            ELSE IF j = p THEN [heap[j] EXCEPT !.nextInLeaf = i]
            ELSE IF j = n THEN [heap[j] EXCEPT !.previousInLeaf = i]
            ELSE heap[j]
    BY DEF Linked
  <1>6. \A j \in Items \ {i, p, n} : hq[j] = heap[j]
    BY <1>5
  <1>7. ASSUME NEW j \in S, j = p \/ j = n
        PROVE  /\ hq[j] \in Item
               /\ hq[j].hash = heap[j].hash /\ hq[j].leaf = heap[j].leaf /\ hq[j].data = heap[j].data
               /\ hq[j].nextInLeaf = IF j = p THEN i ELSE heap[j].nextInLeaf
               /\ hq[j].previousInLeaf = IF j = n THEN i ELSE heap[j].previousInLeaf
    <2>1. CASE j = p
      <3>1. hq[j] = [heap[j] EXCEPT !.nextInLeaf = i] /\ j # n
        BY <1>1, <1>3, <1>4, <1>5, <2>1
      <3> QED  BY <1>3, <2>1, <3>1 DEF Item, Pointers
    <2>2. CASE j # p
      <3>1. hq[j] = [heap[j] EXCEPT !.previousInLeaf = i] /\ j = n
        BY <1>3, <1>5, <1>7, <2>2
      <3> QED  BY <1>3, <2>2, <3>1 DEF Item, Pointers
    <2> QED  BY <2>1, <2>2
  <1>8. hq[i] = new
    BY <1>5
  <1>9. \A j \in Items \ {i} : (j \in S /\ (j = p \/ j = n)) \/ hq[j] = heap[j]
    BY <1>2, <1>6, AddressAssumption
  <1>10. hq \in Heaps
    <2>1. \A j \in Items : hq[j] \in Item \cup {Free}
      BY <1>1, <1>7, <1>8, <1>9 DEF Heaps
    <2> QED  BY <2>1 DEF Linked, Heaps
  <1>11. first \in Heads
    BY <1>1 DEF LinkedFirst, Heads, Pointers
  <1>12. SameBut(heap, hq, i)
    BY <1>3, <1>7, <1>9, AddressAssumption DEF SameBut
  <1>13. \A j \in Items \ {i} : heap[j] # Free /\ heap[j].leaf # l => hq[j] = heap[j]
    BY <1>3, <1>9
  <1>14. Sorted(hq, first)
    <2>1. ASSUME NEW m \in Leaves, m # l
          PROVE  Ordered(hq, LiveIn(hq, m), first[m])
      <3>1. LiveIn(hq, m) = LiveIn(heap, m)
        BY <1>8, <1>12, <2>1 DEF LiveIn, SameBut
      <3>2. \A j \in LiveIn(heap, m) : hq[j] = heap[j]
        BY <1>13, <2>1 DEF LiveIn
      <3>3. first[m] = firstItem[m]
        BY <1>1, <2>1 DEF LinkedFirst, Heads
      <3>4. Ordered(heap, LiveIn(heap, m), firstItem[m])
        BY DEF Sorted
      <3> HIDE DEF hq, first
      <3> QED  BY <3>1, <3>2, <3>3, <3>4, OrderedSame
    <2>2. Ordered(hq, LiveIn(hq, l), first[l])
      <3>1. LiveIn(hq, l) = S \cup {i}
        <4>1. S = LiveIn(heap, l)
          BY DEF LiveIn, InLeaf, Live
        <4>2. i \in LiveIn(hq, l)
          BY <1>1, <1>8 DEF LiveIn
        <4>3. \A j \in Items \ {i} : j \in LiveIn(hq, l) <=> j \in LiveIn(heap, l)
          BY <1>12 DEF LiveIn, SameBut
        <4> HIDE DEF S, hq
        <4> QED  BY <4>1, <4>2, <4>3 DEF LiveIn
      <3> DEFINE h == new.hash
                 f == firstItem[l]
      <3>2. Ordered(heap, S, f)
        <4>1. S = LiveIn(heap, l)
          BY DEF LiveIn, InLeaf, Live
        <4> QED  BY <1>1, <4>1 DEF Sorted
      <3>3. \A j \in S : /\ hq[j].hash = heap[j].hash
                         /\ hq[j].nextInLeaf = IF j = p THEN i ELSE heap[j].nextInLeaf
                         /\ hq[j].previousInLeaf = IF j = n THEN i ELSE heap[j].previousInLeaf
        BY <1>3, <1>7, <1>9
      <3>4. first[l] = IF p = NULL THEN i ELSE f
        BY <1>1 DEF LinkedFirst, Heads
      <3>5. i \notin S /\ \A j \in S : heap[j].hash \in Nat \ {h}
        BY <1>3
      <3>6. IsPrevious(heap, S, h, p) /\ IsNext(heap, S, h, n)
        OBVIOUS
      <3>7. hq[i].hash = h /\ hq[i].nextInLeaf = n /\ hq[i].previousInLeaf = p
        BY <1>8
      <3>8. i # NULL /\ NULL \notin S /\ h \in Nat
        BY <1>1
      <3> HIDE DEF hq, first, S, p, n, l, h, f
      <3>9. Ordered(hq, S \cup {i}, IF p = NULL THEN i ELSE f)
        <4>1. Inserted(heap, hq, S, i, h, p, n)
          BY ONLY <3>3, <3>5, <3>6, <3>7, <3>8 DEF Inserted
        <4> QED  BY <3>2, <4>1, OrderedInsert
      <3> QED  BY <3>1, <3>4, <3>9
    <2> QED  BY <2>1, <2>2 DEF Sorted
  <1> QED  BY <1>8, <1>10, <1>11, <1>12, <1>13, <1>14

(* The removal of deleteItem *)
LEMMA Remove ==
    ASSUME NEW hp \in Heaps, NEW first \in Heads, Sorted(hp, first), NEW i \in Items, hp[i] # Free
    PROVE  /\ Unlinked(hp, i) \in Heaps /\ UnlinkedFirst(first, hp, i) \in Heads
           /\ Sorted(Unlinked(hp, i), UnlinkedFirst(first, hp, i))
           /\ Unlinked(hp, i)[i] = Free /\ SameBut(hp, Unlinked(hp, i), i)
  <1> DEFINE hq == Unlinked(hp, i)
             heads == UnlinkedFirst(first, hp, i)
             l == hp[i].leaf
             S == LiveIn(hp, l)
             p == hp[i].previousInLeaf
             n == hp[i].nextInLeaf
  <1>1. /\ l \in Leaves /\ p \in Pointers /\ n \in Pointers /\ NULL \notin Items /\ i \in S
    BY AddressAssumption DEF Item, Heaps, LiveIn
  <1>2. \A j \in S : j \in Items /\ hp[j] \in Item /\ hp[j].hash \in Nat /\ hp[j].leaf = l
    BY HashesAssumption DEF LiveIn, Item, Heaps
  <1>3. /\ IsPrevious(hp, S, hp[i].hash, p) /\ IsNext(hp, S, hp[i].hash, n)
        /\ Ordered(hp, S, first[l])
    BY <1>1 DEF Sorted, Ordered
  <1>4. /\ p # NULL => p \in S /\ hp[p].hash < hp[i].hash
        /\ n # NULL => n \in S /\ hp[i].hash < hp[n].hash
    BY <1>3 DEF IsPrevious, IsNext
  <1>5. p # i /\ n # i /\ (p # NULL \/ n # NULL => p # n)
    BY <1>1, <1>2, <1>4
  <1>6. \A j \in Items : hq[j] =
            IF j = i THEN Free
            ELSE IF j = p THEN [hp[j] EXCEPT !.nextInLeaf = n]
            ELSE IF j = n THEN [hp[j] EXCEPT !.previousInLeaf = p]
            ELSE hp[j]
    BY DEF Unlinked
  <1>7. ASSUME NEW j \in S \ {i}, j = p \/ j = n
        PROVE  /\ hq[j] \in Item
               /\ hq[j].hash = hp[j].hash /\ hq[j].leaf = hp[j].leaf /\ hq[j].data = hp[j].data
               /\ hq[j].nextInLeaf = IF j = p THEN n ELSE hp[j].nextInLeaf
               /\ hq[j].previousInLeaf = IF j = n THEN p ELSE hp[j].previousInLeaf
    <2>1. CASE j = p
      <3>1. hq[j] = [hp[j] EXCEPT !.nextInLeaf = n] /\ j # n
        BY <1>1, <1>2, <1>5, <1>6, <2>1
      <3> QED  BY <1>1, <1>2, <2>1, <3>1 DEF Item
    <2>2. CASE j # p
      <3>1. hq[j] = [hp[j] EXCEPT !.previousInLeaf = p] /\ j = n
        BY <1>2, <1>6, <1>7, <2>2
      <3> QED  BY <1>1, <1>2, <2>2, <3>1 DEF Item
    <2> QED  BY <2>1, <2>2
  <1>8. hq[i] = Free
    BY <1>6
  <1>9. \A j \in Items \ {i} : (j \in S \ {i} /\ (j = p \/ j = n)) \/ hq[j] = hp[j]
    BY <1>1, <1>4, <1>6
  <1>10. hq \in Heaps
    <2>1. \A j \in Items : hq[j] \in Item \cup {Free}
      BY <1>7, <1>8, <1>9 DEF Heaps
    <2> QED  BY <2>1 DEF Unlinked, Heaps
  <1>11. heads \in Heads
    BY <1>1 DEF UnlinkedFirst, Heads
  <1>12. SameBut(hp, hq, i)
    BY <1>2, <1>7, <1>9, AddressAssumption DEF SameBut
  <1>13. Sorted(hq, heads)
    <2>1. ASSUME NEW m \in Leaves, m # l
          PROVE  Ordered(hq, LiveIn(hq, m), heads[m])
      <3>1. LiveIn(hq, m) = LiveIn(hp, m)
        BY <1>8, <1>12, <2>1 DEF LiveIn, SameBut
      <3>2. \A j \in LiveIn(hp, m) : hq[j] = hp[j]
        <4>1. \A j \in LiveIn(hp, m) : j \in Items \ {i} /\ j \notin S
          BY <2>1 DEF LiveIn
        <4> QED  BY <1>9, <4>1
      <3>3. heads[m] = first[m]
        BY <2>1 DEF UnlinkedFirst, Heads
      <3>4. Ordered(hp, LiveIn(hp, m), first[m])
        BY DEF Sorted
      <3> HIDE DEF hq, heads
      <3> QED  BY <3>1, <3>2, <3>3, <3>4, OrderedSame
    <2>2. Ordered(hq, LiveIn(hq, l), heads[l])
      <3> DEFINE f == first[l]
      <3>1. LiveIn(hq, l) = S \ {i}
        <4>1. i \notin LiveIn(hq, l)
          BY <1>8 DEF LiveIn
        <4>2. \A j \in Items \ {i} : j \in LiveIn(hq, l) <=> j \in S
          BY <1>12 DEF LiveIn, SameBut
        <4>3. LiveIn(hq, l) \subseteq Items /\ S \subseteq Items
          BY DEF LiveIn
        <4> HIDE DEF S, hq, l
        <4> QED  BY <4>1, <4>2, <4>3
      <3>2. Ordered(hp, S, f) /\ i \in S
        BY <1>1, <1>3
      <3>3. /\ NULL \notin S /\ \A j \in S : hp[j].hash \in Nat
            /\ \A j \in S \ {i} :
                /\ hq[j].hash = hp[j].hash
                /\ hq[j].nextInLeaf = IF j = p THEN n ELSE hp[j].nextInLeaf
                /\ hq[j].previousInLeaf = IF j = n THEN p ELSE hp[j].previousInLeaf
        BY <1>1, <1>2, <1>7, <1>9
      <3>4. heads[l] = IF p = NULL THEN n ELSE f
        BY <1>1 DEF UnlinkedFirst, Heads
      <3>5. Removed(hp, hq, S, i)
        BY <3>3 DEF Removed
      <3> HIDE DEF hq, heads, S, f, l
      <3>6. Ordered(hq, S \ {i}, IF p = NULL THEN n ELSE f)
        BY <3>2, <3>5, OrderedRemove
      <3> QED  BY <3>1, <3>4, <3>6
    <2> QED  BY <2>1, <2>2 DEF Sorted
  <1> QED  BY <1>8, <1>10, <1>11, <1>12, <1>13

-----------------------------------------------------------------------------
(* The inductive invariant *)

(* The leaf of an item: while reInitList moves the items, those that it has *)
(* seen are in the leaf of their byte.                                      *)
Place(h) ==
    IF walk.op = "move" THEN IF h \in walk.seen THEN Byte[h] ELSE Root
    ELSE getLeaf(level, h)
Placed == \A i \in Live : heap[i].leaf = Place(heap[i].hash)

(* A hash has one item, in whatever leaf. *)
Unique == \A i, j \in Live : heap[i].hash = heap[j].hash => i = j

(* The loop of setHash and getHash is between two neighbours in the leaf of *)
(* its hash, and has left smaller hashes behind.                            *)
SeekLevel == IF seek.op = "move" THEN 1 ELSE level
Seeking ==
    seek.op # "none" =>
        /\ seek.leaf = getLeaf(SeekLevel, seek.hash)
        /\ IF seek.previousItem = NULL THEN seek.currentItem = firstItem[seek.leaf]
           ELSE /\ seek.previousItem \in InLeaf(seek.leaf)
                /\ heap[seek.previousItem].hash < seek.hash
                /\ seek.currentItem = heap[seek.previousItem].nextInLeaf
        /\ IF seek.op = "move"
           THEN Visiting("move") /\ heap[walk.currentItem].hash = seek.hash
           ELSE walk = NotWalking

(* The hashes that a walk in the order of the leaves has behind it *)
Behind(h) ==
    \/ getLeaf(level, h) < walk.leaf
    \/ /\ getLeaf(level, h) = walk.leaf
       /\ walk.currentItem # NULL => h < heap[walk.currentItem].hash

(* A walk has seen what is behind it, and the rest is still there. *)
Walking ==
    walk.op # "none" =>
        /\ walk.leaf \in FirstLeaf .. LastLeaf
        /\ walk.currentItem # NULL => walk.currentItem \in InLeaf(walk.leaf)
        /\ walk.start \ walk.seen \subseteq Stored /\ Stored \subseteq walk.start
        /\ walk.seen = {h \in walk.start : Behind(h)}
        /\ walk.op = "move" => level = 0 /\ walk.start = Stored
        /\ walk.op = "map" => seek = NotSeeking

IInv ==
    /\ TypeOK /\ Sorted(heap, firstItem) /\ DataOwned
    /\ Placed /\ Unique /\ Seeking /\ Walking

(* The initial state satisfies the invariant. *)
LEMMA IInvInit ==
    ASSUME Init
    PROVE  IInv
  <1> USE DEF Init
  <1>1. Live = {}
    BY DEF Live
  <1>2. seek.op = "none" /\ walk.op = "none"
    BY DEF NotSeeking, NotWalking
  <1>3. TypeOK
    BY DEF TypeOK, Pointers
  <1>4. \A l \in Leaves : InLeaf(l) = {} /\ firstItem[l] = NULL
    BY <1>1 DEF InLeaf
  <1>5. Sorted(heap, firstItem)
    BY <1>3, <1>4, LinkedIs DEF LinkedInOrder, IsFirstOf, Live
  <1>6. DataOwned /\ Placed /\ Unique /\ Seeking /\ Walking
    BY <1>1, <1>2 DEF DataOwned, Placed, Unique, Seeking, Walking
  <1> QED  BY <1>3, <1>5, <1>6 DEF IInv

-----------------------------------------------------------------------------
(* What the invariant says of a state *)

(* A call is on its way or it is not; so is a walk. *)
LEMMA Ops ==
    ASSUME TypeOK
    PROVE  /\ seek = NotSeeking <=> seek.op = "none"
           /\ walk = NotWalking <=> walk.op = "none"
           /\ seek.op # "none" => seek \in SeekType
           /\ walk.op # "none" => walk \in WalkType
           /\ seek.op \in {"none", "set", "get", "delete", "move"}
           /\ walk.op \in {"none", "map", "move"}
  BY DEF TypeOK, SeekType, WalkType, NotSeeking, NotWalking

(* What is on the heap. *)
LEMMA LiveIs ==
    ASSUME TypeOK, NEW i \in Live
    PROVE  /\ i \in Items /\ i # NULL /\ heap[i] \in Item /\ heap[i].hash \in Hashes \cap Nat
           /\ heap[i].leaf \in Leaves /\ i \in InLeaf(heap[i].leaf) /\ heap[i].hash \in Stored
  BY HashesAssumption, AddressAssumption DEF TypeOK, Live, Item, InLeaf, Stored

(* The leaves of the hashes are leaves. *)
LEMMA LeafIs ==
    ASSUME NEW h \in Hashes
    PROVE  /\ Byte[h] \in 0 .. LastByte /\ Byte[h] \in Leaves /\ Byte[h] # Root /\ Root \in Leaves
           /\ getLeaf(0, h) = Root /\ getLeaf(1, h) = Byte[h]
  <1>1. LastByte \in Nat /\ Byte[h] \in 0 .. LastByte
    BY ByteAssumption
  <1> QED  BY <1>1 DEF Leaves, Root, getLeaf

(* A hash that is stored has an item in its place. *)
LEMMA StoredIs ==
    ASSUME IInv, NEW h \in Stored
    PROVE  \E j \in Live : heap[j].hash = h /\ heap[j].leaf = Place(h) /\ j \in InLeaf(Place(h))
  <1>1. PICK j \in Live : heap[j].hash = h
    BY DEF Stored
  <1> QED  BY <1>1 DEF IInv, Placed, InLeaf

(* The leaves are sorted. *)
LEMMA LeafOrdered ==
    ASSUME IInv, NEW l \in Leaves
    PROVE  Ordered(heap, InLeaf(l), firstItem[l]) /\ InLeaf(l) \subseteq Live
  <1>1. Sorted(heap, firstItem)
    BY DEF IInv
  <1>2. InLeaf(l) = LiveIn(heap, l)
    BY DEF InLeaf, LiveIn, Live
  <1> QED  BY <1>1, <1>2 DEF Sorted, InLeaf

(* Where the loop of setHash and getHash ends, the hash is missing from its *)
(* leaf and belongs between the two items it holds.                         *)
LEMMA SeekPosition ==
    ASSUME IInv, seek.op # "none"
    PROVE  LET S == InLeaf(seek.leaf) IN
           /\ seek.currentItem # NULL => seek.currentItem \in S
           /\ AtEnd \/ Beyond =>
                /\ IsPrevious(heap, S, seek.hash, seek.previousItem)
                /\ IsNext(heap, S, seek.hash, seek.currentItem)
                /\ \A j \in S : heap[j].hash # seek.hash
  <1> DEFINE S == InLeaf(seek.leaf)
             h == seek.hash
             p == seek.previousItem
             c == seek.currentItem
  <1>1. TypeOK /\ seek \in SeekType /\ Seeking
    BY Ops DEF IInv
  <1>2. seek.leaf \in Leaves /\ h \in Nat
    BY <1>1, HashesAssumption DEF SeekType
  <1>3. Ordered(heap, S, firstItem[seek.leaf]) /\ \A j \in S : heap[j].hash \in Nat
    BY <1>1, <1>2, LeafOrdered, LiveIs
  <1>4. CASE p = NULL
    <2>1. IsHead(heap, S, c)
      BY <1>1, <1>3, <1>4 DEF Seeking, Ordered
    <2>2. c # NULL => c \in S
      BY <2>1 DEF IsHead
    <2>3. ASSUME AtEnd \/ Beyond
          PROVE  \A j \in S : h < heap[j].hash
      BY <1>2, <1>3, <2>1, <2>3 DEF IsHead, AtEnd, Beyond
    <2> HIDE DEF S, h
    <2>4. ASSUME AtEnd \/ Beyond
          PROVE  IsPrevious(heap, S, h, p) /\ IsNext(heap, S, h, c) /\ \A j \in S : heap[j].hash # h
      BY <1>2, <1>3, <1>4, <2>1, <2>3, <2>4 DEF IsHead, IsPrevious, IsNext
    <2> QED  BY <2>2, <2>4 DEF S, h
  <1>5. CASE p # NULL
    <2>1. p \in S /\ heap[p].hash < h /\ IsNext(heap, S, heap[p].hash, c)
      BY <1>1, <1>3, <1>5 DEF Seeking, Ordered
    <2>2. c # NULL => c \in S
      BY <2>1 DEF IsNext
    <2>3. ASSUME AtEnd \/ Beyond
          PROVE  c # NULL => h < heap[c].hash
      BY <2>3 DEF AtEnd, Beyond
    <2> HIDE DEF S, h
    <2>4. ASSUME AtEnd \/ Beyond
          PROVE  \A j \in S : heap[j].hash <= heap[p].hash
                               \/ (c # NULL /\ heap[c].hash <= heap[j].hash)
      BY <1>2, <1>3, <2>1 DEF IsNext
    <2>5. ASSUME AtEnd \/ Beyond
          PROVE  IsPrevious(heap, S, h, p) /\ IsNext(heap, S, h, c) /\ \A j \in S : heap[j].hash # h
      BY <1>2, <1>3, <1>5, <2>1, <2>2, <2>3, <2>4, <2>5 DEF IsPrevious, IsNext
    <2> QED  BY <2>2, <2>5 DEF S, h
  <1> QED  BY <1>4, <1>5

(* A hash that its leaf has not is not stored, unless it is being moved.    *)
LEMMA SeekMissing ==
    ASSUME IInv, seek.op \in {"set", "get", "delete"}, AtEnd \/ Beyond
    PROVE  seek.hash \notin Stored
  <1>1. TypeOK /\ seek \in SeekType /\ Seeking
    BY Ops DEF IInv
  <1>2. ASSUME seek.hash \in Stored
        PROVE  FALSE
    <2>1. walk.op # "move" /\ seek.leaf = Place(seek.hash)
      BY <1>1, Ops DEF Seeking, SeekLevel, Place
    <2>2. PICK j \in InLeaf(seek.leaf) : heap[j].hash = seek.hash
      BY <1>2, <2>1, StoredIs
    <2> QED  BY <2>2, SeekPosition
  <1> QED  BY <1>2

(* While an item is moved, its hash is only in the old leaf.                *)
LEMMA SeekMove ==
    ASSUME IInv, seek.op = "move"
    PROVE  /\ walk.op = "move" /\ walk.currentItem \in InLeaf(Root) /\ level = 0
           /\ seek.leaf = Byte[seek.hash] /\ seek.hash = heap[walk.currentItem].hash
           /\ seek.hash \in Hashes
           /\ \A j \in InLeaf(seek.leaf) : heap[j].hash # seek.hash
  <1>1. TypeOK /\ seek \in SeekType /\ Seeking /\ Walking /\ Unique
    BY Ops DEF IInv
  <1>2. seek.hash \in Hashes /\ walk.op = "move" /\ walk.currentItem # NULL
        /\ heap[walk.currentItem].hash = seek.hash /\ level = 0
    BY <1>1 DEF SeekType, Seeking, Walking, Visiting
  <1>3. walk.leaf = Root
    BY <1>1, <1>2, LeafIs DEF Walking, FirstLeaf, LastLeaf, Leaves
  <1>4. walk.currentItem \in InLeaf(Root)
    BY <1>1, <1>2, <1>3 DEF Walking
  <1>5. seek.leaf = Byte[seek.hash] /\ seek.leaf # Root
    BY <1>1, <1>2, LeafIs DEF Seeking, SeekLevel
  <1>6. ASSUME NEW j \in InLeaf(seek.leaf), heap[j].hash = seek.hash
        PROVE  FALSE
    <2>1. j = walk.currentItem
      BY <1>1, <1>2, <1>4, <1>6 DEF Unique, InLeaf
    <2> QED  BY <1>4, <1>5, <2>1 DEF InLeaf
  <1> QED  BY <1>2, <1>4, <1>5, <1>6

(* The current item of a walk is the first one that it has not seen.        *)
LEMMA WalkPosition ==
    ASSUME IInv, walk.op # "none", walk.currentItem # NULL
    PROVE  /\ walk.currentItem \in InLeaf(walk.leaf) /\ walk.leaf \in Leaves
           /\ heap[walk.currentItem].hash \in walk.start \ walk.seen
           /\ getLeaf(level, heap[walk.currentItem].hash) = walk.leaf
  <1> DEFINE c == walk.currentItem
             h == heap[c].hash
  <1>1. TypeOK /\ walk \in WalkType /\ Walking /\ Placed
    BY Ops DEF IInv
  <1>2. c \in InLeaf(walk.leaf) /\ walk.leaf \in Leaves /\ c \in Live /\ heap[c].leaf = walk.leaf
    BY <1>1 DEF Walking, WalkType, InLeaf
  <1>3. h \in Hashes /\ h \in Nat /\ h \in walk.start
    BY <1>1, <1>2, LiveIs DEF Walking
  <1>4. getLeaf(level, h) = walk.leaf
    <2>1. CASE walk.op = "move"
      <3>1. walk.leaf = Root /\ level = 0
        BY <1>1, <1>3, <2>1, LeafIs DEF Walking, FirstLeaf, LastLeaf, Leaves
      <3> QED  BY <1>3, <3>1, LeafIs
    <2>2. CASE walk.op # "move"
      BY <1>1, <1>2, <2>2 DEF Placed, Place
    <2> QED  BY <2>1, <2>2
  <1>5. walk.leaf \in Nat
    BY <1>2, ByteAssumption DEF Leaves
  <1>6. ~Behind(h)
    BY <1>3, <1>4, <1>5 DEF Behind
  <1> QED  BY <1>1, <1>2, <1>3, <1>4, <1>6 DEF Walking

-----------------------------------------------------------------------------
(* What the three changes of a list do *)

(* The heap and the heads keep their types, the leaves their order, and     *)
(* hashes and data have one owner.                                          *)
WellFormed ==
    /\ heap \in Heaps /\ firstItem \in Heads /\ allocated \subseteq Data
    /\ Sorted(heap, firstItem) /\ DataOwned /\ Unique

(* The invariant says so. *)
LEMMA WellFormedIs ==
    ASSUME IInv
    PROVE  WellFormed
  BY DEF IInv, WellFormed, TypeOK, Heaps, Heads

(* setHash of a new hash adds an item. *)
LEMMA InsertEffect ==
    ASSUME IInv, NEW i \in Items, NEW data \in Data, insertItem(i, data)
    PROVE  /\ WellFormed'
           /\ i \notin Live /\ Live' = Live \cup {i} /\ SameBut(heap, heap', i)
           /\ heap'[i] = NewItem(data) /\ NewItem(data) \in Item
           /\ seek.hash \in Hashes \ Stored /\ Stored' = Stored \cup {seek.hash}
  <1>1. /\ seek.op = "set" /\ (AtEnd \/ Beyond) /\ heap[i] = Free /\ data \notin allocated
        /\ heap' = Linked(i, NewItem(data)) /\ firstItem' = LinkedFirst(i, NewItem(data))
        /\ allocated' = allocated \cup {data}
    BY DEF insertItem
  <1>2. TypeOK /\ seek \in SeekType /\ WellFormed
    BY <1>1, Ops, WellFormedIs DEF IInv
  <1> DEFINE new == NewItem(data)
  <1>3. /\ new \in Item /\ new # Free /\ new.leaf = seek.leaf /\ new.hash = seek.hash
        /\ new.previousInLeaf = seek.previousItem /\ new.nextInLeaf = seek.currentItem
        /\ new.data = data /\ seek.hash \in Hashes
    BY <1>2, AddressAssumption DEF NewItem, Item, SeekType
  <1>4. /\ IsPrevious(heap, InLeaf(seek.leaf), seek.hash, seek.previousItem)
        /\ IsNext(heap, InLeaf(seek.leaf), seek.hash, seek.currentItem)
        /\ \A j \in InLeaf(seek.leaf) : heap[j].hash # seek.hash
        /\ seek.hash \notin Stored
    BY <1>1, SeekPosition, SeekMissing
  <1> HIDE DEF new
  <1>5. /\ heap' \in Heaps /\ firstItem' \in Heads /\ Sorted(heap', firstItem')
        /\ heap'[i] = new /\ SameBut(heap, heap', i)
    <2>1. /\ Linked(i, new) \in Heaps /\ LinkedFirst(i, new) \in Heads
          /\ Sorted(Linked(i, new), LinkedFirst(i, new))
          /\ Linked(i, new)[i] = new /\ SameBut(heap, Linked(i, new), i)
      BY <1>1, <1>2, <1>3, <1>4, Insert DEF WellFormed
    <2> QED  BY <1>1, <2>1 DEF new
  <1>6. i \notin Live /\ Live' = Live \cup {i}
    BY <1>1, <1>3, <1>5 DEF Live, SameBut
  <1>7. /\ \A j \in Live : heap'[j].hash = heap[j].hash /\ heap'[j].data = heap[j].data
        /\ heap'[i].hash = seek.hash /\ heap'[i].data = data
        /\ \A j \in Live : heap[j].hash # seek.hash /\ heap[j].data # data
    BY <1>1, <1>2, <1>3, <1>4, <1>5, <1>6 DEF Live, SameBut, Stored, WellFormed, DataOwned
  <1>8. Stored' = Stored \cup {seek.hash}
    BY <1>6, <1>7 DEF Stored
  <1>9. DataOwned'
    BY <1>1, <1>2, <1>6, <1>7 DEF WellFormed, DataOwned
  <1>10. Unique'
    BY <1>2, <1>6, <1>7 DEF WellFormed, Unique
  <1>11. Sorted(heap, firstItem)'
    BY <1>5
  <1> QED  BY <1>1, <1>2, <1>3, <1>4, <1>5, <1>6, <1>8, <1>9, <1>10, <1>11 DEF WellFormed, new

(* deleteItem takes an item away. *)
LEMMA DeleteEffect ==
    ASSUME IInv, NEW i \in Live, deleteItem(i)
    PROVE  /\ WellFormed'
           /\ Live' = Live \ {i} /\ SameBut(heap, heap', i)
           /\ Stored' = Stored \ {heap[i].hash}
  <1>1. /\ heap' = Unlinked(heap, i) /\ firstItem' = UnlinkedFirst(firstItem, heap, i)
        /\ allocated' = allocated \ {heap[i].data} /\ i \in Items /\ heap[i] # Free
    BY DEF deleteItem, Live
  <1>2. WellFormed
    BY WellFormedIs
  <1>3. /\ heap' \in Heaps /\ firstItem' \in Heads /\ Sorted(heap', firstItem')
        /\ heap'[i] = Free /\ SameBut(heap, heap', i)
    BY <1>1, <1>2, Remove DEF WellFormed
  <1>4. Live' = Live \ {i}
    BY <1>1, <1>3 DEF Live, SameBut
  <1>5. \A j \in Live' : heap'[j].hash = heap[j].hash /\ heap'[j].data = heap[j].data
    BY <1>3, <1>4 DEF Live, SameBut
  <1>6. \A j \in Live : j # i => heap[j].hash # heap[i].hash /\ heap[j].data # heap[i].data
    BY <1>2 DEF WellFormed, Unique, DataOwned
  <1>7. Stored' = Stored \ {heap[i].hash}
    BY <1>4, <1>5, <1>6 DEF Stored
  <1>8. DataOwned'
    BY <1>1, <1>2, <1>4, <1>5, <1>6 DEF WellFormed, DataOwned
  <1>9. Unique'
    BY <1>2, <1>4, <1>5 DEF WellFormed, Unique
  <1>10. Sorted(heap, firstItem)'
    BY <1>3
  <1> QED  BY <1>1, <1>2, <1>3, <1>4, <1>7, <1>8, <1>9, <1>10 DEF WellFormed

(* The callback of reInitList puts the data of an item into a new one, in   *)
(* the leaf of its byte.                                                    *)
LEMMA MoveEffect ==
    ASSUME IInv, NEW i \in Items, moveItem(i)
    PROVE  LET c == walk.currentItem IN
           /\ WellFormed'
           /\ i \notin Live /\ c \in Live /\ Live' = (Live \ {c}) \cup {i}
           /\ \A j \in Live \ {c} : /\ heap'[j].hash = heap[j].hash /\ heap'[j].leaf = heap[j].leaf
                                    /\ heap'[j].data = heap[j].data
           /\ heap'[i].hash = heap[c].hash /\ heap'[i].leaf = Byte[heap[c].hash]
           /\ heap'[i].data = heap[c].data
           /\ Stored' = Stored
  <1> DEFINE c == walk.currentItem
             new == NewItem(heap[c].data)
             hp == Linked(i, new)
             first == LinkedFirst(i, new)
  <1>1. /\ seek.op = "move" /\ (AtEnd \/ Beyond) /\ heap[i] = Free
        /\ heap' = Unlinked(hp, c) /\ firstItem' = UnlinkedFirst(first, heap, c)
        /\ UNCHANGED allocated
    BY DEF moveItem
  <1>2. TypeOK /\ seek \in SeekType /\ WellFormed
    BY <1>1, Ops, WellFormedIs DEF IInv
  <1>3. /\ c \in InLeaf(Root) /\ c \in Live /\ heap[c] \in Item /\ c # i /\ c \in Items
        /\ seek.hash = heap[c].hash /\ seek.hash \in Hashes
        /\ seek.leaf = Byte[seek.hash] /\ seek.leaf # Root
        /\ heap[c].leaf = Root /\ heap[c] # Free
    BY <1>1, <1>2, SeekMove, LiveIs, LeafIs DEF InLeaf, Live
  <1>4. /\ new \in Item /\ new # Free /\ new.leaf = seek.leaf /\ new.hash = seek.hash
        /\ new.previousInLeaf = seek.previousItem /\ new.nextInLeaf = seek.currentItem
        /\ new.data = heap[c].data
    BY <1>2, <1>3, AddressAssumption DEF NewItem, Item, SeekType
  <1>5. /\ IsPrevious(heap, InLeaf(seek.leaf), seek.hash, seek.previousItem)
        /\ IsNext(heap, InLeaf(seek.leaf), seek.hash, seek.currentItem)
        /\ \A j \in InLeaf(seek.leaf) : heap[j].hash # seek.hash
    BY <1>1, SeekPosition
  <1> HIDE DEF new, c
  <1>6. /\ hp \in Heaps /\ first \in Heads /\ Sorted(hp, first)
        /\ hp[i] = new /\ SameBut(heap, hp, i)
        /\ \A j \in Items \ {i} : heap[j] # Free /\ heap[j].leaf # new.leaf => hp[j] = heap[j]
    BY <1>1, <1>2, <1>4, <1>5, Insert DEF WellFormed
  <1> HIDE DEF hp, first
  <1>7. hp[c] = heap[c]
    BY <1>3, <1>4, <1>6
  <1>8. UnlinkedFirst(first, heap, c) = UnlinkedFirst(first, hp, c)
    BY <1>7 DEF UnlinkedFirst
  <1>9. /\ heap' \in Heaps /\ firstItem' \in Heads /\ Sorted(heap', firstItem')
        /\ heap'[c] = Free /\ SameBut(hp, heap', c)
    BY <1>1, <1>3, <1>6, <1>7, <1>8, Remove
  <1>10. i \notin Live /\ Live' = (Live \ {c}) \cup {i}
    BY <1>1, <1>3, <1>4, <1>6, <1>9 DEF Live, SameBut
  <1>11. /\ \A j \in Live \ {c} : /\ heap'[j].hash = heap[j].hash /\ heap'[j].leaf = heap[j].leaf
                                  /\ heap'[j].data = heap[j].data
         /\ heap'[i].hash = heap[c].hash /\ heap'[i].leaf = Byte[heap[c].hash]
         /\ heap'[i].data = heap[c].data
    <2>1. \A j \in Live \ {c} : hp[j] # Free /\ j \in Items \ {i, c}
      BY <1>1, <1>6 DEF Live, SameBut
    <2>2. \A j \in Live \ {c} : /\ hp[j].hash = heap[j].hash /\ hp[j].leaf = heap[j].leaf
                                /\ hp[j].data = heap[j].data
      BY <1>6, <2>1 DEF SameBut, Live
    <2>3. \A j \in Live \ {c} : /\ heap'[j].hash = hp[j].hash /\ heap'[j].leaf = hp[j].leaf
                                /\ heap'[j].data = hp[j].data
      BY <1>9, <2>1 DEF SameBut
    <2>4. /\ heap'[i].hash = hp[i].hash /\ heap'[i].leaf = hp[i].leaf
          /\ heap'[i].data = hp[i].data
      BY <1>3, <1>4, <1>6, <1>9 DEF SameBut
    <2> QED  BY <1>3, <1>4, <1>6, <2>2, <2>3, <2>4
  <1>12. Stored' = Stored
    BY <1>3, <1>10, <1>11 DEF Stored
  <1>13. DataOwned'
    BY <1>1, <1>2, <1>3, <1>10, <1>11 DEF WellFormed, DataOwned
  <1>14. Unique'
    BY <1>2, <1>3, <1>10, <1>11 DEF WellFormed, Unique
  <1>15. Sorted(heap, firstItem)'
    BY <1>9
  <1> QED  BY <1>1, <1>2, <1>3, <1>9, <1>10, <1>11, <1>12, <1>13, <1>14, <1>15 DEF WellFormed, c

-----------------------------------------------------------------------------
(* The steps preserve the invariant, part by part *)

(* A step leaves the list well-formed. *)
LEMMA WellFormedStep ==
    ASSUME IInv, [Next]_vars
    PROVE  WellFormed'
  <1>1. CASE \E i \in Items, data \in Data : insertItem(i, data)
    BY <1>1, InsertEffect
  <1>2. CASE \E i \in Items : moveItem(i)
    BY <1>2, MoveEffect
  <1>3. CASE deleteFound
    <2>1. seek.currentItem \in Live /\ deleteItem(seek.currentItem)
      BY <1>3, SeekPosition DEF deleteFound, Found, AtEnd, InLeaf
    <2> QED  BY <2>1, DeleteEffect
  <1>4. CASE mapDelete
    <2>1. walk.currentItem \in Live /\ deleteItem(walk.currentItem)
      BY <1>4, WalkPosition DEF mapDelete, Visiting, InLeaf
    <2> QED  BY <2>1, DeleteEffect
  <1>5. CASE UNCHANGED <<heap, firstItem, allocated>>
    BY <1>5, WellFormedIs DEF WellFormed, DataOwned, Unique, Live
  <1> QED  BY <1>1, <1>2, <1>3, <1>4, <1>5
           DEF Next, Start, Run, Call, mapList, reInitList, freeList, seekNext, returnItem,
               returnNull, mapKeep, mapBreak, mapLeaf, mapEnd, moveSeek, reInitEnd, list, vars

(* Every variable keeps its type. *)
LEMMA TypeStep ==
    ASSUME IInv, [Next]_vars
    PROVE  TypeOK'
  <1>0. TypeOK /\ heap' \in Heaps /\ firstItem' \in Heads /\ allocated' \subseteq Data
    BY WellFormedStep DEF IInv, WellFormed
  <1>1. /\ seek' \in SeekType \cup {NotSeeking} /\ walk' \in WalkType \cup {NotWalking}
        /\ level' \in {0, 1} /\ result' \in Data \cup {NULL}
        => TypeOK'
    BY <1>0 DEF TypeOK, Heaps, Heads
  <1>2. ASSUME NEW op \in {"set", "get", "delete", "move"}, NEW h \in Hashes, NEW l \in {0, 1}
        PROVE  Seek(op, h, l) \in SeekType
    <2>1. getLeaf(l, h) \in Leaves
      BY <1>2, LeafIs
    <2> QED  BY <1>0, <2>1, AddressAssumption DEF Seek, SeekType, TypeOK, Pointers
  <1>3. ASSUME NEW op \in {"map", "move"}
        PROVE  Walk(op) \in WalkType
    <2>1. FirstLeaf \in Leaves
      BY ByteAssumption DEF FirstLeaf, Leaves, Root
    <2>2. Stored \subseteq Hashes
      BY <1>0, LiveIs DEF Stored
    <2> QED  BY <1>0, <2>1, <2>2 DEF Walk, WalkType, TypeOK
  <1>4. ASSUME walk.op # "none", walk.currentItem # NULL
        PROVE  Visited \in WalkType
    <2>1. walk \in WalkType /\ walk.currentItem \in Live
      BY <1>0, <1>4, Ops, WalkPosition DEF InLeaf
    <2>2. heap[walk.currentItem] \in Item
      BY <1>0, <2>1, LiveIs
    <2> QED  BY <2>1, <2>2 DEF Visited, WalkType, Item
  <1>5. ASSUME seek.op # "none", ~AtEnd
        PROVE  seek \in SeekType /\ heap[seek.currentItem] \in Item
    BY <1>0, <1>5, Ops, SeekPosition, LiveIs DEF AtEnd, InLeaf
  <1>6. ASSUME NEW op \in {"set", "get", "delete"}, NEW h \in Hashes, Call(op, h)
        PROVE  TypeOK'
    <2>1. Seek(op, h, level) \in SeekType
      BY <1>0, <1>2 DEF TypeOK
    <2> QED  BY <1>0, <1>1, <1>6, <2>1 DEF Call, list, TypeOK
  <1>7. CASE mapList \/ reInitList
    <2>1. walk' \in WalkType /\ UNCHANGED <<level, seek, result>>
      BY <1>3, <1>7 DEF mapList, reInitList, list
    <2> QED  BY <1>0, <1>1, <2>1 DEF TypeOK
  <1>8. CASE freeList
    BY <1>0, <1>1, <1>8 DEF freeList, TypeOK
  <1>9. CASE seekNext
    <2>1. seek' \in SeekType
      BY <1>5, <1>9 DEF seekNext, SeekType, Item, Pointers, AtEnd
    <2> QED  BY <1>0, <1>1, <1>9, <2>1 DEF seekNext, list, TypeOK
  <1>10. CASE returnItem
    <2>1. result' \in Data \cup {NULL}
      BY <1>5, <1>10, AddressAssumption DEF returnItem, Found, Item, NoData
    <2> QED  BY <1>0, <1>1, <1>10, <2>1 DEF returnItem, list, TypeOK
  <1>11. CASE returnNull \/ deleteFound
    BY <1>0, <1>1, <1>11 DEF returnNull, deleteFound, deleteItem, list, TypeOK
  <1>12. CASE \E i \in Items, data \in Data : insertItem(i, data)
    BY <1>0, <1>1, <1>12 DEF insertItem, TypeOK
  <1>13. CASE mapKeep \/ mapDelete
    <2>1. walk' \in WalkType
      BY <1>4, <1>13 DEF mapKeep, mapDelete, Visiting
    <2> QED  BY <1>0, <1>1, <1>13, <2>1 DEF mapKeep, mapDelete, deleteItem, list, TypeOK
  <1>14. CASE mapBreak \/ mapEnd
    BY <1>0, <1>1, <1>14 DEF mapBreak, mapEnd, list, TypeOK
  <1>15. CASE mapLeaf
    <2>1. walk \in WalkType
      BY <1>0, <1>15, Ops DEF mapLeaf
    <2>2. walk.leaf + 1 \in Leaves
      BY <1>0, <1>15, <2>1, ByteAssumption DEF mapLeaf, LastLeaf, WalkType, Leaves, Root
    <2>3. walk' \in WalkType
      BY <1>0, <1>15, <2>1, <2>2 DEF mapLeaf, WalkType, TypeOK
    <2> QED  BY <1>0, <1>1, <1>15, <2>3 DEF mapLeaf, list, TypeOK
  <1>16. CASE moveSeek
    <2>1. heap[walk.currentItem].hash \in Hashes
      BY <1>0, <1>16, WalkPosition, LiveIs DEF moveSeek, Visiting, InLeaf
    <2>2. seek' \in SeekType
      BY <1>2, <1>16, <2>1 DEF moveSeek
    <2> QED  BY <1>0, <1>1, <1>16, <2>2 DEF moveSeek, list, TypeOK
  <1>17. CASE \E i \in Items : moveItem(i)
    <2>1. walk' \in WalkType
      BY <1>4, <1>17, SeekMove, Ops, <1>0, AddressAssumption DEF moveItem, InLeaf, Live
    <2> QED  BY <1>0, <1>1, <1>17, <2>1 DEF moveItem, TypeOK
  <1>18. CASE reInitEnd
    BY <1>0, <1>1, <1>18 DEF reInitEnd, TypeOK
  <1>19. CASE UNCHANGED vars
    BY <1>0, <1>1, <1>19 DEF vars, list, TypeOK
  <1> QED  BY <1>6, <1>7, <1>8, <1>9, <1>10, <1>11, <1>12, <1>13, <1>14, <1>15, <1>16, <1>17,
              <1>18, <1>19 DEF Next, Start, Run

(* A step leaves the items in their places. *)
LEMMA PlacedStep ==
    ASSUME IInv, [Next]_vars
    PROVE  Placed'
  <1>0. TypeOK /\ Placed /\ Seeking /\ Walking /\ Unique
    BY DEF IInv
  <1>1. ASSUME NEW i \in Items, NEW data \in Data, insertItem(i, data)
        PROVE  Placed'
    <2>1. /\ Live' = Live \cup {i} /\ SameBut(heap, heap', i) /\ i \notin Live
          /\ heap'[i] = NewItem(data) /\ UNCHANGED <<level, walk>>
      BY <1>1, InsertEffect DEF insertItem
    <2>2. /\ heap'[i].hash = seek.hash /\ heap'[i].leaf = seek.leaf
      BY <2>1 DEF NewItem
    <2>3. walk.op # "move" /\ seek.leaf = getLeaf(level, seek.hash)
      BY <1>0, <1>1, Ops DEF insertItem, Seeking, SeekLevel
    <2>4. \A j \in Live : heap'[j].hash = heap[j].hash /\ heap'[j].leaf = heap[j].leaf
      BY <2>1 DEF SameBut, Live
    <2> QED  BY <1>0, <2>1, <2>2, <2>3, <2>4 DEF Placed, Place
  <1>2. ASSUME NEW i \in Live, deleteItem(i), walk'.op = walk.op, walk.op # "move"
        PROVE  Placed'
    <2>1. Live' = Live \ {i} /\ SameBut(heap, heap', i) /\ UNCHANGED level
      BY <1>2, DeleteEffect DEF deleteItem
    <2>2. \A j \in Live' : heap'[j].hash = heap[j].hash /\ heap'[j].leaf = heap[j].leaf
      BY <2>1 DEF SameBut, Live
    <2> QED  BY <1>0, <1>2, <2>1, <2>2 DEF Placed, Place
  <1>3. CASE deleteFound
    <2>1. seek.currentItem \in Live /\ deleteItem(seek.currentItem) /\ UNCHANGED walk
      BY <1>3, SeekPosition DEF deleteFound, Found, AtEnd, InLeaf
    <2>2. walk.op # "move"
      BY <1>0, <1>3, Ops DEF deleteFound, Seeking
    <2> QED  BY <1>2, <2>1, <2>2
  <1>4. CASE mapDelete
    <2>1. walk.currentItem \in Live /\ deleteItem(walk.currentItem)
      BY <1>4, WalkPosition DEF mapDelete, Visiting, InLeaf
    <2>2. walk.op = "map" /\ walk'.op = "map"
      BY <1>0, <1>4, Ops DEF mapDelete, Visiting, Visited, WalkType
    <2> QED  BY <1>2, <2>1, <2>2
  <1>5. ASSUME NEW i \in Items, moveItem(i)
        PROVE  Placed'
    <2> DEFINE c == walk.currentItem
    <2>1. /\ i \notin Live /\ c \in Live /\ Live' = (Live \ {c}) \cup {i}
          /\ \A j \in Live \ {c} : heap'[j].hash = heap[j].hash /\ heap'[j].leaf = heap[j].leaf
          /\ heap'[i].hash = heap[c].hash /\ heap'[i].leaf = Byte[heap[c].hash]
      BY <1>5, MoveEffect
    <2>2. walk \in WalkType /\ walk.op = "move" /\ walk' = Visited
      BY <1>0, <1>5, SeekMove, Ops DEF moveItem
    <2>3. walk'.op = "move" /\ walk'.seen = walk.seen \cup {heap[c].hash}
      BY <2>2 DEF Visited, WalkType
    <2>4. \A j \in Live \ {c} : heap[j].hash # heap[c].hash
      BY <1>0, <2>1 DEF Unique
    <2> HIDE DEF c
    <2> QED  BY <1>0, <2>1, <2>2, <2>3, <2>4 DEF Placed, Place
  <1>6. CASE mapKeep
    <2>1. walk.op = "map" /\ walk'.op = "map" /\ UNCHANGED <<heap, level>>
      BY <1>0, <1>6, Ops DEF mapKeep, Visiting, Visited, WalkType, list
    <2> QED  BY <1>0, <2>1 DEF Placed, Place, Live
  <1>7. CASE mapLeaf
    <2>1. walk.op = "map" /\ walk'.op = "map" /\ UNCHANGED <<heap, level>>
      BY <1>0, <1>7, Ops DEF mapLeaf, WalkType, list
    <2> QED  BY <1>0, <2>1 DEF Placed, Place, Live
  <1>8. CASE mapList \/ mapBreak \/ mapEnd
    <2>1. walk.op # "move" /\ walk'.op # "move" /\ UNCHANGED <<heap, level>>
      BY <1>0, <1>8, Ops DEF mapList, mapBreak, mapEnd, Visiting, Walk, NotWalking, Idle, list
    <2> QED  BY <1>0, <2>1 DEF Placed, Place, Live
  <1>9. CASE reInitList
    <2>1. /\ walk.op # "move" /\ level = 0 /\ walk'.op = "move" /\ walk'.seen = {}
          /\ UNCHANGED <<heap, level>>
      BY <1>0, <1>9, Ops DEF reInitList, Walk, NotWalking, Idle, list
    <2>2. \A j \in Live : heap[j].leaf = Root
      BY <1>0, <2>1, LiveIs, LeafIs DEF Placed, Place
    <2> QED  BY <2>1, <2>2 DEF Placed, Place, Live
  <1>10. CASE reInitEnd
    <2>1. /\ walk.op = "move" /\ walk.currentItem = NULL /\ level' = 1 /\ walk'.op = "none"
          /\ UNCHANGED heap
      BY <1>10 DEF reInitEnd, NotWalking
    <2>2. level = 0 /\ walk.start = Stored /\ walk.leaf = Root
      <3>1. Root \in Nat
        BY ByteAssumption DEF Root
      <3> QED  BY <1>0, <2>1, <3>1 DEF Walking, FirstLeaf, LastLeaf
    <2>3. \A h \in Stored : h \in walk.seen
      BY <1>0, <2>1, <2>2, LiveIs, LeafIs DEF Walking, Behind, Stored
    <2>4. \A j \in Live : heap[j].leaf = Byte[heap[j].hash]
      BY <1>0, <2>1, <2>3, LiveIs DEF Placed, Place
    <2> QED  BY <1>0, <2>1, <2>4, LiveIs, LeafIs DEF Placed, Place, Live
  <1>11. CASE freeList
    <2>1. ASSUME NEW j \in Live
          PROVE  FALSE
      <3>1. heap[j].leaf \in Leaves /\ j \in InLeaf(heap[j].leaf)
        BY <1>0, LiveIs
      <3> QED  BY <1>11, <3>1, LeafOrdered DEF freeList, Ordered, IsHead
    <2> QED  BY <1>11, <2>1 DEF freeList, Placed, Live
  <1>12. CASE UNCHANGED <<heap, level, walk>>
    BY <1>0, <1>12 DEF Placed, Place, Live
  <1> QED  BY <1>1, <1>3, <1>4, <1>5, <1>6, <1>7, <1>8, <1>9, <1>10, <1>11, <1>12
           DEF Next, Start, Run, Call, seekNext, returnItem, returnNull, moveSeek, list, vars

(* A step leaves the loop of setHash and getHash between two neighbours. *)
LEMMA SeekingStep ==
    ASSUME IInv, [Next]_vars
    PROVE  Seeking'
  <1>0. TypeOK /\ Seeking /\ Walking
    BY DEF IInv
  <1>1. ASSUME NEW op \in {"set", "get", "delete"}, NEW h \in Hashes, Call(op, h)
        PROVE  Seeking'
    <2>1. /\ seek'.op = op /\ seek'.hash = h /\ seek'.leaf = getLeaf(level, h)
          /\ seek'.previousItem = NULL /\ seek'.currentItem = firstItem[getLeaf(level, h)]
          /\ walk' = NotWalking /\ UNCHANGED <<firstItem, level>>
      BY <1>1 DEF Call, Seek, Idle, list
    <2>2. firstItem'[seek'.leaf] = firstItem[getLeaf(level, h)] /\ SeekLevel' = level
      BY <1>1, <2>1 DEF SeekLevel
    <2> QED  BY <1>1, <2>1, <2>2 DEF Seeking
  <1>2. CASE moveSeek
    <2> DEFINE h == heap[walk.currentItem].hash
    <2>1. /\ seek'.op = "move" /\ seek'.hash = h /\ seek'.leaf = getLeaf(1, h)
          /\ seek'.previousItem = NULL /\ seek'.currentItem = firstItem[getLeaf(1, h)]
          /\ Visiting("move") /\ UNCHANGED <<heap, firstItem, level, walk>>
      BY <1>2 DEF moveSeek, Seek, list
    <2>2. Visiting("move")' /\ SeekLevel' = 1 /\ heap'[walk'.currentItem].hash = seek'.hash
      BY <2>1 DEF SeekLevel, Visiting
    <2> QED  BY <2>1, <2>2 DEF Seeking
  <1>3. CASE seekNext
    <2> DEFINE c == seek.currentItem
    <2>1. /\ seek.op # "none" /\ seek \in SeekType /\ c \in InLeaf(seek.leaf) /\ c # NULL
          /\ ~Found /\ ~Beyond
      BY <1>0, <1>3, Ops, SeekPosition DEF seekNext, AtEnd
    <2>2. heap[c].hash \in Nat /\ seek.hash \in Nat
      BY <1>0, <2>1, LiveIs, HashesAssumption DEF InLeaf, SeekType
    <2>3. heap[c].hash < seek.hash
      BY <2>1, <2>2 DEF Found, Beyond, AtEnd
    <2>4. /\ seek' = [seek EXCEPT !.previousItem = c, !.currentItem = heap[c].nextInLeaf]
          /\ UNCHANGED <<heap, firstItem, level, walk>>
      BY <1>3 DEF seekNext, list
    <2>5. /\ seek'.op = seek.op /\ seek'.hash = seek.hash /\ seek'.leaf = seek.leaf
          /\ seek'.previousItem = c /\ seek'.currentItem = heap[c].nextInLeaf
      BY <2>1, <2>4 DEF SeekType
    <2>6. InLeaf(seek.leaf)' = InLeaf(seek.leaf) /\ SeekLevel' = SeekLevel
      BY <2>4, <2>5 DEF InLeaf, Live, SeekLevel
    <2> HIDE DEF c
    <2>7. seek'.previousItem \in InLeaf(seek.leaf)'
      BY <2>1, <2>5, <2>6
    <2> QED  BY <1>0, <2>1, <2>3, <2>4, <2>5, <2>6, <2>7 DEF Seeking, Visiting
  <1>4. ASSUME seek'.op = "none"
        PROVE  Seeking'
    BY <1>4 DEF Seeking
  <1>5. CASE \/ returnItem \/ returnNull \/ deleteFound \/ (\E i \in Items : moveItem(i))
             \/ (\E i \in Items, data \in Data : insertItem(i, data))
    BY <1>4, <1>5 DEF returnItem, returnNull, deleteFound, moveItem, insertItem, NotSeeking
  <1>6. CASE mapList \/ reInitList \/ freeList
    BY <1>4, <1>6 DEF mapList, reInitList, freeList, Idle, NotSeeking
  <1>7. CASE mapKeep \/ mapDelete \/ mapBreak \/ mapLeaf \/ mapEnd
    <2>1. UNCHANGED seek /\ walk.op = "map"
      BY <1>7 DEF mapKeep, mapDelete, mapBreak, mapLeaf, mapEnd, Visiting
    <2> QED  BY <1>0, <1>4, <2>1 DEF Walking, NotSeeking
  <1>8. CASE reInitEnd
    <2>1. UNCHANGED seek /\ walk.op = "move" /\ walk.currentItem = NULL
      BY <1>8 DEF reInitEnd
    <2>2. seek.op = "none"
      BY <1>0, <2>1 DEF Seeking, Visiting, NotWalking
    <2> QED  BY <1>4, <2>1, <2>2
  <1>9. CASE UNCHANGED vars
    BY <1>0, <1>9 DEF Seeking, SeekLevel, Visiting, InLeaf, Live, list, vars
  <1> QED  BY <1>1, <1>2, <1>3, <1>5, <1>6, <1>7, <1>8, <1>9 DEF Next, Start, Run

(* A hash that a walk has yet to see has an item in its leaf. *)
LEMMA WalkAhead ==
    ASSUME IInv, walk.op # "none", NEW h \in walk.start \ walk.seen
    PROVE  \E j \in InLeaf(getLeaf(level, h)) : heap[j].hash = h
  <1>1. TypeOK /\ walk \in WalkType /\ Walking
    BY Ops DEF IInv
  <1>2. h \in Stored /\ h \in Hashes
    BY <1>1 DEF Walking, WalkType
  <1>3. Place(h) = getLeaf(level, h)
    BY <1>1, <1>2, LeafIs DEF Place, Walking
  <1> QED  BY <1>2, <1>3, StoredIs

(* The item after the current one is the first one that the walk has not    *)
(* seen when it has seen the current one.                                   *)
LEMMA WalkNext ==
    ASSUME IInv, walk.op # "none", walk.currentItem # NULL
    PROVE  LET c == walk.currentItem
               n == heap[c].nextInLeaf
           IN
           /\ n # NULL => n \in InLeaf(walk.leaf) /\ n \in Live /\ n # c
           /\ \A h \in walk.start :
                \/ getLeaf(level, h) < walk.leaf
                \/ getLeaf(level, h) = walk.leaf /\ (n # NULL => h < heap[n].hash)
                <=> h \in walk.seen \cup {heap[c].hash}
  <1> DEFINE c == walk.currentItem
             n == heap[c].nextInLeaf
             g == heap[c].hash
             S == InLeaf(walk.leaf)
  <1>1. TypeOK /\ walk \in WalkType /\ Walking
    BY Ops DEF IInv
  <1>2. c \in S /\ walk.leaf \in Leaves /\ walk.leaf \in Nat /\ getLeaf(level, g) = walk.leaf
    BY WalkPosition, ByteAssumption DEF Leaves
  <1>3. IsNext(heap, S, g, n) /\ S \subseteq Live
    BY <1>2, LeafOrdered DEF Ordered
  <1>4. g \in Nat /\ \A j \in S : heap[j].hash \in Nat
    BY <1>1, <1>2, <1>3, LiveIs
  <1>5. n # NULL => n \in S /\ n \in Live /\ n # c /\ g < heap[n].hash
    BY <1>3, <1>4 DEF IsNext
  <1>6. ASSUME NEW h \in walk.start
        PROVE  \/ getLeaf(level, h) < walk.leaf
               \/ getLeaf(level, h) = walk.leaf /\ (n # NULL => h < heap[n].hash)
               <=> h \in walk.seen \cup {g}
    <2>1. h \in Nat /\ (h \in walk.seen <=> Behind(h)) /\ getLeaf(level, h) \in Nat
      <3>1. h \in Hashes
        BY <1>1 DEF WalkType
      <3> QED  BY <1>1, <3>1, HashesAssumption, ByteAssumption DEF Walking, getLeaf, Root
    <2>2. CASE getLeaf(level, h) # walk.leaf
      BY <1>2, <2>1, <2>2 DEF Behind
    <2>3. CASE getLeaf(level, h) = walk.leaf
      <3>1. h \in walk.seen <=> h < g
        BY <1>2, <2>1, <2>3 DEF Behind
      <3>2. ASSUME g < h
            PROVE  n # NULL /\ heap[n].hash <= h
        <4>1. h \notin walk.seen
          BY <1>4, <2>1, <3>1, <3>2
        <4>2. PICK j \in S : heap[j].hash = h
          BY <2>3, <4>1, WalkAhead
        <4> QED  BY <1>3, <3>2, <4>2 DEF IsNext
      <3>3. n # NULL => heap[n].hash \in Nat
        BY <1>4, <1>5
      <3> HIDE DEF c, n, g, S
      <3> QED  BY <1>2, <1>4, <1>5, <2>1, <2>3, <3>1, <3>2, <3>3
    <2> QED  BY <2>2, <2>3
  <1> QED  BY <1>5, <1>6

(* A visit moves the walk to the next item, with the list that the callback *)
(* leaves.                                                                  *)
LEMMA VisitStep ==
    ASSUME IInv, walk.op # "none", walk.currentItem # NULL, walk' = Visited,
           level' = level, seek' = NotSeeking,
           \A j \in Live \ {walk.currentItem} :
                /\ j \in Live'
                /\ heap'[j].hash = heap[j].hash /\ heap'[j].leaf = heap[j].leaf,
           \/ Stored' = Stored
           \/ Stored' = Stored \ {heap[walk.currentItem].hash} /\ walk.op = "map"
    PROVE  Walking'
  <1> DEFINE c == walk.currentItem
             n == heap[c].nextInLeaf
             g == heap[c].hash
  <1>1. TypeOK /\ walk \in WalkType /\ Walking
    BY Ops DEF IInv
  <1>2. /\ walk'.op = walk.op /\ walk'.leaf = walk.leaf /\ walk'.start = walk.start
        /\ walk'.currentItem = n /\ walk'.seen = walk.seen \cup {g}
    BY <1>1 DEF Visited, WalkType
  <1>3. n # NULL => n \in InLeaf(walk.leaf) /\ n \in Live /\ n # c
    BY WalkNext
  <1>4. n # NULL => /\ n \in Live' /\ heap'[n].hash = heap[n].hash
                    /\ heap'[n].leaf = walk.leaf
    BY <1>3 DEF InLeaf
  <1>5. \A h \in walk.start : Behind(h)' <=> h \in walk.seen \cup {g}
    <2>1. \A h \in walk.start :
            \/ getLeaf(level, h) < walk.leaf
            \/ getLeaf(level, h) = walk.leaf /\ (n # NULL => h < heap[n].hash)
            <=> h \in walk.seen \cup {g}
      BY WalkNext
    <2>2. ASSUME NEW h
          PROVE  Behind(h)' <=>
                   \/ getLeaf(level, h) < walk.leaf
                   \/ getLeaf(level, h) = walk.leaf /\ (n # NULL => h < heap[n].hash)
      BY <1>2, <1>4 DEF Behind
    <2> QED  BY <2>1, <2>2
  <1>6. g \in walk.start
    BY WalkPosition
  <1>7. walk.seen \subseteq walk.start
    BY <1>1 DEF Walking
  <1>8. walk'.seen = {h \in walk'.start : Behind(h)'}
    BY <1>2, <1>5, <1>6, <1>7
  <1>9. walk'.leaf \in FirstLeaf' .. LastLeaf'
    BY <1>1, <1>2 DEF Walking, FirstLeaf, LastLeaf
  <1>10. walk'.currentItem # NULL => walk'.currentItem \in {i \in Live' : heap'[i].leaf = walk'.leaf}
    BY <1>2, <1>4
  <1>11. walk'.start \ walk'.seen \subseteq Stored' /\ Stored' \subseteq walk'.start
    BY <1>1, <1>2 DEF Walking
  <1>12. walk'.op = "move" => level' = 0 /\ walk'.start = Stored'
    BY <1>1, <1>2 DEF Walking
  <1> HIDE DEF c, n, g
  <1> QED  BY <1>8, <1>9, <1>10, <1>11, <1>12 DEF Walking, InLeaf

(* A walk that begins has nothing behind it. *)
LEMMA WalkStart ==
    ASSUME IInv, Idle, NEW op \in {"map", "move"}, op = "move" => level = 0,
           walk' = Walk(op), UNCHANGED <<list, seek>>
    PROVE  Walking'
  <1> DEFINE f == firstItem[FirstLeaf]
  <1>1. TypeOK /\ walk.op = "none"
    BY Ops DEF IInv, Idle
  <1>2. /\ walk'.op = op /\ walk'.leaf = FirstLeaf /\ walk'.currentItem = f
        /\ walk'.start = Stored /\ walk'.seen = {} /\ UNCHANGED <<heap, level>>
    BY DEF Walk, list
  <1>3. /\ FirstLeaf \in Leaves /\ FirstLeaf \in Nat /\ LastLeaf \in Nat /\ FirstLeaf <= LastLeaf
    BY <1>1, ByteAssumption DEF FirstLeaf, LastLeaf, Leaves, Root, TypeOK
  <1>4. Ordered(heap, InLeaf(FirstLeaf), f) /\ InLeaf(FirstLeaf) \subseteq Live
    BY <1>3, LeafOrdered
  <1>5. ASSUME NEW h \in Stored
        PROVE  ~Behind(h)'
    <2>1. PICK j \in InLeaf(getLeaf(level, h)) : j \in Live /\ heap[j].hash = h
      BY <1>1, StoredIs DEF Place
    <2>2. h \in Hashes /\ h \in Nat
      BY <1>1, <2>1, LiveIs
    <2>3. getLeaf(level, h) \in Nat /\ getLeaf(level, h) >= FirstLeaf
      BY <1>1, <2>2, ByteAssumption DEF getLeaf, FirstLeaf, Root, TypeOK
    <2>4. getLeaf(level, h) = FirstLeaf => f # NULL /\ heap[f].hash <= h
      BY <1>4, <2>1 DEF Ordered, IsHead
    <2>5. f # NULL => f \in Live /\ heap[f].hash \in Nat
      BY <1>1, <1>4, LiveIs DEF Ordered, IsHead
    <2>6. Behind(h)' <=>
            \/ getLeaf(level, h) < FirstLeaf
            \/ getLeaf(level, h) = FirstLeaf /\ (f # NULL => h < heap[f].hash)
      BY <1>2 DEF Behind
    <2> HIDE DEF f
    <2> QED  BY <1>3, <2>2, <2>3, <2>4, <2>5, <2>6
  <1>6. f # NULL => f \in InLeaf(FirstLeaf)
    BY <1>4 DEF Ordered, IsHead
  <1>7. Stored' = Stored /\ FirstLeaf' = FirstLeaf /\ LastLeaf' = LastLeaf
        /\ InLeaf(walk.leaf)' = {i \in Live : heap[i].leaf = FirstLeaf}
    BY <1>2 DEF Stored, Live, FirstLeaf, LastLeaf, InLeaf
  <1>8. seek' = NotSeeking
    BY DEF Idle
  <1> HIDE DEF f
  <1> QED  BY <1>2, <1>3, <1>5, <1>6, <1>7, <1>8 DEF Walking, InLeaf

(* A walk that goes on to the next leaf has seen the leaf it comes from.    *)
LEMMA LeafStep ==
    ASSUME IInv, mapLeaf
    PROVE  Walking'
  <1> DEFINE l == walk.leaf + 1
             f == firstItem[l]
  <1>1. TypeOK /\ walk \in WalkType /\ Walking /\ walk.op = "map" /\ seek = NotSeeking
    BY Ops DEF IInv, mapLeaf, Walking
  <1>2. /\ walk'.op = "map" /\ walk'.leaf = l /\ walk'.currentItem = f
        /\ walk'.start = walk.start /\ walk'.seen = walk.seen /\ UNCHANGED <<list, seek>>
        /\ walk.currentItem = NULL /\ walk.leaf < LastLeaf
    BY <1>1 DEF mapLeaf, WalkType
  <1>3. l \in Leaves /\ walk.leaf \in Nat /\ l \in FirstLeaf .. LastLeaf
    BY <1>1, <1>2, ByteAssumption DEF Walking, FirstLeaf, LastLeaf, Leaves, Root, TypeOK, WalkType
  <1>4. Ordered(heap, InLeaf(l), f) /\ InLeaf(l) \subseteq Live
    BY <1>3, LeafOrdered
  <1>5. ASSUME NEW h \in walk.start
        PROVE  Behind(h)' <=> Behind(h)
    <2>1. h \in Hashes /\ h \in Nat /\ getLeaf(level, h) \in Nat
      <3>1. h \in Hashes
        BY <1>1 DEF WalkType
      <3> QED  BY <3>1, HashesAssumption, ByteAssumption DEF getLeaf, Root
    <2>2. Behind(h) <=> getLeaf(level, h) <= walk.leaf
      BY <1>2, <1>3, <2>1 DEF Behind
    <2>3. ASSUME getLeaf(level, h) = l
          PROVE  f # NULL /\ heap[f].hash <= h
      <3>1. h \notin walk.seen
        BY <1>1, <1>3, <2>2, <2>3 DEF Walking
      <3>2. PICK j \in InLeaf(l) : heap[j].hash = h
        BY <1>1, <2>3, <3>1, WalkAhead
      <3> QED  BY <1>4, <3>2 DEF Ordered, IsHead
    <2>4. f # NULL => heap[f].hash \in Nat
      BY <1>1, <1>4, LiveIs DEF Ordered, IsHead
    <2>5. Behind(h)' <=>
            \/ getLeaf(level, h) < l
            \/ getLeaf(level, h) = l /\ (f # NULL => h < heap[f].hash)
      BY <1>2 DEF Behind, list
    <2> HIDE DEF f
    <2> QED  BY <1>3, <2>1, <2>2, <2>3, <2>4, <2>5
  <1>6. f # NULL => f \in InLeaf(l)
    BY <1>4 DEF Ordered, IsHead
  <1>7. Stored' = Stored /\ FirstLeaf' = FirstLeaf /\ LastLeaf' = LastLeaf
    BY <1>2 DEF Stored, Live, FirstLeaf, LastLeaf, list
  <1>8. walk'.currentItem # NULL => walk'.currentItem \in {i \in Live' : heap'[i].leaf = walk'.leaf}
    BY <1>2, <1>6 DEF InLeaf, Live, list
  <1>9. walk'.seen = {h \in walk'.start : Behind(h)'}
    BY <1>1, <1>2, <1>5 DEF Walking
  <1> HIDE DEF l, f
  <1> QED  BY <1>1, <1>2, <1>3, <1>7, <1>8, <1>9 DEF Walking, InLeaf

(* A step leaves the walk between what it has seen and the rest. *)
LEMMA WalkingStep ==
    ASSUME IInv, [Next]_vars
    PROVE  Walking'
  <1>0. TypeOK /\ Seeking /\ Walking
    BY DEF IInv
  <1>1. ASSUME walk'.op = "none"
        PROVE  Walking'
    BY <1>1 DEF Walking
  <1>2. CASE mapList
    BY <1>2, WalkStart DEF mapList
  <1>3. CASE reInitList
    BY <1>3, WalkStart DEF reInitList
  <1>4. CASE mapKeep
    <2>1. /\ walk.op # "none" /\ walk.currentItem # NULL /\ walk' = Visited
          /\ level' = level /\ UNCHANGED <<heap, seek>> /\ seek = NotSeeking
      BY <1>0, <1>4 DEF mapKeep, Visiting, list, Walking
    <2>2. \/ Stored' = Stored
          \/ Stored' = Stored \ {heap[walk.currentItem].hash} /\ walk.op = "map"
      BY <2>1 DEF Live, Stored
    <2>3. \A j \in Live \ {walk.currentItem} :
            j \in Live' /\ heap'[j].hash = heap[j].hash /\ heap'[j].leaf = heap[j].leaf
      BY <2>1 DEF Live
    <2> QED  BY <2>1, <2>2, <2>3, VisitStep
  <1>5. CASE mapDelete
    <2> DEFINE c == walk.currentItem
    <2>1. /\ walk.op = "map" /\ c # NULL /\ walk' = Visited /\ deleteItem(c)
          /\ level' = level /\ seek' = NotSeeking
      BY <1>0, <1>5 DEF mapDelete, Visiting, deleteItem, Walking
    <2>2. c \in Live
      BY <2>1, WalkPosition DEF InLeaf
    <2>3. Live' = Live \ {c} /\ SameBut(heap, heap', c) /\ Stored' = Stored \ {heap[c].hash}
      BY <2>1, <2>2, DeleteEffect
    <2>4. \A j \in Live \ {c} : /\ j \in Live' /\ heap'[j].hash = heap[j].hash
                                /\ heap'[j].leaf = heap[j].leaf
      BY <2>3 DEF SameBut, Live
    <2> QED  BY <2>1, <2>3, <2>4, VisitStep
  <1>6. CASE mapLeaf
    BY <1>6, LeafStep
  <1>7. ASSUME NEW i \in Items, moveItem(i)
        PROVE  Walking'
    <2> DEFINE c == walk.currentItem
    <2>1. /\ walk.op = "move" /\ c \in Live /\ c # NULL /\ walk' = Visited
          /\ level' = level /\ seek' = NotSeeking
      BY <1>0, <1>7, SeekMove, LiveIs DEF moveItem, InLeaf
    <2>2. /\ Live' = (Live \ {c}) \cup {i} /\ Stored' = Stored
          /\ \A j \in Live \ {c} : heap'[j].hash = heap[j].hash /\ heap'[j].leaf = heap[j].leaf
      BY <1>7, MoveEffect
    <2>3. \A j \in Live \ {c} : /\ j \in Live' /\ heap'[j].hash = heap[j].hash
                                /\ heap'[j].leaf = heap[j].leaf
      BY <2>2
    <2> QED  BY <2>1, <2>2, <2>3, VisitStep
  <1>8. CASE mapBreak \/ mapEnd \/ reInitEnd
    BY <1>1, <1>8 DEF mapBreak, mapEnd, reInitEnd, NotWalking
  <1>9. ASSUME NEW op \in {"set", "get", "delete"}, NEW h \in Hashes, Call(op, h)
        PROVE  Walking'
    BY <1>1, <1>9 DEF Call, Idle, NotWalking
  <1>10. CASE freeList
    BY <1>1, <1>10 DEF freeList, Idle, NotWalking
  <1>11. CASE \/ returnItem \/ returnNull \/ deleteFound
              \/ (\E i \in Items, data \in Data : insertItem(i, data))
    <2>1. UNCHANGED walk /\ seek.op \in {"set", "get", "delete"}
      BY <1>11 DEF returnItem, returnNull, deleteFound, insertItem
    <2>2. walk = NotWalking
      BY <1>0, <2>1 DEF Seeking
    <2> QED  BY <1>1, <2>1, <2>2 DEF NotWalking
  <1>12. CASE seekNext \/ moveSeek
    <2>1. walk.op # "map" /\ UNCHANGED <<list, walk>>
      BY <1>0, <1>12 DEF seekNext, moveSeek, Visiting, Walking, NotSeeking
    <2> QED  BY <1>0, <2>1 DEF Walking, Behind, FirstLeaf, LastLeaf, InLeaf, Stored, Live, list
  <1>13. CASE UNCHANGED vars
    BY <1>0, <1>13
       DEF Walking, Behind, FirstLeaf, LastLeaf, InLeaf, Stored, Live, list, vars
  <1> QED  BY <1>2, <1>3, <1>4, <1>5, <1>6, <1>7, <1>8, <1>9, <1>10, <1>11, <1>12, <1>13
           DEF Next, Start, Run

(* The invariant holds in every state. *)
THEOREM Invariance == Spec => []IInv
  <1>1. Init => IInv
    BY IInvInit
  <1>2. IInv /\ [Next]_vars => IInv'
    <2> SUFFICES ASSUME IInv, [Next]_vars PROVE IInv'
      OBVIOUS
    <2>1. TypeOK' /\ Placed' /\ Seeking' /\ Walking'
      BY TypeStep, PlacedStep, SeekingStep, WalkingStep
    <2>2. Sorted(heap, firstItem)' /\ DataOwned' /\ Unique'
      BY WellFormedStep DEF WellFormed
    <2> QED  BY <2>1, <2>2 DEF IInv
  <1> QED  BY <1>1, <1>2, PTL DEF Spec

(* Every variable keeps its type, every leaf its range. *)
THEOREM TypeCorrect == Spec => []TypeOK
  <1>1. IInv => TypeOK
    BY DEF IInv
  <1> QED  BY <1>1, Invariance, PTL

(* In every leaf the items are linked in both directions in the order of    *)
(* their hashes, and every item is reached from the head of its leaf.       *)
THEOREM LinkedCorrect == Spec => []LinkedInOrder
  <1>1. IInv => LinkedInOrder
    BY LinkedIs DEF IInv
  <1> QED  BY <1>1, Invariance, PTL

(* The data of every item is allocated, is that item's alone, and nothing   *)
(* else is allocated.                                                       *)
THEOREM DataCorrect == Spec => []DataOwned
  <1>1. IInv => DataOwned
    BY DEF IInv
  <1> QED  BY <1>1, Invariance, PTL

(* A walk at the end of the last leaf has seen all.                         *)
LEMMA WalkEnd ==
    ASSUME IInv, walk.op # "none", walk.currentItem = NULL, walk.leaf = LastLeaf
    PROVE  walk.seen = walk.start
  <1>0. TypeOK /\ Walking
    BY DEF IInv
  <1>1. walk \in WalkType
    BY <1>0, Ops
  <1>2. \A h \in walk.start : getLeaf(level, h) <= LastLeaf /\ getLeaf(level, h) \in Nat
    BY <1>0, <1>1, ByteAssumption DEF WalkType, getLeaf, LastLeaf, Root, TypeOK
  <1>3. LastLeaf \in Nat
    BY ByteAssumption DEF LastLeaf, Root
  <1>4. \A h \in walk.start : Behind(h)
    BY <1>2, <1>3 DEF Behind
  <1> QED  BY <1>0, <1>4 DEF Walking

(* A walk visits every item that was there when it began, once; the walk of *)
(* reInitList leaves the old list empty and meets no hash twice.            *)
THEOREM WalkCorrect == Spec => []WalkVisitsAll
  <1>1. ASSUME IInv
        PROVE  WalkVisitsAll
    <2>0. TypeOK /\ Walking
      BY <1>1 DEF IInv
    <2>1. walk.op # "none" /\ walk.currentItem # NULL =>
            walk.currentItem \in Live /\ heap[walk.currentItem].hash \in walk.start \ walk.seen
      BY <1>1, WalkPosition DEF InLeaf
    <2>2. ASSUME walk.op # "none", walk.currentItem = NULL, walk.leaf = LastLeaf
          PROVE  walk.seen = walk.start
      BY <1>1, <2>2, WalkEnd
    <2>3. ASSUME walk.op = "move", walk.currentItem = NULL
          PROVE  firstItem[Root] = NULL
      <3>1. level = 0 /\ Root \in Nat
        BY <2>0, <2>3, ByteAssumption DEF Walking, Root
      <3>2. walk.leaf = LastLeaf
        BY <2>0, <2>3, <3>1 DEF Walking, FirstLeaf, LastLeaf
      <3>3. walk.seen = Stored
        BY <2>0, <2>2, <2>3, <3>2 DEF Walking
      <3>4. \A j \in Live : heap[j].leaf # Root
        BY <1>1, <2>0, <2>3, <3>3, LiveIs, LeafIs DEF IInv, Placed, Place
      <3>5. Root \in Leaves
        BY <3>1 DEF Leaves
      <3> QED  BY <1>1, <3>4, <3>5, LeafOrdered DEF Ordered, IsHead, InLeaf
    <2>4. seek.op = "move" => ~Found
      <3>1. ASSUME seek.op = "move", Found
            PROVE  FALSE
        <4>1. seek.currentItem \in InLeaf(seek.leaf) /\ heap[seek.currentItem].hash = seek.hash
          BY <1>1, <3>1, SeekPosition DEF Found, AtEnd
        <4> QED  BY <1>1, <3>1, <4>1, SeekMove
      <3> QED  BY <3>1
    <2> QED  BY <2>1, <2>2, <2>3, <2>4 DEF WalkVisitsAll
  <1> QED  BY <1>1, Invariance, PTL

-----------------------------------------------------------------------------
(* The lists implement the map *)

(* The contents of a heap hp *)
LiveOf(hp) == {i \in Items : hp[i] # Free}
ContentsOf(hp) ==
    [h \in Hashes |->
        IF h \in {hp[i].hash : i \in LiveOf(hp)}
        THEN hp[CHOOSE i \in LiveOf(hp) : hp[i].hash = h].data
        ELSE NoData]

(* The contents of a hash are the data of its one item, if it has one. *)
LEMMA ContentsOfIs ==
    ASSUME NEW hp, \A i, j \in LiveOf(hp) : hp[i].hash = hp[j].hash => i = j
    PROVE  /\ \A i \in LiveOf(hp) :
                hp[i].hash \in Hashes => ContentsOf(hp)[hp[i].hash] = hp[i].data
           /\ \A h \in Hashes : h \notin {hp[i].hash : i \in LiveOf(hp)} =>
                ContentsOf(hp)[h] = NoData
  <1>1. ASSUME NEW i \in LiveOf(hp)
        PROVE  (CHOOSE j \in LiveOf(hp) : hp[j].hash = hp[i].hash) = i
    <2> DEFINE k == CHOOSE j \in LiveOf(hp) : hp[j].hash = hp[i].hash
    <2>1. k \in LiveOf(hp) /\ hp[k].hash = hp[i].hash
      OBVIOUS
    <2> HIDE DEF k
    <2>2. k = i
      BY <2>1
    <2> QED  BY <2>2 DEF k
  <1> QED  BY <1>1 DEF ContentsOf

(* What the map has for a hash, now and after a step *)
LEMMA ContentsIs ==
    ASSUME IInv, WellFormed'
    PROVE  /\ Contents = [h \in Hashes |-> Contents[h]]
           /\ Contents' = [h \in Hashes |-> Contents'[h]]
           /\ \A i \in Live : heap[i].hash \in Hashes /\ Contents[heap[i].hash] = heap[i].data
           /\ \A i \in Live' : heap'[i].hash \in Hashes => Contents'[heap'[i].hash] = heap'[i].data
           /\ \A h \in Hashes \ Stored : Contents[h] = NoData
           /\ \A h \in Hashes \ Stored' : Contents'[h] = NoData
  <1>1. /\ Live = LiveOf(heap) /\ Live' = LiveOf(heap')
        /\ Stored = {heap[i].hash : i \in LiveOf(heap)}
        /\ Stored' = {heap'[i].hash : i \in LiveOf(heap')}
    BY DEF Live, Stored, LiveOf
  <1>2. Contents = ContentsOf(heap) /\ Contents' = ContentsOf(heap')
    BY DEF Contents, ContentsOf, Live, Stored, LiveOf
  <1>3. /\ \A i, j \in LiveOf(heap) : heap[i].hash = heap[j].hash => i = j
        /\ \A i, j \in LiveOf(heap') : heap'[i].hash = heap'[j].hash => i = j
    BY <1>1 DEF IInv, WellFormed, Unique
  <1>4. \A i \in Live : heap[i].hash \in Hashes
    BY LiveIs DEF IInv
  <1>5. /\ \A i \in LiveOf(heap) :
             heap[i].hash \in Hashes => ContentsOf(heap)[heap[i].hash] = heap[i].data
        /\ \A h \in Hashes : h \notin {heap[i].hash : i \in LiveOf(heap)} =>
             ContentsOf(heap)[h] = NoData
    BY <1>3, ContentsOfIs
  <1>6. /\ \A i \in LiveOf(heap') :
             heap'[i].hash \in Hashes => ContentsOf(heap')[heap'[i].hash] = heap'[i].data
        /\ \A h \in Hashes : h \notin {heap'[i].hash : i \in LiveOf(heap')} =>
             ContentsOf(heap')[h] = NoData
    BY <1>3, ContentsOfIs
  <1>7. Contents = [h \in Hashes |-> Contents[h]] /\ Contents' = [h \in Hashes |-> Contents'[h]]
    BY <1>2 DEF ContentsOf
  <1> QED  BY <1>1, <1>2, <1>4, <1>5, <1>6, <1>7

(* What a step does to a hash whose item, if any, keeps its data *)
LEMMA ContentsKept ==
    ASSUME IInv, WellFormed', NEW h \in Hashes, h \in Stored <=> h \in Stored',
           \A j \in Live : heap[j].hash = h =>
                \E k \in Live' : heap'[k].hash = h /\ heap'[k].data = heap[j].data
    PROVE  Contents'[h] = Contents[h]
  <1>1. CASE h \in Stored
    <2>1. PICK j \in Live : heap[j].hash = h
      BY <1>1 DEF Stored
    <2>2. PICK k \in Live' : heap'[k].hash = h /\ heap'[k].data = heap[j].data
      BY <2>1
    <2> QED  BY <2>1, <2>2, ContentsIs
  <1>2. CASE h \notin Stored
    BY <1>2, ContentsIs
  <1> QED  BY <1>1, <1>2

(* The hashes that are present in the map are those of the items. *)
LEMMA PresentIs ==
    ASSUME IInv
    PROVE  Map!Present = Stored
  <1>1. Stored \subseteq Hashes /\ \A i, j \in LiveOf(heap) : heap[i].hash = heap[j].hash => i = j
    BY LiveIs DEF IInv, Stored, Unique, Live, LiveOf
  <1>2. Contents = ContentsOf(heap)
    BY DEF Contents, ContentsOf, Live, Stored, LiveOf
  <1>3. /\ \A i \in LiveOf(heap) :
             heap[i].hash \in Hashes => ContentsOf(heap)[heap[i].hash] = heap[i].data
        /\ \A h \in Hashes : h \notin {heap[i].hash : i \in LiveOf(heap)} =>
             ContentsOf(heap)[h] = NoData
    BY <1>1, ContentsOfIs
  <1>4. \A i \in Live : heap[i].data \in Data /\ heap[i].data # NoData
    BY AddressAssumption DEF IInv, TypeOK, DataOwned, NoData
  <1>5. ASSUME NEW h \in Stored
        PROVE  Contents[h] # NoData
    <2>1. PICK i \in Live : heap[i].hash = h
      BY DEF Stored
    <2> QED  BY <1>1, <1>2, <1>3, <1>4, <2>1 DEF Live, LiveOf
  <1>6. \A h \in Hashes \ Stored : Contents[h] = NoData
    BY <1>2, <1>3 DEF Stored, Live, LiveOf
  <1> QED  BY <1>1, <1>5, <1>6 DEF Map!Present

(* deleteItem removes a hash from the map. *)
LEMMA RefineDelete ==
    ASSUME IInv, NEW i \in Live, deleteItem(i)
    PROVE  /\ heap[i].hash \in Hashes
           /\ Contents' = [Contents EXCEPT ![heap[i].hash] = NoData]
  <1> DEFINE g == heap[i].hash
  <1>1. /\ WellFormed' /\ Live' = Live \ {i} /\ Stored' = Stored \ {g}
        /\ \A j \in Live' : heap'[j].hash = heap[j].hash /\ heap'[j].data = heap[j].data
    BY DeleteEffect DEF SameBut, Live
  <1>2. g \in Hashes /\ Contents[g] = heap[i].data /\ Contents'[g] = NoData
    BY <1>1, ContentsIs
  <1>3. \A h \in Hashes : h # g => Contents'[h] = Contents[h]
    BY <1>1, ContentsKept
  <1>4. Contents' = [Contents EXCEPT ![g] = NoData]
    <2>1. Contents = [h \in Hashes |-> Contents[h]] /\ Contents' = [h \in Hashes |-> Contents'[h]]
      BY <1>1, ContentsIs
    <2> HIDE DEF g
    <2> QED  BY <1>2, <1>3, <2>1
  <1> QED  BY <1>2, <1>4

(* setHash of a new hash puts data into the map that no hash has. *)
LEMMA RefineInsert ==
    ASSUME IInv, NEW i \in Items, NEW data \in Data, insertItem(i, data)
    PROVE  /\ seek.hash \in Hashes /\ \A h \in Hashes : Contents[h] # data
           /\ Contents' = [Contents EXCEPT ![seek.hash] = data]
  <1> DEFINE g == seek.hash
  <1>1. /\ WellFormed' /\ i \notin Live /\ Live' = Live \cup {i} /\ SameBut(heap, heap', i)
        /\ heap'[i] = NewItem(data) /\ g \in Hashes \ Stored /\ Stored' = Stored \cup {g}
    BY InsertEffect
  <1>2. /\ \A j \in Live : heap'[j].hash = heap[j].hash /\ heap'[j].data = heap[j].data
        /\ heap'[i].hash = g /\ heap'[i].data = data
    BY <1>1 DEF SameBut, Live, NewItem
  <1>3. Contents[g] = NoData /\ Contents'[g] = data
    BY <1>1, <1>2, ContentsIs
  <1>4. ASSUME NEW h \in Hashes
        PROVE  Contents[h] # data
    <2>1. data \notin allocated /\ data # NoData
      BY AddressAssumption DEF insertItem, NoData
    <2>2. CASE h \in Stored
      <3>1. PICK j \in Live : heap[j].hash = h
        BY <2>2 DEF Stored
      <3>2. heap[j].data \in allocated
        BY DEF IInv, DataOwned
      <3> QED  BY <1>1, <2>1, <3>1, <3>2, ContentsIs
    <2>3. CASE h \notin Stored
      BY <1>1, <2>1, <2>3, ContentsIs
    <2> QED  BY <2>2, <2>3
  <1>5. \A h \in Hashes : h # g => Contents'[h] = Contents[h]
    BY <1>1, <1>2, ContentsKept
  <1>6. Contents' = [Contents EXCEPT ![g] = data]
    <2>1. Contents = [h \in Hashes |-> Contents[h]] /\ Contents' = [h \in Hashes |-> Contents'[h]]
      BY <1>1, ContentsIs
    <2> HIDE DEF g
    <2> QED  BY <1>1, <1>3, <1>5, <2>1
  <1> QED  BY <1>1, <1>4, <1>6

(* The callback of reInitList changes nothing. *)
LEMMA RefineMove ==
    ASSUME IInv, NEW i \in Items, moveItem(i)
    PROVE  UNCHANGED <<Contents, result>>
  <1> DEFINE c == walk.currentItem
  <1>1. /\ WellFormed' /\ c \in Live /\ Live' = (Live \ {c}) \cup {i} /\ Stored' = Stored
        /\ \A j \in Live \ {c} : heap'[j].hash = heap[j].hash /\ heap'[j].data = heap[j].data
        /\ heap'[i].hash = heap[c].hash /\ heap'[i].data = heap[c].data
    BY MoveEffect
  <1> HIDE DEF c
  <1>2. \A j \in Live : \E k \in Live' :
            heap'[k].hash = heap[j].hash /\ heap'[k].data = heap[j].data
    <2>1. ASSUME NEW j \in Live
          PROVE  \E k \in Live' : heap'[k].hash = heap[j].hash /\ heap'[k].data = heap[j].data
      <3>1. CASE j = c
        <4>1. i \in Live'
          BY <1>1
        <4> QED  BY <1>1, <3>1, <4>1
      <3>2. CASE j # c
        <4>1. j \in Live'
          BY <1>1, <3>2
        <4> QED  BY <1>1, <3>2, <4>1
      <3> QED  BY <3>1, <3>2
    <2> QED  BY <2>1
  <1>3. \A h \in Hashes : Contents'[h] = Contents[h]
    BY <1>1, <1>2, ContentsKept
  <1>4. Contents' = Contents
    <2>1. Contents = [h \in Hashes |-> Contents[h]] /\ Contents' = [h \in Hashes |-> Contents'[h]]
      BY <1>1, ContentsIs
    <2> QED  BY <1>3, <2>1
  <1> QED  BY <1>4 DEF moveItem

(* Steps that leave the items alone leave the map alone. *)
LEMMA SameContents ==
    ASSUME UNCHANGED heap
    PROVE  Contents' = Contents
  BY DEF Contents, Stored, Live

(* Calls of setHash, getHash and deleteItem begin, look and return as the   *)
(* map does, for the hash that they were called with.                       *)
LEMMA RefineSeek ==
    ASSUME IInv,
           \/ \E op \in {"set", "get", "delete"}, hash \in Hashes : Call(op, hash)
           \/ returnItem \/ returnNull \/ deleteFound
           \/ \E i \in Items, data \in Data : insertItem(i, data)
    PROVE  Map!MapNext
  <1>0. TypeOK /\ Map!Present = Stored /\ WellFormed'
    <2>1. [Next]_vars
      BY DEF Next, Start, Run
    <2> QED  BY <2>1, PresentIs, WellFormedStep DEF IInv
  <1>1. ASSUME seek' = NotSeeking, walk' = NotWalking
        PROVE  Map!Return
    BY <1>1 DEF Map!Return, Map!NoCall, Pending, NotSeeking, NotWalking
  <1>2. ASSUME seek.op \in {"set", "get", "delete"}
        PROVE  /\ walk = NotWalking /\ seek.hash \in Hashes
               /\ Pending.op = seek.op /\ Pending.hash = seek.hash
    <2>1. seek.op # "none" /\ seek.op # "move"
      BY <1>2
    <2>2. walk = NotWalking
      BY <2>1 DEF IInv, Seeking
    <2>3. seek \in SeekType
      BY <1>0, <2>1, Ops
    <2> QED  BY <1>2, <2>2, <2>3 DEF Pending, SeekType
  <1>3. ASSUME seek.op \in {"set", "get", "delete"}, Found
        PROVE  /\ seek.currentItem \in Live /\ heap[seek.currentItem].hash = seek.hash
               /\ seek.hash \in Stored /\ Contents[seek.hash] = heap[seek.currentItem].data
    <2>1. seek.currentItem \in Live /\ heap[seek.currentItem].hash = seek.hash
      BY <1>3, SeekPosition DEF Found, AtEnd, InLeaf
    <2> QED  BY <1>0, <2>1, ContentsIs DEF Stored
  <1>4. ASSUME NEW op \in {"set", "get", "delete"}, NEW hash \in Hashes, Call(op, hash)
        PROVE  Map!MapNext
    <2>1. Pending = Map!NoCall /\ Pending' = [op |-> op, hash |-> hash]
      BY <1>4 DEF Call, Seek, Idle, Pending, Map!NoCall, NotSeeking, NotWalking
    <2>2. UNCHANGED <<heap, result>>
      BY <1>4 DEF Call, list
    <2> QED  BY <2>1, <2>2, SameContents DEF Map!MapNext, Map!Begin
  <1>5. CASE returnItem
    <2>1. seek.op \in {"set", "get"} /\ Found /\ result' = heap[seek.currentItem].data
          /\ seek' = NotSeeking /\ UNCHANGED <<heap, walk>>
      BY <1>5 DEF returnItem, list
    <2> QED  BY <1>0, <1>1, <1>2, <1>3, <2>1, SameContents DEF Map!MapNext, Map!Lookup
  <1>6. CASE returnNull
    <2>1. seek.op \in {"get", "delete"} /\ (AtEnd \/ Beyond) /\ result' = NoData
          /\ seek' = NotSeeking /\ UNCHANGED <<heap, walk>>
      BY <1>6 DEF returnNull, list, NoData
    <2>2. seek.hash \notin Stored
      BY <2>1, SeekMissing
    <2>3. Contents[seek.hash] = NoData
      BY <1>0, <1>2, <2>1, <2>2, ContentsIs
    <2> QED  BY <1>0, <1>1, <1>2, <2>1, <2>2, <2>3, SameContents DEF Map!MapNext, Map!Lookup
  <1>7. ASSUME NEW i \in Items, NEW data \in Data, insertItem(i, data)
        PROVE  Map!MapNext
    <2>1. seek.op = "set" /\ (AtEnd \/ Beyond) /\ result' = data /\ seek' = NotSeeking
          /\ UNCHANGED walk
      BY <1>7 DEF insertItem
    <2>2. seek.hash \notin Stored
      BY <2>1, SeekMissing
    <2>3. /\ \A h \in Hashes : Contents[h] # data
          /\ Contents' = [Contents EXCEPT ![seek.hash] = data]
      BY <1>7, RefineInsert
    <2>4. Map!Put(data)
      BY <1>0, <1>1, <1>2, <2>1, <2>2, <2>3 DEF Map!Put
    <2> QED  BY <2>4 DEF Map!MapNext
  <1>8. CASE deleteFound
    <2>1. seek.op = "delete" /\ Found /\ deleteItem(seek.currentItem) /\ seek' = NotSeeking
          /\ UNCHANGED <<walk, result>>
      BY <1>8 DEF deleteFound
    <2>2. Contents' = [Contents EXCEPT ![seek.hash] = NoData]
      BY <1>3, <2>1, RefineDelete
    <2> QED  BY <1>0, <1>1, <1>2, <1>3, <2>1, <2>2 DEF Map!MapNext, Map!Remove
  <1> QED  BY <1>4, <1>5, <1>6, <1>7, <1>8

(* A walk of mapList goes over what is present when it begins, and changes  *)
(* nothing but the hashes it visits.                                        *)
LEMMA RefineWalk ==
    ASSUME IInv, mapList \/ mapKeep \/ mapDelete \/ mapBreak \/ mapLeaf \/ mapEnd
    PROVE  [Map!MapNext]_<<Contents, Pending, result>>
  <1>0. TypeOK /\ Map!Present = Stored
    BY PresentIs DEF IInv
  <1>1. CASE mapList
    <2>1. Pending = Map!NoCall /\ Pending' = [op |-> "map", left |-> Stored]
      BY <1>1 DEF mapList, Walk, Idle, Pending, Map!NoCall, NotSeeking, NotWalking
    <2>2. UNCHANGED <<heap, result>>
      BY <1>1 DEF mapList, list
    <2> QED  BY <1>0, <2>1, <2>2, SameContents DEF Map!MapNext, Map!BeginWalk
  <1>2. ASSUME walk.op = "map"
        PROVE  /\ seek = NotSeeking /\ walk \in WalkType
               /\ Pending = [op |-> "map", left |-> walk.start \ walk.seen]
    <2>1. seek = NotSeeking /\ walk \in WalkType
      BY <1>0, <1>2, Ops DEF IInv, Walking
    <2> QED  BY <1>2, <2>1 DEF Pending, NotSeeking
  <1>3. ASSUME seek' = NotSeeking, walk' = NotWalking
        PROVE  Map!Return
    BY <1>3 DEF Map!Return, Map!NoCall, Pending, NotSeeking, NotWalking
  <1>4. ASSUME Visiting("map")
        PROVE  /\ walk.op = "map" /\ walk.currentItem \in Live
               /\ heap[walk.currentItem].hash \in walk.start \ walk.seen
               /\ heap[walk.currentItem].hash \in Hashes
    <2>1. walk.op = "map" /\ walk.op # "none" /\ walk.currentItem # NULL
      BY <1>4 DEF Visiting
    <2> QED  BY <1>0, <2>1, LiveIs, WalkPosition DEF InLeaf
  <1>5. ASSUME mapKeep \/ mapDelete
        PROVE  Map!MapNext
    <2> DEFINE g == heap[walk.currentItem].hash
    <2>1. Visiting("map") /\ walk' = Visited /\ UNCHANGED <<seek, result>>
      BY <1>5 DEF mapKeep, mapDelete
    <2>2. walk' = [walk EXCEPT !.currentItem = heap[walk.currentItem].nextInLeaf,
                               !.seen = @ \cup {g}]
      BY <2>1 DEF Visited
    <2>3. walk'.op = "map" /\ walk'.start = walk.start /\ walk'.seen = walk.seen \cup {g}
      BY <1>2, <1>4, <2>1, <2>2 DEF WalkType
    <2>4. Pending' = [op |-> "map", left |-> (walk.start \ walk.seen) \ {g}]
      <3>1. walk'.start \ walk'.seen = (walk.start \ walk.seen) \ {g}
        BY <2>3
      <3>2. seek' = NotSeeking
        BY <1>2, <1>4, <2>1
      <3> QED  BY <2>3, <3>1, <3>2 DEF Pending, NotSeeking
    <2>5. Contents' = Contents \/ Contents' = [Contents EXCEPT ![g] = NoData]
      <3>1. CASE mapKeep
        BY <3>1, SameContents DEF mapKeep, list
      <3>2. CASE mapDelete
        <4>1. deleteItem(walk.currentItem)
          BY <3>2 DEF mapDelete
        <4> QED  BY <1>4, <2>1, <4>1, RefineDelete
      <3> QED  BY <1>5, <3>1, <3>2
    <2>6. g \in Hashes /\ g \in walk.start \ walk.seen
      BY <1>4, <2>1
    <2> HIDE DEF g
    <2>7. Map!Visit(g)
      BY <1>2, <1>4, <2>1, <2>4, <2>5, <2>6 DEF Map!Visit
    <2> QED  BY <2>6, <2>7 DEF Map!MapNext
  <1>6. CASE mapBreak
    <2>1. Visiting("map") /\ walk' = NotWalking /\ UNCHANGED <<heap, seek, result>>
      BY <1>6 DEF mapBreak, list
    <2>2. Pending.op = "map" /\ Pending.left # {} /\ Map!Return
      BY <1>2, <1>3, <1>4, <2>1
    <2> QED  BY <2>1, <2>2, SameContents DEF Map!MapNext, Map!Break
  <1>7. CASE mapEnd
    <2>1. walk.op = "map" /\ walk.currentItem = NULL /\ walk.leaf = LastLeaf
          /\ walk' = NotWalking /\ UNCHANGED <<heap, seek, result>>
      BY <1>7 DEF mapEnd, list
    <2>2. walk.seen = walk.start
      BY <2>1, WalkEnd
    <2>3. Pending.op = "map" /\ Pending.left = {} /\ Map!Return
      BY <1>2, <1>3, <2>1, <2>2
    <2> QED  BY <2>1, <2>3, SameContents DEF Map!MapNext, Map!EndWalk
  <1>8. CASE mapLeaf
    <2>1. walk.op = "map" /\ walk' = [walk EXCEPT !.leaf = @ + 1, !.currentItem = firstItem[walk.leaf + 1]]
          /\ UNCHANGED <<heap, seek, result>>
      BY <1>8 DEF mapLeaf, list
    <2>2. walk'.op = "map" /\ walk'.start = walk.start /\ walk'.seen = walk.seen
      BY <1>2, <2>1 DEF WalkType
    <2>3. Pending' = Pending
      BY <2>1, <2>2 DEF Pending
    <2> QED  BY <2>1, <2>3, SameContents
  <1> QED  BY <1>1, <1>5, <1>6, <1>7, <1>8

(* Every step of the list is a step of the map, or leaves it unchanged. *)
LEMMA RefineStep ==
    ASSUME IInv, [Next]_vars
    PROVE  [Map!MapNext]_<<Contents, Pending, result>>
  <1>1. CASE \/ \E op \in {"set", "get", "delete"}, hash \in Hashes : Call(op, hash)
             \/ returnItem \/ returnNull \/ deleteFound
             \/ \E i \in Items, data \in Data : insertItem(i, data)
    BY <1>1, RefineSeek
  <1>2. CASE mapList \/ mapKeep \/ mapDelete \/ mapBreak \/ mapLeaf \/ mapEnd
    BY <1>2, RefineWalk
  <1>3. CASE seekNext
    <2>1. UNCHANGED <<heap, walk, result>>
          /\ seek' = [seek EXCEPT !.previousItem = seek.currentItem,
                                  !.currentItem = heap[seek.currentItem].nextInLeaf]
      BY <1>3 DEF seekNext, list
    <2>2. seek \in SeekType
      BY <1>3, Ops DEF seekNext, IInv
    <2>3. seek'.op = seek.op /\ seek'.hash = seek.hash
      BY <2>1, <2>2 DEF SeekType
    <2>4. Pending' = Pending
      BY <2>1, <2>3 DEF Pending
    <2> QED  BY <2>1, <2>4, SameContents
  <1>4. CASE \E i \in Items : moveItem(i)
    <2>1. PICK i \in Items : moveItem(i)
      BY <1>4
    <2>2. UNCHANGED <<Contents, result>>
      BY <2>1, RefineMove
    <2>3. seek.op = "move" /\ seek' = NotSeeking /\ walk' = Visited
      BY <2>1 DEF moveItem
    <2>4. walk.op = "move" /\ walk \in WalkType
      <3>1. walk.op = "move"
        BY <2>3 DEF IInv, Seeking, Visiting
      <3> QED  BY <3>1, Ops DEF IInv
    <2>5. walk'.op = "move"
      BY <2>3, <2>4 DEF Visited, WalkType
    <2>6. Pending' = Pending
      BY <2>3, <2>4, <2>5 DEF Pending, NotSeeking
    <2> QED  BY <2>2, <2>6
  <1>5. CASE reInitList \/ moveSeek \/ reInitEnd \/ freeList
    <2>1. UNCHANGED <<heap, result>>
      BY <1>5 DEF reInitList, moveSeek, reInitEnd, freeList, list
    <2>2. seek.op \notin {"set", "get", "delete"} /\ walk.op # "map"
      BY <1>5 DEF reInitList, moveSeek, reInitEnd, freeList, Idle, NotSeeking, NotWalking, Visiting,
                  IInv, Seeking
    <2>3. seek'.op \notin {"set", "get", "delete"} /\ walk'.op # "map"
      BY <1>5, <2>2 DEF reInitList, moveSeek, reInitEnd, freeList, Idle, NotSeeking, NotWalking,
                        Visiting, Walk, Seek
    <2>4. Pending' = Pending
      BY <2>2, <2>3 DEF Pending
    <2> QED  BY <2>1, <2>4, SameContents
  <1>6. CASE UNCHANGED vars
    BY <1>6, SameContents DEF vars, list, Pending
  <1> QED  BY <1>1, <1>2, <1>3, <1>4, <1>5, <1>6 DEF Next, Start, Run

(* The hash list implements the map of HashMap: a call returns what the map *)
(* has for the hash it is about, inserts and deletes that hash alone, a     *)
(* walk visits what was there, and neither the leaves nor reInitList can be *)
(* told.                                                                    *)
THEOREM Refinement == Spec => MapSpec
  <1>1. Init => Map!MapInit
    <2> SUFFICES ASSUME Init PROVE Map!MapInit
      OBVIOUS
    <2>1. Stored = {}
      BY DEF Init, Stored, Live
    <2> QED  BY <2>1 DEF Init, Map!MapInit, Map!NoCall, Contents, Pending, NotSeeking,
                         NotWalking, NoData
  <1>2. IInv /\ [Next]_vars => [Map!MapNext]_(Map!mapVars)
    BY RefineStep DEF Map!mapVars
  <1> QED  BY <1>1, <1>2, Invariance, PTL DEF Spec, MapSpec, Map!MapSpec
=============================================================================
