------------------------------ MODULE HashList ------------------------------
(***************************************************************************)
(* The hash list of list.c: leaves that are sorted, doubly linked lists of *)
(* items on the heap.  A list of level 0 is one leaf; a list of level 1    *)
(* has a leaf for each value of the byte of the hash that getLeaf looks    *)
(* at.  The module follows the peer list of a torrent, which starts at     *)
(* level 0, is moved to level 1 by reInitList and is used by one thread at *)
(* a time: by setHash, getHash and deleteItem of the announces, by the     *)
(* mapList that renders a reply and stops when the reply is full, and by   *)
(* the mapList of the garbage collector, whose callback deletes items.     *)
(*                                                                         *)
(* One step is one turn of a loop over a leaf, or the insertion or removal *)
(* at its end.  Nobody else looks at the list in between.                  *)
(***************************************************************************)
EXTENDS Integers

CONSTANTS
    Hashes,         \* numbers in the order of memcmp
    LastByte,       \* LIST_BYTE_SIZE - 1
    Byte,           \* the byte of each hash that selects its leaf
    Items,          \* addresses of items
    Data,           \* addresses of the data of items
    NULL, Free      \* no item, and the contents of an address that is free

Root == LastByte + 1            \* the leaf of a list of level 0
Leaves == 0 .. Root
Pointers == Items \cup {NULL}
NoData == NULL

Item == [hash: Hashes, previousInLeaf: Pointers, nextInLeaf: Pointers, leaf: Leaves,
         data: Data \cup {NoData}]

ASSUME HashesAssumption == Hashes \subseteq Nat
ASSUME ByteAssumption == LastByte \in Nat /\ Byte \in [Hashes -> 0 .. LastByte]
ASSUME AddressAssumption == NULL \notin Items \cup Data /\ Free \notin Item

VARIABLES
    heap,           \* the item at each address
    firstItem,      \* the head of each leaf
    level,
    allocated,      \* data that c_calloc returned and c_free did not take back
    seek,           \* the loop of setHash and getHash, and who called it
    walk,           \* the loop of mapList, and who called it
    result          \* data of the item, or NULL, that the last call returned

list == <<heap, firstItem, level, allocated>>
vars == <<list, seek, walk, result>>

getLeaf(l, hash) == IF l = 0 THEN Root ELSE Byte[hash]
FirstLeaf == IF level = 0 THEN Root ELSE 0
LastLeaf == IF level = 0 THEN Root ELSE LastByte

Live == {i \in Items : heap[i] # Free}
Stored == {heap[i].hash : i \in Live}

NotSeeking == [op |-> "none"]
NotWalking == [op |-> "none"]
Idle == seek = NotSeeking /\ walk = NotWalking

Init ==
    /\ heap = [i \in Items |-> Free]
    /\ firstItem = [l \in Leaves |-> NULL]
    /\ level = 0
    /\ allocated = {}
    /\ seek = NotSeeking /\ walk = NotWalking
    /\ result = NULL

-----------------------------------------------------------------------------
(* Mutant: the next item keeps its old previous item. *)
LinkedOneWay(i, new) ==
    [j \in Items |->
        IF j = i THEN new
        ELSE IF j = new.previousInLeaf THEN [heap[j] EXCEPT !.nextInLeaf = i]
        ELSE heap[j]]

(* The heap with item i inserted between its two neighbours *)
Linked(i, new) ==
    [j \in Items |->
        IF j = i THEN new
        ELSE IF j = new.previousInLeaf THEN [heap[j] EXCEPT !.nextInLeaf = i]
        ELSE IF j = new.nextInLeaf THEN [heap[j] EXCEPT !.previousInLeaf = i]
        ELSE heap[j]]

LinkedFirst(i, new) ==
    IF new.previousInLeaf = NULL THEN [firstItem EXCEPT ![new.leaf] = i] ELSE firstItem

(* deleteItem: the heap hp and the heads first without item i *)
Unlinked(hp, i) ==
    [j \in Items |->
        IF j = i THEN Free
        ELSE IF j = hp[i].previousInLeaf THEN [hp[j] EXCEPT !.nextInLeaf = hp[i].nextInLeaf]
        ELSE IF j = hp[i].nextInLeaf
        THEN [hp[j] EXCEPT !.previousInLeaf = hp[i].previousInLeaf]
        ELSE hp[j]]

UnlinkedFirst(first, hp, i) ==
    IF hp[i].previousInLeaf = NULL
    THEN [first EXCEPT ![hp[i].leaf] = hp[i].nextInLeaf]
    ELSE first

deleteItem(i) ==
    /\ heap' = Unlinked(heap, i)
    /\ firstItem' = UnlinkedFirst(firstItem, heap, i)
    /\ allocated' = allocated \ {heap[i].data}
    /\ UNCHANGED level

-----------------------------------------------------------------------------
(* setHash and getHash *)

Seek(op, hash, l) ==
    [op |-> op, hash |-> hash, leaf |-> getLeaf(l, hash), previousItem |-> NULL,
     currentItem |-> firstItem[getLeaf(l, hash)]]

(* An announce sets, gets or deletes a peer. *)
Call(op, hash) ==
    /\ Idle
    /\ seek' = Seek(op, hash, level)
    /\ UNCHANGED <<list, walk, result>>

AtEnd == seek.currentItem = NULL

(* Mutant: the comparison takes a greater hash for the hash itself. *)
FoundNotBelow == ~AtEnd /\ heap[seek.currentItem].hash >= seek.hash

Found == ~AtEnd /\ heap[seek.currentItem].hash = seek.hash
Beyond == ~AtEnd /\ heap[seek.currentItem].hash > seek.hash

(* Mutant: the loop does not advance. *)
seekNextNot ==
    /\ seek.op # "none" /\ ~AtEnd /\ ~Found /\ ~Beyond
    /\ UNCHANGED vars

seekNext ==
    /\ seek.op # "none" /\ ~AtEnd /\ ~Found /\ ~Beyond
    /\ seek' = [seek EXCEPT !.previousItem = seek.currentItem,
                            !.currentItem = heap[seek.currentItem].nextInLeaf]
    /\ UNCHANGED <<list, walk, result>>

(* The item that setHash allocates *)
NewItem(data) ==
    [hash |-> seek.hash, previousInLeaf |-> seek.previousItem, nextInLeaf |-> seek.currentItem,
     leaf |-> seek.leaf, data |-> data]

returnItem ==
    /\ seek.op \in {"set", "get"} /\ Found
    /\ result' = heap[seek.currentItem].data
    /\ seek' = NotSeeking
    /\ UNCHANGED <<list, walk>>

returnNull ==
    /\ seek.op \in {"get", "delete"} /\ (AtEnd \/ Beyond)
    /\ result' = NULL
    /\ seek' = NotSeeking
    /\ UNCHANGED <<list, walk>>

(* setHash inserts an item, and its caller gives it data. *)
insertItem(i, data) ==
    /\ seek.op = "set" /\ (AtEnd \/ Beyond)
    /\ heap[i] = Free /\ data \notin allocated
    /\ heap' = Linked(i, NewItem(data))
    /\ firstItem' = LinkedFirst(i, NewItem(data))
    /\ allocated' = allocated \cup {data}
    /\ result' = data
    /\ seek' = NotSeeking
    /\ UNCHANGED <<level, walk>>

deleteFound ==
    /\ seek.op = "delete" /\ Found
    /\ deleteItem(seek.currentItem)
    /\ seek' = NotSeeking
    /\ UNCHANGED <<walk, result>>

-----------------------------------------------------------------------------
(* mapList, with the callback of the garbage collector or of reInitList *)

Walk(op) ==
    [op |-> op, leaf |-> FirstLeaf, currentItem |-> firstItem[FirstLeaf],
     start |-> Stored, seen |-> {}]

mapList ==
    /\ Idle
    /\ walk' = Walk("map")
    /\ UNCHANGED <<list, seek, result>>

(* The next item is read before the callback. *)
Visited ==
    [walk EXCEPT !.currentItem = heap[walk.currentItem].nextInLeaf,
                 !.seen = @ \cup {heap[walk.currentItem].hash}]

Visiting(op) == walk.op = op /\ walk.currentItem # NULL

mapKeep ==
    /\ Visiting("map")
    /\ walk' = Visited
    /\ UNCHANGED <<list, seek, result>>

(* Mutant: a deletion moves the walk one item too far. *)
mapDeleteSkips ==
    /\ Visiting("map")
    /\ deleteItem(walk.currentItem)
    /\ walk' = [Visited EXCEPT !.currentItem =
                    IF @ = NULL THEN NULL ELSE heap[@].nextInLeaf]
    /\ UNCHANGED <<seek, result>>

mapDelete ==
    /\ Visiting("map")
    /\ deleteItem(walk.currentItem)
    /\ walk' = Visited
    /\ UNCHANGED <<seek, result>>

(* LIST_BREAK_RETURN *)
mapBreak ==
    /\ Visiting("map")
    /\ walk' = NotWalking
    /\ UNCHANGED <<list, seek, result>>

mapLeaf ==
    /\ walk.op = "map" /\ walk.currentItem = NULL /\ walk.leaf < LastLeaf
    /\ walk' = [walk EXCEPT !.leaf = @ + 1, !.currentItem = firstItem[walk.leaf + 1]]
    /\ UNCHANGED <<list, seek, result>>

mapEnd ==
    /\ walk.op = "map" /\ walk.currentItem = NULL /\ walk.leaf = LastLeaf
    /\ walk' = NotWalking
    /\ UNCHANGED <<list, seek, result>>

-----------------------------------------------------------------------------
(* reInitList(list, 1) *)

reInitList ==
    /\ Idle /\ level = 0
    /\ walk' = Walk("move")
    /\ UNCHANGED <<list, seek, result>>

(* reInitListCallback: setHash in the new list ... *)
moveSeek ==
    /\ Visiting("move") /\ seek = NotSeeking
    /\ seek' = Seek("move", heap[walk.currentItem].hash, 1)
    /\ UNCHANGED <<list, walk, result>>

(* Mutant: the old item keeps its data, which deleteItem frees. *)
moveItemKeepsData(i) ==
    /\ seek.op = "move" /\ (AtEnd \/ Beyond)
    /\ heap[i] = Free
    /\ LET new == NewItem(heap[walk.currentItem].data) IN
        /\ heap' = Unlinked(Linked(i, new), walk.currentItem)
        /\ firstItem' = UnlinkedFirst(LinkedFirst(i, new), heap, walk.currentItem)
    /\ allocated' = allocated \ {heap[walk.currentItem].data}
    /\ walk' = Visited
    /\ seek' = NotSeeking
    /\ UNCHANGED <<level, result>>

(* ... the data moves to the new item, and the old one is deleted. *)
moveItem(i) ==
    /\ seek.op = "move" /\ (AtEnd \/ Beyond)
    /\ heap[i] = Free
    /\ LET new == NewItem(heap[walk.currentItem].data) IN
        /\ heap' = Unlinked(Linked(i, new), walk.currentItem)
        /\ firstItem' = UnlinkedFirst(LinkedFirst(i, new), heap, walk.currentItem)
    /\ walk' = Visited
    /\ seek' = NotSeeking
    /\ UNCHANGED <<level, allocated, result>>

(* freeList of the old list, which ends the process if it is not empty *)
reInitEnd ==
    /\ walk.op = "move" /\ walk.currentItem = NULL
    /\ firstItem[Root] = NULL
    /\ level' = 1
    /\ walk' = NotWalking
    /\ UNCHANGED <<heap, firstItem, allocated, seek, result>>

(* freeList of a list the collector emptied; a later torrent gets a new one. *)
freeList ==
    /\ Idle /\ level = 1
    /\ \A l \in Leaves : firstItem[l] = NULL
    /\ level' = 0
    /\ UNCHANGED <<heap, firstItem, allocated, seek, walk, result>>

-----------------------------------------------------------------------------
Start ==
    \/ \E op \in {"set", "get", "delete"}, hash \in Hashes : Call(op, hash)
    \/ mapList \/ reInitList \/ freeList

Run ==
    \/ seekNext \/ returnItem \/ returnNull \/ deleteFound
    \/ \E i \in Items, data \in Data : insertItem(i, data)
    \/ mapKeep \/ mapDelete \/ mapBreak \/ mapLeaf \/ mapEnd
    \/ moveSeek \/ (\E i \in Items : moveItem(i)) \/ reInitEnd

Next == Start \/ Run

(* The thread that entered a call runs on. *)
Spec == Init /\ [][Next]_vars /\ WF_vars(Run)

-----------------------------------------------------------------------------
SeekType ==
    [op: {"set", "get", "delete", "move"}, hash: Hashes, leaf: Leaves,
     previousItem: Pointers, currentItem: Pointers]
WalkType ==
    [op: {"map", "move"}, leaf: Leaves, currentItem: Pointers, start: SUBSET Hashes,
     seen: SUBSET Hashes]

TypeOK ==
    /\ heap \in [Items -> Item \cup {Free}]
    /\ firstItem \in [Leaves -> Pointers]
    /\ level \in {0, 1}
    /\ allocated \subseteq Data
    /\ seek \in SeekType \cup {NotSeeking}
    /\ walk \in WalkType \cup {NotWalking}
    /\ result \in Data \cup {NULL}

(* p points to the first, or the last, of the items S, NULL if there is none. *)
IsFirstOf(p, S) ==
    IF S = {} THEN p = NULL ELSE p \in S /\ \A j \in S : heap[p].hash <= heap[j].hash
IsLastOf(p, S) ==
    IF S = {} THEN p = NULL ELSE p \in S /\ \A j \in S : heap[j].hash <= heap[p].hash

InLeaf(l) == {i \in Live : heap[i].leaf = l}

(* In every leaf the items are linked in both directions in the order of   *)
(* their hashes, no hash twice, and every item on the heap is reached from *)
(* the head of its leaf: the insertions of setHash and the removals of     *)
(* deleteItem leave no item behind and no pointer to a freed one.          *)
LinkedInOrder ==
    /\ \A l \in Leaves : IsFirstOf(firstItem[l], InLeaf(l))
    /\ \A i \in Live : LET same == InLeaf(heap[i].leaf) IN
        /\ IsFirstOf(heap[i].nextInLeaf, {j \in same : heap[j].hash > heap[i].hash})
        /\ IsLastOf(heap[i].previousInLeaf, {j \in same : heap[j].hash < heap[i].hash})
        /\ \A j \in same : heap[j].hash = heap[i].hash => j = i

(* The data of every item is allocated and belongs to that item alone, and *)
(* nothing else is allocated: reInitList moves the data of an item without *)
(* freeing it, deleteItem frees it once.                                   *)
DataOwned ==
    /\ allocated = {heap[i].data : i \in Live}
    /\ \A i, j \in Live : heap[i].data = heap[j].data => i = j

(* A walk visits every item that was there when it began, once, although   *)
(* its callback frees items under it.  The walk of reInitList leaves the   *)
(* old list empty, so that freeList does not end the process               *)
(* (EXIT_CODE_LIST_NOT_EMPTY), and never meets a hash it has moved already,*)
(* whose data it would overwrite.                                          *)
WalkVisitsAll ==
    /\ walk.op # "none" /\ walk.currentItem # NULL =>
        walk.currentItem \in Live /\ heap[walk.currentItem].hash \in walk.start \ walk.seen
    /\ walk.op = "map" /\ walk.currentItem = NULL /\ walk.leaf = LastLeaf =>
        walk.seen = walk.start
    /\ walk.op = "move" /\ walk.currentItem = NULL => firstItem[Root] = NULL
    /\ seek.op = "move" => ~Found

(* The lists implement a map from hashes to data: setHash and getHash      *)
(* return what the map has for the hash they are called with, an insertion *)
(* or a deletion is of that hash alone, mapList calls back for hashes that *)
(* are left to visit, and reInitList changes nothing.                      *)
Contents ==
    [h \in Hashes |->
        IF h \in Stored THEN heap[CHOOSE i \in Live : heap[i].hash = h].data ELSE NoData]
Pending ==
    IF seek.op \in {"set", "get", "delete"} THEN [op |-> seek.op, hash |-> seek.hash]
    ELSE IF walk.op = "map" THEN [op |-> "map", left |-> walk.start \ walk.seen]
    ELSE [op |-> "none"]
Map == INSTANCE HashMap WITH contents <- Contents, call <- Pending
MapSpec == Map!MapSpec

(* Every call returns: the loops over a leaf and over the leaves end. *)
CallsEnd == ~Idle ~> Idle
=============================================================================
