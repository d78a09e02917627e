------------------------------ MODULE Tracker ------------------------------
(***************************************************************************)
(* The threads that share torrentList: the TCP and UDP workers, which      *)
(* serve announces and scrapes (thread_client_tcp.c, thread_client_udp.c), *)
(* and the garbage collector thread (data_garbage.c).  The list is split   *)
(* into leaves, each with a semaphore of its own; a thread takes the       *)
(* semaphore of a leaf, works on the torrents of the leaf in several steps *)
(* through the pointers it found, and posts the semaphore.                 *)
(*                                                                         *)
(* Hashes and peer ids are positive numbers in the order of memcmp, 0 is   *)
(* the NULL pointer.  A pointer to an item is the hash of the item: within *)
(* one critical section nothing is inserted twice under the same hash.     *)
(***************************************************************************)
EXTENDS TorrentData, Sequences, FiniteSetsExt

CONSTANTS
    Workers, NoReply,
    LastLeaf,           \* leaves are 1..LastLeaf, in the order of mapList
    LeafOf,             \* getLeaf: the leaf of each hash
    ScrapeRequests,     \* lists of hashes that scrapes may ask for
    PacketHashes        \* hashes that fill DATA_MAX_PACKET_SIZE

Leaves == 1 .. LastLeaf

(* Threads are finitely many, and no reply is no reply. *)
ASSUME WorkersAssumption == IsFiniteSet(Workers) /\ NoReply \notin Reply
ASSUME OrderAssumption == Hashes \subseteq Nat \ {0} /\ Peers \subseteq Nat \ {0}
ASSUME LeavesAssumption == LastLeaf \in Nat /\ LeafOf \in [Hashes -> Leaves]
ASSUME ScrapesAssumption ==
    ScrapeRequests \subseteq Seq(Hashes) \ {<<>>} /\ PacketHashes \in Nat \ {0}

VARIABLES
    torrents, now,
    sema,           \* the semaphore of each leaf, 1 when it is free
    pc, query,      \* where each worker is, and the announce it serves
    torrent,        \* each worker's pointer into the list, 0 for NULL
    todo,           \* hashes each worker's scrape has still to visit
    draft, reply,   \* the counters a worker copied, and the reply it has ready
    gc,             \* the garbage collector: pc, limitTime, leaf and cursors
    committed       \* history: torrents as the last finished step left it

workerVars == <<pc, query, torrent, todo, draft, reply>>
vars == <<torrents, now, sema, workerVars, gc, committed>>

Limit == MaxAliveTime + IntervalStep
NoQuery == [hash |-> 0]

(* Items in list order: the first of a set of numbers, and the next one. *)
First(S) == IF S = {} THEN 0 ELSE Min(S)
After(S, x) == First({y \in S : y > x})

InLeaf(l) == {h \in Hashes : LeafOf[h] = l /\ torrents[h] # NoTorrent}

Init ==
    /\ torrents = [h \in Hashes |-> NoTorrent]
    /\ committed = torrents
    /\ now = 0
    /\ sema = [l \in Leaves |-> 1]
    /\ pc = [w \in Workers |-> "idle"]
    /\ query = [w \in Workers |-> NoQuery]
    /\ torrent = [w \in Workers |-> 0]
    /\ todo = [w \in Workers |-> <<>>]
    /\ draft = [w \in Workers |-> NoReply]
    /\ reply = [w \in Workers |-> NoReply]
    /\ gc = [pc |-> "sleep", limitTime |-> 0, leaf |-> 0, item |-> 0, next |-> 0,
             peer |-> 0, kept |-> 0]

-----------------------------------------------------------------------------
(* Worker threads *)

(* Bound: completions in flight count towards MaxDownloads. *)
Completing(h) ==
    {w \in Workers : query[w].hash = h /\ query[w].event = URI_EVENT_ID_COMPLETED}

DownloadsBounded(q) ==
    q.event = URI_EVENT_ID_COMPLETED =>
        Cardinality(Completing(q.hash))
            + (IF torrents[q.hash] = NoTorrent THEN 0 ELSE torrents[q.hash].downloaded)
        < MaxDownloads

ReceiveAnnounce(w, q) ==
    /\ pc[w] = "idle"
    /\ DownloadsBounded(q)
    /\ query' = [query EXCEPT ![w] = q]
    /\ pc' = [pc EXCEPT ![w] = "wait"]
    /\ UNCHANGED <<torrents, now, sema, torrent, todo, draft, reply, gc, committed>>

(* The scrape stops after the hash that fills the packet. *)
ReceiveScrape(w, hashes) ==
    /\ pc[w] = "idle"
    /\ todo' = [todo EXCEPT ![w] = SubSeq(hashes, 1, Min({Len(hashes), PacketHashes}))]
    /\ pc' = [pc EXCEPT ![w] = "scrapeWait"]
    /\ UNCHANGED <<torrents, now, sema, query, torrent, draft, reply, gc, committed>>

(* The leaf a worker waits for or works on. *)
Leaf(w) == IF todo[w] # <<>> THEN LeafOf[Head(todo[w])] ELSE LeafOf[query[w].hash]

CanLock(l) == sema[l] = 1

waitSemaphoreLeaf(w) ==
    /\ pc[w] \in {"wait", "scrapeWait"}
    /\ CanLock(Leaf(w))
    /\ sema' = [sema EXCEPT ![Leaf(w)] = 0]
    /\ pc' = [pc EXCEPT ![w] =
                IF @ = "scrapeWait" THEN "scrape"
                ELSE IF query[w].event = URI_EVENT_ID_STOPPED THEN "delete" ELSE "set"]
    /\ UNCHANGED <<torrents, now, query, torrent, todo, draft, reply, gc, committed>>

deletePeer(w) ==
    /\ pc[w] = "delete"
    /\ torrents' = [torrents EXCEPT ![query[w].hash] = deletePeerPublic(@, query[w])]
    /\ torrent' = [torrent EXCEPT ![w] =
                    IF torrents[query[w].hash] = NoTorrent THEN 0 ELSE query[w].hash]
    /\ pc' = [pc EXCEPT ![w] = "head"]
    /\ UNCHANGED <<now, sema, query, todo, draft, reply, gc, committed>>

setTorrent(w) ==
    /\ pc[w] = "set"
    /\ torrents' = [torrents EXCEPT ![query[w].hash] = setTorrentL(@)]
    /\ torrent' = [torrent EXCEPT ![w] = query[w].hash]
    /\ pc' = [pc EXCEPT ![w] = "setPeer"]
    /\ UNCHANGED <<now, sema, query, todo, draft, reply, gc, committed>>

setPeerOf(w) ==
    /\ pc[w] = "setPeer"
    /\ torrents' = [torrents EXCEPT ![torrent[w]] = setPeer(@, query[w], now)]
    /\ pc' = [pc EXCEPT ![w] = "head"]
    /\ UNCHANGED <<now, sema, query, torrent, todo, draft, reply, gc, committed>>

Pointed(w) == IF torrent[w] = 0 THEN NoTorrent ELSE torrents[torrent[w]]

(* renderAnnouncePublic copies the counters, then walks the list. *)
renderHead(w) ==
    /\ pc[w] = "head"
    /\ draft' = [draft EXCEPT ![w] = ReplyStats(Pointed(w))]
    /\ pc' = [pc EXCEPT ![w] = "peers"]
    /\ UNCHANGED <<torrents, now, sema, query, torrent, todo, reply, gc, committed>>

renderPeers(w) ==
    /\ pc[w] = "peers"
    /\ \E S \in renderAnnouncePeersL(Pointed(w), query[w]) :
        reply' = [reply EXCEPT ![w] = [draft[w] EXCEPT !.peers = S]]
    /\ committed' = [committed EXCEPT ![query[w].hash] = torrents[query[w].hash]]
    /\ torrent' = [torrent EXCEPT ![w] = 0]
    /\ draft' = [draft EXCEPT ![w] = NoReply]
    /\ pc' = [pc EXCEPT ![w] = "post"]
    /\ UNCHANGED <<torrents, now, sema, query, todo, gc>>

(* The leaf is released; sending the reply is not modelled further. *)
postSemaphoreLeaf(w) ==
    /\ pc[w] = "post"
    /\ sema' = [sema EXCEPT ![Leaf(w)] = @ + 1]
    /\ query' = [query EXCEPT ![w] = NoQuery]
    /\ reply' = [reply EXCEPT ![w] = NoReply]
    /\ pc' = [pc EXCEPT ![w] = "idle"]
    /\ UNCHANGED <<torrents, now, torrent, todo, draft, gc, committed>>

scrape(w) ==
    /\ pc[w] = "scrape"
    /\ reply' = [reply EXCEPT ![w] = ReplyStats(torrents[Head(todo[w])])]
    /\ pc' = [pc EXCEPT ![w] = "scrapePost"]
    /\ UNCHANGED <<torrents, now, sema, query, torrent, todo, draft, gc, committed>>

(* Mutant: the loop over the hashes does not advance. *)
scrapePostNoAdvance(w) ==
    /\ pc[w] = "scrapePost"
    /\ sema' = [sema EXCEPT ![Leaf(w)] = @ + 1]
    /\ reply' = [reply EXCEPT ![w] = NoReply]
    /\ pc' = [pc EXCEPT ![w] = "scrapeWait"]
    /\ UNCHANGED <<torrents, now, query, torrent, todo, draft, gc, committed>>

scrapePost(w) ==
    /\ pc[w] = "scrapePost"
    /\ sema' = [sema EXCEPT ![Leaf(w)] = @ + 1]
    /\ todo' = [todo EXCEPT ![w] = Tail(@)]
    /\ reply' = [reply EXCEPT ![w] = NoReply]
    /\ pc' = [pc EXCEPT ![w] = IF todo'[w] = <<>> THEN "idle" ELSE "scrapeWait"]
    /\ UNCHANGED <<torrents, now, query, torrent, draft, gc, committed>>

-----------------------------------------------------------------------------
(* Garbage collector thread: runGarbageCollectorL and its two callbacks,   *)
(* called by mapList, which reads the next pointer before the callback.    *)
gcUnchanged == UNCHANGED <<now, workerVars>>

gcStart ==
    /\ gc.pc = "sleep"
    /\ gc' = [gc EXCEPT !.pc = "leaf", !.limitTime = now - Limit, !.leaf = 1]
    /\ UNCHANGED <<torrents, sema, committed>> /\ gcUnchanged

(* Mutant: the loop over the leaves ends one too early. *)
gcLeafOffByOne ==
    /\ gc.pc = "leaf"
    /\ gc' = IF gc.leaf >= LastLeaf THEN [gc EXCEPT !.pc = "sleep", !.leaf = 0, !.limitTime = 0]
             ELSE IF InLeaf(gc.leaf) = {} THEN [gc EXCEPT !.leaf = @ + 1]
             ELSE [gc EXCEPT !.pc = "wait"]
    /\ UNCHANGED <<torrents, sema, committed>> /\ gcUnchanged

(* mapList looks at firstItem without the semaphore and skips an empty leaf. *)
gcLeaf ==
    /\ gc.pc = "leaf"
    /\ gc' = IF gc.leaf > LastLeaf THEN [gc EXCEPT !.pc = "sleep", !.leaf = 0, !.limitTime = 0]
             ELSE IF InLeaf(gc.leaf) = {} THEN [gc EXCEPT !.leaf = @ + 1]
             ELSE [gc EXCEPT !.pc = "wait"]
    /\ UNCHANGED <<torrents, sema, committed>> /\ gcUnchanged

(* Mutant: the garbage collector walks the leaf without the semaphore. *)
gcWaitNotAtAll ==
    /\ gc.pc = "wait"
    /\ gc' = [gc EXCEPT !.pc = "torrent", !.item = First(InLeaf(gc.leaf))]
    /\ UNCHANGED <<torrents, sema, committed>> /\ gcUnchanged

gcWait ==
    /\ gc.pc = "wait"
    /\ CanLock(gc.leaf)
    /\ sema' = [sema EXCEPT ![gc.leaf] = 0]
    /\ gc' = [gc EXCEPT !.pc = "torrent", !.item = First(InLeaf(gc.leaf))]
    /\ UNCHANGED <<torrents, committed>> /\ gcUnchanged

(* The torrent callback begins: its peer list is walked from the first peer. *)
gcTorrent ==
    /\ gc.pc = "torrent" /\ gc.item # 0
    /\ gc' = [gc EXCEPT !.pc = "peer", !.next = After(InLeaf(gc.leaf), gc.item),
                        !.kept = 0, !.peer = First(Known(torrents[gc.item]))]
    /\ UNCHANGED <<torrents, sema, committed>> /\ gcUnchanged

gcPeer ==
    /\ gc.pc = "peer" /\ gc.peer # 0
    /\ LET t == torrents[gc.item]
           stale == Stale(t.peers[gc.peer], gc.limitTime)
       IN  /\ torrents' = [torrents EXCEPT ![gc.item] =
                            IF stale THEN collectPeer(t, gc.peer) ELSE t]
           /\ gc' = [gc EXCEPT !.peer = After(Known(t), gc.peer),
                               !.kept = IF stale THEN @ ELSE @ + 1]
    /\ UNCHANGED <<sema, committed>> /\ gcUnchanged

(* Mutant: the walk goes on from the item that the callback freed. *)
gcTorrentEndReadsFreed ==
    /\ gc.pc = "peer" /\ gc.peer = 0
    /\ torrents' = [torrents EXCEPT ![gc.item] = IF gc.kept = 0 THEN NoTorrent ELSE @]
    /\ committed' = [committed EXCEPT ![gc.item] = torrents'[gc.item]]
    /\ gc' = [gc EXCEPT !.pc = "torrent", !.item = IF gc.kept = 0 THEN @ ELSE gc.next,
                        !.next = 0, !.kept = 0]
    /\ UNCHANGED sema /\ gcUnchanged

(* Mutant: a torrent without peers stays in the list. *)
gcTorrentEndKeeps ==
    /\ gc.pc = "peer" /\ gc.peer = 0
    /\ gc' = [gc EXCEPT !.pc = "torrent", !.item = gc.next, !.next = 0, !.kept = 0]
    /\ UNCHANGED <<torrents, committed, sema>> /\ gcUnchanged

(* The torrent callback ends: a torrent that kept no peer is freed. *)
gcTorrentEnd ==
    /\ gc.pc = "peer" /\ gc.peer = 0
    /\ torrents' = [torrents EXCEPT ![gc.item] = IF gc.kept = 0 THEN NoTorrent ELSE @]
    /\ committed' = [committed EXCEPT ![gc.item] = torrents'[gc.item]]
    /\ gc' = [gc EXCEPT !.pc = "torrent", !.item = gc.next, !.next = 0, !.kept = 0]
    /\ UNCHANGED sema /\ gcUnchanged

gcPost ==
    /\ gc.pc = "torrent" /\ gc.item = 0
    /\ sema' = [sema EXCEPT ![gc.leaf] = @ + 1]
    /\ gc' = [gc EXCEPT !.pc = "leaf", !.leaf = @ + 1]
    /\ UNCHANGED <<torrents, committed>> /\ gcUnchanged

Tick ==
    /\ now < MaxTime
    /\ now' = now + 1
    /\ UNCHANGED <<torrents, sema, workerVars, gc, committed>>

-----------------------------------------------------------------------------
Receive(w) ==
    \/ \E q \in Query : ReceiveAnnounce(w, q)
    \/ \E hashes \in ScrapeRequests : ReceiveScrape(w, hashes)

Work(w) ==
    \/ deletePeer(w) \/ setTorrent(w) \/ setPeerOf(w)
    \/ renderHead(w) \/ renderPeers(w) \/ postSemaphoreLeaf(w)
    \/ scrape(w) \/ scrapePost(w)

Collect == gcStart \/ gcLeaf \/ gcTorrent \/ gcPeer \/ gcTorrentEnd \/ gcPost

Next ==
    \/ \E w \in Workers : Receive(w) \/ waitSemaphoreLeaf(w) \/ Work(w)
    \/ Collect \/ gcWait
    \/ Tick

(* Threads keep running, and the semaphore of a leaf does not starve a     *)
(* thread that waits for it while it is posted again and again.  Nobody is *)
(* obliged to send a request.                                              *)
Fairness ==
    /\ \A w \in Workers : WF_vars(Work(w)) /\ SF_vars(waitSemaphoreLeaf(w))
    /\ WF_vars(Collect) /\ SF_vars(gcWait)

Spec == Init /\ [][Next]_vars /\ Fairness

-----------------------------------------------------------------------------
GcHolds == gc.pc \in {"torrent", "peer"}
WorkerHolds(w) == pc[w] \notin {"idle", "wait", "scrapeWait"}

TypeOK ==
    /\ torrents \in [Hashes -> Torrent \cup {NoTorrent}]
    /\ committed \in [Hashes -> Torrent \cup {NoTorrent}]
    /\ now \in Times
    /\ sema \in [Leaves -> {0, 1}]
    /\ pc \in [Workers -> {"idle", "wait", "delete", "set", "setPeer", "head", "peers",
                           "post", "scrapeWait", "scrape", "scrapePost"}]
    /\ query \in [Workers -> Query \cup {NoQuery}]
    /\ torrent \in [Workers -> Hashes \cup {0}]
    /\ todo \in [Workers -> Seq(Hashes)]
    /\ draft \in [Workers -> Reply \cup {NoReply}]
    /\ reply \in [Workers -> Reply \cup {NoReply}]
    /\ gc \in [pc: {"sleep", "leaf", "wait", "torrent", "peer"},
               limitTime: (0 - Limit) .. MaxTime, leaf: 0 .. LastLeaf + 1,
               item: Hashes \cup {0}, next: Hashes \cup {0},
               peer: Peers \cup {0}, kept: 0 .. Cardinality(Peers)]

(* No thread follows a pointer to a freed item: the torrent a worker found *)
(* is still in the list when it updates and renders it, and so are the     *)
(* torrent, the next torrent and the peer that mapList of the garbage      *)
(* collector keeps across its callbacks.                                   *)
PointersValid ==
    /\ \A w \in Workers : torrent[w] # 0 => torrents[torrent[w]] # NoTorrent
    /\ \A h \in {gc.item, gc.next} \ {0} : torrents[h] # NoTorrent
    /\ gc.peer # 0 => gc.peer \in Known(torrents[gc.item])

(* freeList never finds an item (EXIT_CODE_LIST_NOT_EMPTY, list.c:82): a   *)
(* torrent whose walk kept no peer has no peer that was added behind the   *)
(* walk.                                                                   *)
FreedListEmpty ==
    gc.pc = "peer" /\ gc.peer = 0 /\ gc.kept = 0 => Known(torrents[gc.item]) = {}

(* Announces, scrapes and visits of the garbage collector are atomic: the  *)
(* threads implement TorrentStore on the committed torrents.               *)
Store == INSTANCE TorrentStore WITH torrents <- committed
StoreSpec == Store!Spec

(* With the events completed, started and stopped the counters of a        *)
(* torrent count exactly the seeds and the other peers of its list after   *)
(* every announce and every visit of the collector, in whatever order the  *)
(* threads get the leaf; and a leaf whose semaphore is free holds nothing  *)
(* but such torrents: no update of them is half done.                      *)
CommittedCountersExact ==
    /\ Store!CountersExact
    /\ \A h \in Hashes : sema[LeafOf[h]] = 1 => torrents[h] = committed[h]

(* Every request a worker takes is answered: no thread waits for ever for  *)
(* the semaphore of a leaf.                                                *)
RequestsAnswered == \A w \in Workers : pc[w] # "idle" ~> pc[w] = "idle"

HasStale(h, p) ==
    torrents[h] # NoTorrent /\ Stale(torrents[h].peers[p], now - Limit)

(* A peer that stays silent for more than MaxAliveTime + IntervalStep      *)
(* seconds is collected, unless it announces again first.                  *)
StalePeersCollected == \A h \in Hashes, p \in Peers : HasStale(h, p) ~> ~HasStale(h, p)

Abandoned(h) == torrents[h] # NoTorrent /\ Known(torrents[h]) = {}

(* A torrent that all its peers stopped is freed, unless one comes back. *)
EmptyTorrentsFreed == \A h \in Hashes : Abandoned(h) ~> ~Abandoned(h)
=============================================================================
