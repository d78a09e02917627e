---------------------------- MODULE TrackerProofs ----------------------------
(***************************************************************************)
(* Theorems about Tracker, for every number of hashes, peers, leaves and   *)
(* worker threads: the semaphore of a leaf excludes the other threads, no  *)
(* pointer outlives its item, and the steps of the threads implement the   *)
(* atomic operations of TorrentStore.                                      *)
(*                                                                         *)
(* What the operators of TorrentData do is taken from TorrentStoreProofs,  *)
(* instantiated on the committed torrents; the first part says that the    *)
(* instance computes what Tracker computes.                                *)
(***************************************************************************)
EXTENDS Tracker, FiniteSetTheorems, WellFoundedInduction, TLAPS

Data == INSTANCE TorrentStoreProofs WITH torrents <- committed

-----------------------------------------------------------------------------
(* The operators of the instance are those of Tracker *)

(* The sets of values are the same. *)
LEMMA SameSets ==
    /\ Data!Times = Times /\ Data!UInt = UInt /\ Data!PeerData = PeerData
    /\ Data!Torrent = Torrent /\ Data!Query = Query /\ Data!Reply = Reply
    /\ Data!AllEvents = AllEvents
  BY DEF Data!AllEvents, AllEvents, Data!Times, Times, Data!UInt, UInt,
         Data!PeerData, PeerData, Data!Torrent, Torrent, Data!Query, Query, Data!Reply, Reply,
         Data!URI_EVENT_ID_NONE, Data!URI_EVENT_ID_COMPLETED, Data!URI_EVENT_ID_STARTED,
         Data!URI_EVENT_ID_STOPPED, Data!URI_EVENT_ID_PAUSED, Data!URI_EVENT_ID_CONTINUE,
         URI_EVENT_ID_NONE, URI_EVENT_ID_COMPLETED, URI_EVENT_ID_STARTED,
         URI_EVENT_ID_STOPPED, URI_EVENT_ID_PAUSED, URI_EVENT_ID_CONTINUE

(* The sizes of sets are the same. *)
LEMMA SameSizes ==
    \A S : Data!Cardinality(S) = Cardinality(S) /\ Data!IsFiniteSet(S) = IsFiniteSet(S)
  <1>1. \A S : Data!Cardinality(S) = Cardinality(S)
    BY DEF Data!Cardinality, Cardinality
  <1>2. \A S : Data!IsFiniteSet(S) = IsFiniteSet(S)
    BY DEF Data!IsFiniteSet, IsFiniteSet
  <1> QED  BY <1>1, <1>2

(* The assumptions of the instance hold. *)
LEMMA SameAssumptions ==
    /\ Data!IsFiniteSet(Peers)
    /\ Events \subseteq Data!AllEvents
    /\ NumWants \subseteq Data!UInt /\ MaxPeersPerResponse \in Data!UInt \ {0}
    /\ PacketPeers \in Nat \ {0} /\ PeersForLevel0Limit \in Nat
    /\ MaxAliveTime \in Nat /\ IntervalStep \in Nat /\ MaxTime \in Nat
    /\ UIntMax \in Nat \ {0} /\ Data!Cardinality(Peers) <= UIntMax /\ MaxDownloads \in Data!UInt
    /\ NoPeer \notin Data!PeerData /\ NoTorrent \notin Data!Torrent
    /\ NoReply \notin Data!Reply
  BY SameSets, SameSizes, PeersAssumption, EventsAssumption, NumWantsAssumption, LimitsAssumption,
     TimesAssumption, UIntAssumption, NoPeerAssumption, NoTorrentAssumption, WorkersAssumption

(* The statistics are the same. *)
LEMMA SameStats ==
    \A t, e, f : Data!changeTorrentStatsL(t, e, f) = changeTorrentStatsL(t, e, f)
  BY DEF Data!changeTorrentStatsL, changeTorrentStatsL, Data!NewPeerStats, NewPeerStats,
         Data!RemovedPeerStats, RemovedPeerStats, Data!ChangedPeerStats, ChangedPeerStats,
         Data!Inc, Inc, Data!Dec, Dec,
         Data!URI_EVENT_ID_NONE, URI_EVENT_ID_NONE,
         Data!URI_EVENT_ID_COMPLETED, URI_EVENT_ID_COMPLETED,
         Data!URI_EVENT_ID_CONTINUE, URI_EVENT_ID_CONTINUE

(* The lists are the same. *)
LEMMA SameLists ==
    /\ \A t : Data!Known(t) = Known(t)
    /\ \A t : Data!Seeds(t) = Seeds(t)
    /\ \A t, limitTime : Data!StalePeers(t, limitTime) = StalePeers(t, limitTime)
    /\ \A t : Data!setTorrentL(t) = setTorrentL(t)
    /\ \A t, q, time : Data!setPeer(t, q, time) = setPeer(t, q, time)
    /\ \A t, q : Data!deletePeerPublic(t, q) = deletePeerPublic(t, q)
    /\ \A t, limitTime : Data!collectTorrent(t, limitTime) = collectTorrent(t, limitTime)
  <1>1. \A t : Data!Known(t) = Known(t)
    BY DEF Data!Known, Known
  <1>2. \A t : Data!Seeds(t) = Seeds(t)
    BY DEF Data!Seeds, Seeds, Data!Known, Known,
           Data!URI_EVENT_ID_COMPLETED, URI_EVENT_ID_COMPLETED
  <1>3. \A t, limitTime : Data!StalePeers(t, limitTime) = StalePeers(t, limitTime)
    BY DEF Data!StalePeers, StalePeers, Data!Stale, Stale
  <1>4. \A t : Data!reInitList(t) = reInitList(t)
    BY DEF Data!reInitList, reInitList, Data!AddU, AddU
  <1>5. \A t : Data!setTorrentL(t) = setTorrentL(t)
    BY DEF Data!setTorrentL, setTorrentL, Data!EmptyTorrent, EmptyTorrent
  <1>6. \A t, q, time : Data!setPeer(t, q, time) = setPeer(t, q, time)
    BY SMTT(30), <1>4, SameStats DEF Data!setPeer, setPeer, Data!URI_EVENT_ID_NONE, URI_EVENT_ID_NONE
  <1>7. \A t, q : Data!deletePeerPublic(t, q) = deletePeerPublic(t, q)
    BY <1>1, SameStats
       DEF Data!deletePeerPublic, deletePeerPublic, Data!URI_EVENT_ID_NONE, URI_EVENT_ID_NONE
  <1>8. \A x, n : Data!SubU(x, n) = SubU(x, n)
    BY DEF Data!SubU, SubU
  <1>9. \A t, limitTime : Data!collectTorrent(t, limitTime) = collectTorrent(t, limitTime)
    <2> SUFFICES ASSUME NEW t, NEW limitTime
                 PROVE  Data!collectTorrent(t, limitTime) = collectTorrent(t, limitTime)
      OBVIOUS
    <2> DEFINE stale == StalePeers(t, limitTime)
               m == Cardinality(stale \cap Seeds(t))
               n == Cardinality(stale \ (stale \cap Seeds(t)))
    <2>1. /\ Data!StalePeers(t, limitTime) = stale /\ Data!Known(t) = Known(t)
          /\ Data!Cardinality(stale \cap Data!Seeds(t)) = m
          /\ Data!Cardinality(stale \ (stale \cap Data!Seeds(t))) = n
      BY <1>1, <1>2, <1>3, SameSizes
    <2>2. /\ Data!SubU(t.complete, m) = SubU(t.complete, m)
          /\ Data!SubU(t.incomplete, n) = SubU(t.incomplete, n)
      BY <1>8
    <2> QED  BY <2>1, <2>2, Zenon DEF Data!collectTorrent, collectTorrent
  <1> QED  BY <1>1, <1>2, <1>3, <1>5, <1>6, <1>7, <1>9

(* The replies are the same. *)
LEMMA SameReplies ==
    /\ \A t, q : Data!renderAnnouncePeersL(t, q) = renderAnnouncePeersL(t, q)
    /\ \A t : Data!ReplyStats(t) = ReplyStats(t)
  <1>1. \A t : Data!Known(t) = Known(t)
    BY SameLists
  <1>2. \A t, v : Data!Eligible(t, v) = Eligible(t, v)
    BY <1>1 DEF Data!Eligible, Eligible
  <1>3. \A q : Data!RenderLimit(Data!numwant(q)) = RenderLimit(numwant(q))
    BY DEF Data!RenderLimit, RenderLimit, Data!numwant, numwant
  <1>4. \A t, q : Data!renderAnnouncePeersL(t, q) = renderAnnouncePeersL(t, q)
    <2> SUFFICES ASSUME NEW t, NEW q
                 PROVE  Data!renderAnnouncePeersL(t, q) = renderAnnouncePeersL(t, q)
      OBVIOUS
    <2> DEFINE all == Eligible(t, q.ipVersion)
               limit == RenderLimit(numwant(q))
    <2>1. Data!Eligible(t, q.ipVersion) = all /\ Data!RenderLimit(Data!numwant(q)) = limit
      BY <1>2, <1>3
    <2>2. \A S : Data!Cardinality(S) = Cardinality(S)
      BY SameSizes
    <2> HIDE DEF all, limit
    <2>3. {S \in SUBSET all : /\ Data!Cardinality(S) <= limit
                              /\ Data!Cardinality(S) <= PacketPeers
                              /\ \/ S = all
                                 \/ Data!Cardinality(S) = limit
                                 \/ Data!Cardinality(S) = PacketPeers}
          = {S \in SUBSET all : /\ Cardinality(S) <= limit
                                /\ Cardinality(S) <= PacketPeers
                                /\ S = all \/ Cardinality(S) = limit \/ Cardinality(S) = PacketPeers}
      BY <2>2
    <2> QED  BY <2>1, <2>3 DEF Data!renderAnnouncePeersL, renderAnnouncePeersL, all, limit
  <1>5. \A t : Data!ReplyStats(t) = ReplyStats(t)
    BY DEF Data!ReplyStats, ReplyStats
  <1> QED  BY <1>4, <1>5

(* The announce of the store is the steps deletePeer, or setTorrent and     *)
(* setPeer, of a worker.                                                    *)
LEMMA AfterAnnounceIs ==
    ASSUME NEW t, NEW q, NEW time
    PROVE  Data!AfterAnnounce(t, q, time) =
             IF q.event = URI_EVENT_ID_STOPPED THEN deletePeerPublic(t, q)
             ELSE setPeer(setTorrentL(t), q, time)
  BY SameLists DEF Data!AfterAnnounce, Data!setPeerPublic,
                   Data!URI_EVENT_ID_STOPPED, URI_EVENT_ID_STOPPED

-----------------------------------------------------------------------------
(* What one step does to the data *)

(* The steps of an announce turn torrents into torrents. *)
LEMMA AnnounceTypes ==
    ASSUME NEW t \in Torrent \cup {NoTorrent}, NEW q \in Query, NEW time \in Times
    PROVE  /\ setTorrentL(t) \in Torrent
           /\ t \in Torrent => setTorrentL(t) = t /\ setPeer(t, q, time) \in Torrent
           /\ t = NoTorrent => setTorrentL(t) = EmptyTorrent
           /\ deletePeerPublic(t, q) \in Torrent \cup {NoTorrent}
           /\ deletePeerPublic(t, q) = NoTorrent <=> t = NoTorrent
           /\ ReplyStats(t) \in Reply
  <1>1. setTorrentL(t) \in Torrent /\ (t \in Torrent => setTorrentL(t) = t)
    BY Data!setTorrentEffect, SameAssumptions, SameSets, SameLists
  <1>2. t \in Torrent => setPeer(t, q, time) \in Torrent
    BY Data!setPeerEffect, SameAssumptions, SameSets, SameLists
  <1>3. /\ deletePeerPublic(t, q) \in Torrent \cup {NoTorrent}
        /\ deletePeerPublic(t, q) = NoTorrent <=> t = NoTorrent
    <2>1. CASE t = NoTorrent \/ q.peer \notin Known(t)
      BY <2>1 DEF deletePeerPublic
    <2>2. CASE t \in Torrent /\ q.peer \in Known(t)
      <3>1. deletePeerPublic(t, q) \in Torrent
        BY <2>2, Data!deletePeerEffect, SameAssumptions, SameSets, SameLists
      <3> QED  BY <2>2, <3>1, NoTorrentAssumption
    <2> QED  BY <2>1, <2>2
  <1>4. ReplyStats(t) \in Reply
    BY Data!ReplyStatsType, SameAssumptions, SameSets, SameReplies
  <1>5. t = NoTorrent => setTorrentL(t) = EmptyTorrent
    BY DEF setTorrentL
  <1> QED  BY <1>1, <1>2, <1>3, <1>4, <1>5

(* The torrent that setTorrentL allocates is a torrent. *)
LEMMA EmptyIsTorrent == EmptyTorrent \in Torrent
  BY UIntAssumption DEF EmptyTorrent, Torrent, UInt

(* A reply without its peers, and with them. *)
LEMMA ReplyTypes ==
    ASSUME NEW t \in Torrent \cup {NoTorrent}
    PROVE  /\ ReplyStats(t) \in Reply /\ ReplyStats(t) # NoReply
           /\ \A q : \A S \in renderAnnouncePeersL(t, q) :
                /\ [ReplyStats(t) EXCEPT !.peers = S] \in Reply
                /\ [ReplyStats(t) EXCEPT !.peers = S] # NoReply
  <1>1. ReplyStats(t) \in Reply
    BY Data!ReplyStatsType, SameAssumptions, SameSets, SameReplies
  <1>2. \A q : \A S \in renderAnnouncePeersL(t, q) : S \in SUBSET Peers
    BY DEF renderAnnouncePeersL, Eligible, Known
  <1>3. \A S \in SUBSET Peers : [ReplyStats(t) EXCEPT !.peers = S] \in Reply
    BY <1>1 DEF Reply
  <1> QED  BY <1>1, <1>2, <1>3, WorkersAssumption

Downloads(t) == IF t = NoTorrent THEN 0 ELSE t.downloaded

(* A completion adds at most one to downloaded, anything else nothing, and  *)
(* downloaded is copied by the other steps.                                 *)
LEMMA DownloadedStep ==
    ASSUME NEW t \in Torrent \cup {NoTorrent}, NEW q \in Query, NEW time \in Times
    PROVE  LET d == Downloads(Data!AfterAnnounce(t, q, time)) IN
           /\ d = Downloads(t) \/ d = Inc(Downloads(t))
           /\ q.event # URI_EVENT_ID_COMPLETED => d = Downloads(t)
  <1>1. CASE q.event = URI_EVENT_ID_STOPPED
    <2>1. CASE t = NoTorrent \/ q.peer \notin Known(t)
      BY <1>1, <2>1, AfterAnnounceIs DEF deletePeerPublic
    <2>2. CASE t \in Torrent /\ q.peer \in Known(t)
      <3> DEFINE r == changeTorrentStatsL(t, t.peers[q.peer].event, URI_EVENT_ID_NONE)
      <3>1. deletePeerPublic(t, q).downloaded = r.downloaded
        <4>1. r \in Torrent
          BY <2>2, Data!StatsEffect, SameAssumptions, SameSets, SameStats
        <4>2. deletePeerPublic(t, q) = [r EXCEPT !.peers = [@ EXCEPT ![q.peer] = NoPeer]]
          BY <2>2, NoTorrentAssumption DEF deletePeerPublic
        <4> HIDE DEF r
        <4> QED  BY <4>1, <4>2 DEF Torrent
      <3>2. r.downloaded = t.downloaded
        BY <2>2 DEF changeTorrentStatsL, RemovedPeerStats, NewPeerStats, Torrent,
                    URI_EVENT_ID_NONE, URI_EVENT_ID_COMPLETED
      <3> QED  BY <1>1, <2>2, <3>1, <3>2, AfterAnnounceIs, AnnounceTypes, NoTorrentAssumption
                DEF Downloads
    <2> QED  BY <2>1, <2>2
  <1>2. CASE q.event # URI_EVENT_ID_STOPPED
    <2> DEFINE u == setTorrentL(t)
               r == changeTorrentStatsL(reInitList(u), Data!OldEvent(u, q), q.event)
    <2>1. u \in Torrent /\ u.downloaded = Downloads(t)
      BY AnnounceTypes, NoTorrentAssumption DEF Downloads, EmptyTorrent
    <2>2. reInitList(u) \in Torrent /\ reInitList(u).downloaded = u.downloaded
      BY <2>1 DEF reInitList, Torrent
    <2>3. setPeer(u, q, time) \in Torrent
      BY <2>1, AnnounceTypes
    <2>4. setPeer(u, q, time).downloaded = r.downloaded
      BY <2>2 DEF setPeer, Data!OldEvent, Data!URI_EVENT_ID_NONE, URI_EVENT_ID_NONE
    <2>5. /\ r.downloaded \in {u.downloaded, Inc(u.downloaded)}
          /\ q.event # URI_EVENT_ID_COMPLETED => r.downloaded = u.downloaded
      BY <2>2 DEF changeTorrentStatsL, RemovedPeerStats, NewPeerStats, ChangedPeerStats, Torrent
    <2> HIDE DEF u, r
    <2>6. Downloads(setPeer(u, q, time)) = r.downloaded
      BY <2>3, <2>4, NoTorrentAssumption DEF Downloads
    <2> QED  BY <1>2, <2>1, <2>5, <2>6, AfterAnnounceIs DEF u
  <1> QED  BY <1>1, <1>2

-----------------------------------------------------------------------------
(* The walk over a list *)

(* A set of numbers has a least one. *)
LEMMA LeastExists ==
    ASSUME NEW S \in SUBSET Nat, S # {}
    PROVE  \E x \in S : \A y \in S : x <= y
  <1>1. PICK x \in S : \A y \in S : <<y, x>> \notin OpToRel(<, Nat)
    BY NatLessThanWellFounded, WFMin
  <1>2. \A y \in S : ~(y < x)
    BY <1>1 DEF OpToRel
  <1> QED  BY <1>2

(* Min finds it. *)
LEMMA MinIs ==
    ASSUME NEW S \in SUBSET Nat, S # {}
    PROVE  Min(S) \in S /\ \A y \in S : Min(S) <= y
  BY LeastExists DEF Min

(* First is the least item of a list, or NULL for no list. *)
LEMMA FirstIs ==
    ASSUME NEW S \in SUBSET (Nat \ {0})
    PROVE  /\ S = {} <=> First(S) = 0
           /\ S # {} => First(S) \in S /\ \A y \in S : First(S) <= y
  <1>1. ASSUME S # {}
        PROVE  Min(S) \in S /\ \A y \in S : Min(S) <= y
    BY <1>1, MinIs
  <1> QED  BY <1>1 DEF First

(* The peers of the list K that a walk at peer p has behind it, and the    *)
(* torrent c without the stale ones of them.                               *)
Visited(K, p) == IF p = 0 THEN K ELSE {r \in K : r < p}

Walked(c, limitTime, V) ==
    LET stale == StalePeers(c, limitTime) \cap V
        seeds == stale \cap Seeds(c)
    IN  [c EXCEPT !.peers = [p \in Peers |-> IF p \in stale THEN NoPeer ELSE c.peers[p]],
                  !.complete = SubU(@, Cardinality(seeds)),
                  !.incomplete = SubU(@, Cardinality(stale \ seeds))]

(* The walk starts with nothing behind it. *)
LEMMA VisitedFirst ==
    ASSUME NEW K \in SUBSET (Nat \ {0})
    PROVE  Visited(K, First(K)) = {}
  <1>1. CASE K = {}
    BY <1>1, FirstIs DEF Visited
  <1>2. CASE K # {}
    <2>1. First(K) # 0 /\ \A r \in K : r \in Nat /\ First(K) \in Nat /\ First(K) <= r
      BY <1>2, FirstIs
    <2>2. \A r \in K : ~(r < First(K))
      BY <2>1
    <2> QED  BY <2>1, <2>2 DEF Visited
  <1> QED  BY <1>1, <1>2

(* The next peer of the list as the walk has left it: the walked part of    *)
(* the list grows by the peer it was at.                                    *)
LEMMA VisitedNext ==
    ASSUME NEW K \in SUBSET (Nat \ {0}), NEW p \in K, NEW L \in SUBSET K,
           \A r \in K \ L : r < p
    PROVE  /\ Visited(K, After(L, p)) = Visited(K, p) \cup {p}
           /\ p \notin Visited(K, p)
           /\ After(L, p) # 0 => After(L, p) \in K
  <1> DEFINE S == {y \in L : y > p}
  <1>1. S \in SUBSET (Nat \ {0}) /\ After(L, p) = First(S)
    BY DEF After
  <1>2. \A r \in K : r > p <=> r \in S
    OBVIOUS
  <1>3. /\ p # 0 /\ p \in Nat
        /\ \A r \in K : r \in Nat /\ (r < p \/ r = p \/ r > p)
    OBVIOUS
  <1>4. /\ S = {} => First(S) = 0
        /\ S # {} => First(S) \in S /\ \A y \in S : First(S) <= y
    BY <1>1, FirstIs
  <1>5. Visited(K, p) = {r \in K : r < p}
    BY <1>3 DEF Visited
  <1> HIDE DEF S
  <1>6. CASE S = {}
    <2>1. Visited(K, After(L, p)) = K
      BY <1>1, <1>4, <1>6 DEF Visited
    <2>2. K = {r \in K : r < p} \cup {p}
      BY <1>2, <1>3, <1>6
    <2> QED  BY <1>1, <1>3, <1>4, <1>5, <1>6, <2>1, <2>2
  <1>7. CASE S # {}
    <2> DEFINE f == First(S)
    <2>1. f \in S /\ f \in K /\ f \in Nat /\ f # 0 /\ f > p
      BY <1>1, <1>2, <1>4, <1>7 DEF S
    <2>2. \A y \in S : f <= y
      BY <1>4, <1>7
    <2> HIDE DEF f
    <2>3. \A r \in K : r < f <=> (r < p \/ r = p)
      BY <1>2, <1>3, <2>1, <2>2
    <2>4. {r \in K : r < f} = {r \in K : r < p} \cup {p}
      BY <2>3
    <2>5. Visited(K, f) = {r \in K : r < f}
      BY <2>1 DEF Visited
    <2> QED  BY <1>1, <1>3, <1>5, <2>1, <2>4, <2>5 DEF f
  <1> QED  BY <1>6, <1>7

(* Unsigned subtraction of nothing, and of one more. *)
LEMMA SubUMore ==
    ASSUME NEW x \in UInt, NEW n \in UInt, n # UIntMax
    PROVE  SubU(x, 0) = x /\ Dec(SubU(x, n)) = SubU(x, n + 1)
  BY UIntAssumption DEF UInt, SubU, Dec

(* Sets of peers are finite and their sizes are unsigned ints. *)
LEMMA PeerSetSize ==
    ASSUME NEW S \in SUBSET Peers
    PROVE  IsFiniteSet(S) /\ Cardinality(S) \in UInt /\ Cardinality(S) <= Cardinality(Peers)
  <1>1. IsFiniteSet(S) /\ Cardinality(S) <= Cardinality(Peers)
    BY PeersAssumption, FS_Subset
  <1>2. Cardinality(S) \in Nat /\ Cardinality(Peers) \in Nat
    BY <1>1, PeersAssumption, FS_CardinalityType
  <1> QED  BY <1>1, <1>2, UIntAssumption DEF UInt

(* The peer lists of Tracker are sets of numbers. *)
LEMMA ListsOfNumbers ==
    ASSUME NEW t
    PROVE  Known(t) \in SUBSET Peers /\ Known(t) \in SUBSET (Nat \ {0}) /\ Seeds(t) \in SUBSET Known(t)
  BY OrderAssumption DEF Known, Seeds

(* A torrent before its walk, during it and after it.                       *)
LEMMA WalkedType ==
    ASSUME NEW c \in Torrent, NEW limitTime, NEW V
    PROVE  /\ Walked(c, limitTime, V) \in Torrent
           /\ Known(Walked(c, limitTime, V)) = Known(c) \ (StalePeers(c, limitTime) \cap V)
           /\ \A p \in Known(Walked(c, limitTime, V)) :
                 Walked(c, limitTime, V).peers[p] = c.peers[p]
           /\ Walked(c, limitTime, V).downloaded = c.downloaded
  <1> DEFINE stale == StalePeers(c, limitTime) \cap V
             seeds == stale \cap Seeds(c)
  <1>1. stale \in SUBSET Peers /\ seeds \in SUBSET Peers /\ stale \ seeds \in SUBSET Peers
    BY DEF StalePeers
  <1>2. Cardinality(seeds) \in UInt /\ Cardinality(stale \ seeds) \in UInt
    BY <1>1, PeerSetSize
  <1>3. \A x, n \in UInt : SubU(x, n) \in UInt
    BY UIntAssumption DEF UInt, SubU
  <1>4. Walked(c, limitTime, V) =
          [c EXCEPT !.peers = [p \in Peers |-> IF p \in stale THEN NoPeer ELSE c.peers[p]],
                    !.complete = SubU(@, Cardinality(seeds)),
                    !.incomplete = SubU(@, Cardinality(stale \ seeds))]
    BY DEF Walked
  <1>5. [p \in Peers |-> IF p \in stale THEN NoPeer ELSE c.peers[p]] \in [Peers -> PeerData \cup {NoPeer}]
    BY DEF Torrent
  <1> DEFINE x == SubU(c.complete, Cardinality(seeds))
             y == SubU(c.incomplete, Cardinality(stale \ seeds))
  <1>6. x \in UInt /\ y \in UInt
    BY <1>2, <1>3 DEF Torrent
  <1> HIDE DEF stale, seeds, x, y
  <1>7. Walked(c, limitTime, V) =
          [c EXCEPT !.peers = [p \in Peers |-> IF p \in stale THEN NoPeer ELSE c.peers[p]],
                    !.complete = x, !.incomplete = y]
    BY <1>4 DEF x, y
  <1>8. /\ Walked(c, limitTime, V) \in Torrent
        /\ Walked(c, limitTime, V).peers = [p \in Peers |-> IF p \in stale THEN NoPeer ELSE c.peers[p]]
        /\ Walked(c, limitTime, V).downloaded = c.downloaded
    BY <1>5, <1>6, <1>7 DEF Torrent
  <1>9. Known(Walked(c, limitTime, V)) = Known(c) \ stale
    BY <1>8 DEF Known
  <1>10. \A p \in Known(Walked(c, limitTime, V)) : Walked(c, limitTime, V).peers[p] = c.peers[p]
    BY <1>8, <1>9 DEF Known
  <1> QED  BY <1>8, <1>9, <1>10 DEF stale

(* A walk that has visited nothing has changed nothing. *)
LEMMA WalkedNone ==
    ASSUME NEW c \in Torrent, NEW limitTime
    PROVE  Walked(c, limitTime, {}) = c
  <1>1. /\ StalePeers(c, limitTime) \cap {} = {}
        /\ {} \cap Seeds(c) = {} /\ {} \ {} = {}
    OBVIOUS
  <1>2. Cardinality({}) = 0
    BY FS_EmptySet
  <1>3. SubU(c.complete, 0) = c.complete /\ SubU(c.incomplete, 0) = c.incomplete
    BY UIntAssumption, SubUMore DEF Torrent, UInt
  <1>4. [p \in Peers |-> IF p \in {} THEN NoPeer ELSE c.peers[p]] = c.peers
    BY DEF Torrent
  <1>5. Walked(c, limitTime, {}) =
          [c EXCEPT !.peers = [p \in Peers |-> IF p \in {} THEN NoPeer ELSE c.peers[p]],
                    !.complete = SubU(c.complete, 0), !.incomplete = SubU(c.incomplete, 0)]
    BY <1>1, <1>2 DEF Walked
  <1> QED  BY <1>3, <1>4, <1>5 DEF Torrent

(* One peer more in a finite set. *)
LEMMA OneMore ==
    ASSUME NEW S \in SUBSET Peers, NEW p \in Peers \ S
    PROVE  /\ Cardinality(S \cup {p}) = Cardinality(S) + 1
           /\ Cardinality(S) \in UInt /\ Cardinality(S) # UIntMax
  <1>1. IsFiniteSet(S) /\ Cardinality(S) \in UInt /\ Cardinality(S \cup {p}) \in UInt
    BY PeerSetSize
  <1>2. Cardinality(S \cup {p}) = Cardinality(S) + 1
    BY <1>1, FS_AddElement
  <1> QED  BY <1>1, <1>2, UIntAssumption DEF UInt

(* The visit of a peer is one step of the walk. *)
LEMMA WalkedStep ==
    ASSUME NEW c \in Torrent, NEW limitTime, NEW V \in SUBSET Peers, NEW p \in Known(c) \ V
    PROVE  LET t == Walked(c, limitTime, V) IN
           Walked(c, limitTime, V \cup {p}) =
               IF Stale(t.peers[p], limitTime) THEN collectPeer(t, p) ELSE t
  <1> DEFINE t == Walked(c, limitTime, V)
             all == StalePeers(c, limitTime)
             stale == all \cap V
             seeds == stale \cap Seeds(c)
             next == all \cap (V \cup {p})
             nextSeeds == next \cap Seeds(c)
  <1>1. p \in Peers /\ p \in Known(t) /\ t.peers[p] = c.peers[p] /\ t \in Torrent
    BY ListsOfNumbers, WalkedType
  <1>2. Stale(t.peers[p], limitTime) <=> p \in all
    BY <1>1 DEF StalePeers
  <1>3. CASE p \notin all
    <2>1. next = stale
      BY <1>3
    <2>2. Walked(c, limitTime, V \cup {p}) = t
      BY <2>1 DEF Walked
    <2> QED  BY <1>2, <1>3, <2>2
  <1>4. CASE p \in all
    <2> DEFINE seed == p \in Seeds(c)
               x == Cardinality(seeds)  y == Cardinality(stale \ seeds)
    <2>1. next = stale \cup {p} /\ p \notin stale /\ p \notin seeds /\ p \notin stale \ seeds
      BY <1>4
    <2>2. stale \in SUBSET Peers /\ seeds \in SUBSET Peers /\ stale \ seeds \in SUBSET Peers
      BY DEF StalePeers
    <2>3. /\ x \in UInt /\ x # UIntMax /\ y \in UInt /\ y # UIntMax
          /\ Cardinality(nextSeeds) = IF seed THEN x + 1 ELSE x
          /\ Cardinality(next \ nextSeeds) = IF seed THEN y ELSE y + 1
      <3>1. seed => nextSeeds = seeds \cup {p} /\ next \ nextSeeds = stale \ seeds
        BY <2>1
      <3>2. ~seed => nextSeeds = seeds /\ next \ nextSeeds = (stale \ seeds) \cup {p}
        BY <2>1
      <3>3. /\ x \in UInt /\ x # UIntMax /\ y \in UInt /\ y # UIntMax
            /\ Cardinality(seeds \cup {p}) = x + 1
            /\ Cardinality((stale \ seeds) \cup {p}) = y + 1
        BY <1>1, <2>1, <2>2, OneMore
      <3> HIDE DEF next, nextSeeds, stale, seeds
      <3> QED  BY <3>1, <3>2, <3>3
    <2> DEFINE f == [r \in Peers |-> IF r \in stale THEN NoPeer ELSE c.peers[r]]
               g == [r \in Peers |-> IF r \in next THEN NoPeer ELSE c.peers[r]]
    <2>4. g = [f EXCEPT ![p] = NoPeer]
      BY <1>1, <2>1
    <2>5. t = [c EXCEPT !.peers = f, !.complete = SubU(c.complete, x),
                        !.incomplete = SubU(c.incomplete, y)]
      BY DEF Walked
    <2>6. Walked(c, limitTime, V \cup {p}) =
            [c EXCEPT !.peers = g, !.complete = SubU(c.complete, Cardinality(nextSeeds)),
                      !.incomplete = SubU(c.incomplete, Cardinality(next \ nextSeeds))]
      BY DEF Walked
    <2>7. /\ Dec(SubU(c.complete, x)) = SubU(c.complete, x + 1)
          /\ Dec(SubU(c.incomplete, y)) = SubU(c.incomplete, y + 1)
      BY <2>3, SubUMore DEF Torrent
    <2>8. seed <=> t.peers[p].event = URI_EVENT_ID_COMPLETED
      BY <1>1 DEF Seeds
    <2> HIDE DEF f, g, x, y, next, nextSeeds, stale, seeds
    <2>9. /\ t.complete = SubU(c.complete, x) /\ t.incomplete = SubU(c.incomplete, y)
          /\ t.peers = f
      BY <2>5 DEF Torrent
    <2>10. collectPeer(t, p) =
             IF seed THEN [c EXCEPT !.peers = g, !.complete = SubU(c.complete, x + 1),
                                    !.incomplete = SubU(c.incomplete, y)]
             ELSE [c EXCEPT !.peers = g, !.complete = SubU(c.complete, x),
                            !.incomplete = SubU(c.incomplete, y + 1)]
      <3> HIDE DEF t, seed
      <3> QED  BY <2>4, <2>5, <2>7, <2>8, <2>9 DEF collectPeer, RemovedPeerStats, Torrent
    <2>11. Walked(c, limitTime, V \cup {p}) = collectPeer(t, p)
      <3> HIDE DEF t, seed
      <3> QED  BY <2>3, <2>6, <2>10
    <2> QED  BY <1>2, <1>4, <2>11
  <1> QED  BY <1>3, <1>4

(* A walk over the whole list is collectTorrent of the store: it keeps no   *)
(* peer when all are stale.                                                 *)
LEMMA WalkedAll ==
    ASSUME NEW c \in Torrent, NEW limitTime
    PROVE  LET t == Walked(c, limitTime, Known(c))
               kept == Cardinality(Known(c) \ StalePeers(c, limitTime))
           IN  /\ collectTorrent(c, limitTime) = IF kept = 0 THEN NoTorrent ELSE t
               /\ kept = 0 => Known(t) = {}
  <1> DEFINE all == StalePeers(c, limitTime)  K == Known(c)
             kept == Cardinality(K \ all)
  <1>1. all \in SUBSET K
    BY DEF StalePeers, Stale, Known
  <1>2. K \in SUBSET Peers /\ IsFiniteSet(K \ all)
    BY ListsOfNumbers, PeerSetSize
  <1>3. kept = 0 <=> K \ all = {}
    BY <1>2, FS_EmptySet
  <1>4. all = K <=> K \ all = {}
    BY <1>1
  <1>5. all \cap K = all
    BY <1>1
  <1>6. Known(Walked(c, limitTime, K)) = K \ all
    BY <1>5, WalkedType
  <1>7. collectTorrent(c, limitTime) = IF all = K THEN NoTorrent ELSE Walked(c, limitTime, K)
    BY <1>5 DEF collectTorrent, Walked
  <1> HIDE DEF all, K, kept
  <1>8. /\ collectTorrent(c, limitTime) = IF kept = 0 THEN NoTorrent ELSE Walked(c, limitTime, K)
        /\ kept = 0 => Known(Walked(c, limitTime, K)) = {}
    BY <1>3, <1>4, <1>6, <1>7
  <1> QED  BY <1>8 DEF all, K, kept

-----------------------------------------------------------------------------
(* The inductive invariant *)

Announcing == {"wait", "delete", "set", "setPeer", "head", "peers", "post"}
Scraping == {"scrapeWait", "scrape", "scrapePost"}

(* What a worker holds at each point of its loop. *)
Control(w) ==
    /\ pc[w] = "idle" => query[w] = NoQuery /\ todo[w] = <<>>
    /\ pc[w] \in Announcing => query[w] \in Query /\ todo[w] = <<>>
    /\ pc[w] \in Scraping => query[w] = NoQuery /\ todo[w] # <<>>
    /\ pc[w] = "delete" => query[w].event = URI_EVENT_ID_STOPPED
    /\ pc[w] \in {"set", "setPeer"} => query[w].event # URI_EVENT_ID_STOPPED
    /\ pc[w] \in {"post", "scrapePost"} => reply[w] # NoReply
    /\ torrent[w] # 0 => pc[w] \in {"setPeer", "head", "peers"} /\ torrent[w] = query[w].hash
    /\ pc[w] = "setPeer" => torrent[w] # 0

(* One thread at a time is between the wait and the post of a semaphore. *)
Exclusion ==
    /\ \A w \in Workers : WorkerHolds(w) => sema[Leaf(w)] = 0
    /\ GcHolds => sema[gc.leaf] = 0
    /\ \A v, w \in Workers : v # w /\ WorkerHolds(v) /\ WorkerHolds(w) => Leaf(v) # Leaf(w)
    /\ \A w \in Workers : GcHolds /\ WorkerHolds(w) => Leaf(w) # gc.leaf

(* What the garbage collector holds at each point of its loops. *)
GcControl ==
    /\ gc.pc = "leaf" => gc.leaf # 0
    /\ gc.pc \in {"wait", "torrent", "peer"} => gc.leaf \in Leaves
    /\ gc.pc \notin {"torrent", "peer"} => gc.item = 0
    /\ gc.pc # "peer" => gc.next = 0 /\ gc.peer = 0 /\ gc.kept = 0
    /\ gc.pc = "peer" => gc.item # 0 /\ gc.next # gc.item
    /\ \A h \in {gc.item, gc.next} \ {0} : LeafOf[h] = gc.leaf /\ torrents[h] # NoTorrent
    /\ gc.pc # "sleep" => gc.limitTime + Limit \in 0 .. now

(* The hashes on which the worker, or the collector, is half way. *)
WorkerUpdates(w, h) == pc[w] \in {"setPeer", "head", "peers"} /\ query[w].hash = h
GcUpdates(h) == gc.pc = "peer" /\ gc.item = h

(* Every torrent that nobody is working on is as its last step left it. *)
Clean ==
    \A h \in Hashes :
        torrents[h] # committed[h] => GcUpdates(h) \/ \E w \in Workers : WorkerUpdates(w, h)

(* How far an announce has come. *)
Working(w) ==
    LET h == query[w].hash IN
    /\ pc[w] = "setPeer" => torrents[h] = setTorrentL(committed[h])
    /\ pc[w] \in {"head", "peers"} =>
        /\ \E time \in Times :
            time <= now /\ torrents[h] = Data!AfterAnnounce(committed[h], query[w], time)
        /\ torrent[w] = 0 <=> torrents[h] = NoTorrent
    /\ pc[w] = "peers" => draft[w] = ReplyStats(torrents[h])

(* How far the callback of a torrent has come. *)
GcWorking ==
    gc.pc = "peer" =>
        LET c == committed[gc.item]
            V == Visited(Known(c), gc.peer)
        IN  /\ c # NoTorrent
            /\ torrents[gc.item] = Walked(c, gc.limitTime, V)
            /\ gc.kept = Cardinality(V \ StalePeers(c, gc.limitTime))
            /\ gc.peer # 0 => gc.peer \in Known(c)

(* The completions that have not reached the counter yet fit in it. *)
InFlight(h) == {w \in Completing(h) : pc[w] # "post"}

DownloadsLeft ==
    \A h \in Hashes : Cardinality(InFlight(h)) + Downloads(committed[h]) <= MaxDownloads

IInv ==
    /\ TypeOK
    /\ \A w \in Workers : Control(w)
    /\ Exclusion
    /\ GcControl
    /\ Clean
    /\ \A w \in Workers : Working(w)
    /\ GcWorking
    /\ DownloadsLeft

-----------------------------------------------------------------------------
(* What each thread leaves alone *)

WorkerStep(w) == Receive(w) \/ waitSemaphoreLeaf(w) \/ Work(w)
GcStep == Collect \/ gcWait

(* A worker's step changes nothing of another worker and of the collector. *)
LEMMA WorkerFrame ==
    ASSUME TypeOK, NEW w \in Workers, WorkerStep(w)
    PROVE  /\ UNCHANGED <<now, gc>>
           /\ \A v \in Workers \ {w} :
                /\ pc'[v] = pc[v] /\ query'[v] = query[v] /\ torrent'[v] = torrent[v]
                /\ todo'[v] = todo[v] /\ draft'[v] = draft[v] /\ reply'[v] = reply[v]
  <1> USE DEF TypeOK
  <1>1. CASE Receive(w)
    BY <1>1 DEF Receive, ReceiveAnnounce, ReceiveScrape
  <1>2. CASE waitSemaphoreLeaf(w)
    BY <1>2 DEF waitSemaphoreLeaf
  <1>3. CASE Work(w)
    BY <1>3 DEF Work, deletePeer, setTorrent, setPeerOf, renderHead, renderPeers,
                postSemaphoreLeaf, scrape, scrapePost
  <1> QED  BY <1>1, <1>2, <1>3 DEF WorkerStep

(* The collector's steps change nothing of a worker. *)
LEMMA GcFrame ==
    ASSUME GcStep
    PROVE  UNCHANGED <<now, workerVars>>
  BY DEF GcStep, Collect, gcStart, gcLeaf, gcTorrent, gcPeer, gcTorrentEnd, gcPost, gcWait, gcUnchanged

(* The torrents a worker's step writes. *)
LEMMA WorkerWrites ==
    ASSUME TypeOK, NEW w \in Workers, Control(w), WorkerStep(w), NEW h \in Hashes
    PROVE  /\ torrents'[h] # torrents[h] => pc[w] \in {"delete", "set", "setPeer"} /\ query[w].hash = h
           /\ committed'[h] # committed[h] => pc[w] = "peers" /\ query[w].hash = h
  <1> USE DEF TypeOK
  <1>1. CASE Receive(w) \/ waitSemaphoreLeaf(w) \/ renderHead(w) \/ postSemaphoreLeaf(w)
             \/ scrape(w) \/ scrapePost(w)
    BY <1>1 DEF Receive, ReceiveAnnounce, ReceiveScrape, waitSemaphoreLeaf, renderHead,
                postSemaphoreLeaf, scrape, scrapePost
  <1>2. CASE deletePeer(w)
    BY <1>2 DEF deletePeer
  <1>3. CASE setTorrent(w)
    BY <1>3 DEF setTorrent
  <1>4. CASE setPeerOf(w)
    BY <1>4 DEF setPeerOf, Control
  <1>5. CASE renderPeers(w)
    BY <1>5 DEF renderPeers
  <1> QED  BY <1>1, <1>2, <1>3, <1>4, <1>5 DEF WorkerStep, Work

(* The torrents the collector writes. *)
LEMMA GcWrites ==
    ASSUME TypeOK, GcStep, NEW h \in Hashes
    PROVE  /\ torrents'[h] # torrents[h] => gc.pc = "peer" /\ gc.item = h
           /\ committed'[h] # committed[h] => gc.pc = "peer" /\ gc.peer = 0 /\ gc.item = h
  <1> USE DEF TypeOK
  <1>1. CASE gcStart \/ gcLeaf \/ gcTorrent \/ gcPost \/ gcWait
    BY <1>1 DEF gcStart, gcLeaf, gcTorrent, gcPost, gcWait
  <1>2. CASE gcPeer
    BY <1>2 DEF gcPeer
  <1>3. CASE gcTorrentEnd
    BY <1>3 DEF gcTorrentEnd
  <1> QED  BY <1>1, <1>2, <1>3 DEF GcStep, Collect

(* Two threads that hold leaves work on different hashes. *)
LEMMA Apart ==
    ASSUME IInv
    PROVE  /\ \A w \in Workers : pc[w] \in Announcing =>
                Leaf(w) = LeafOf[query[w].hash] /\ query[w].hash \in Hashes
           /\ \A v, w \in Workers :
                /\ v # w /\ WorkerHolds(v) /\ WorkerHolds(w)
                /\ pc[v] \in Announcing /\ pc[w] \in Announcing
                => query[v].hash # query[w].hash
           /\ \A w \in Workers :
                GcHolds /\ WorkerHolds(w) /\ pc[w] \in Announcing => query[w].hash \notin {gc.item, gc.next}
  <1>1. \A w \in Workers : pc[w] \in Announcing =>
            Leaf(w) = LeafOf[query[w].hash] /\ query[w].hash \in Hashes
    BY DEF IInv, Control, Leaf, Query
  <1>2. 0 \notin Hashes
    BY OrderAssumption
  <1> QED  BY <1>1, <1>2 DEF IInv, Exclusion, GcControl

-----------------------------------------------------------------------------
(* The steps preserve the invariant, part by part *)

(* The initial state satisfies the invariant. *)
LEMMA IInvInit ==
    ASSUME Init
    PROVE  IInv
  <1> USE DEF Init
  <1>1. TypeOK
    <2>1. 0 \in Times /\ 0 \in (0 - Limit) .. MaxTime /\ 0 \in 0 .. LastLeaf + 1
      BY TimesAssumption, LeavesAssumption DEF Times, Limit
    <2>2. 0 \in 0 .. Cardinality(Peers)
      BY PeersAssumption, FS_CardinalityType
    <2>3. <<>> \in Seq(Hashes)
      OBVIOUS
    <2> QED  BY <2>1, <2>2, <2>3 DEF TypeOK
  <1>2. \A w \in Workers : Control(w) /\ Working(w)
    BY DEF Control, Working, Announcing, Scraping
  <1>3. Exclusion /\ GcControl /\ Clean /\ GcWorking
    BY DEF Exclusion, GcControl, Clean, GcWorking, GcHolds, WorkerHolds
  <1>4. DownloadsLeft
    <2>1. \A h \in Hashes : InFlight(h) = {}
      BY OrderAssumption DEF InFlight, Completing, NoQuery
    <2>2. \A h \in Hashes : Downloads(committed[h]) = 0
      BY DEF Downloads
    <2>3. MaxDownloads \in Nat
      BY UIntAssumption DEF UInt
    <2>4. \A h \in Hashes : Cardinality(InFlight(h)) = 0
      BY <2>1, FS_EmptySet
    <2> HIDE DEF Init
    <2> QED  BY <2>2, <2>3, <2>4 DEF DownloadsLeft
  <1> QED  BY <1>1, <1>2, <1>3, <1>4 DEF IInv

(* A step preserves what every worker holds. *)
LEMMA ControlStep ==
    ASSUME IInv, [Next]_vars
    PROVE  \A v \in Workers : Control(v)'
  <1> SUFFICES ASSUME NEW v \in Workers PROVE Control(v)'
    OBVIOUS
  <1>0. TypeOK /\ Control(v)
    BY DEF IInv
  <1>1. ASSUME NEW w \in Workers, WorkerStep(w), v # w
        PROVE  Control(v)'
    BY <1>0, <1>1, WorkerFrame DEF Control
  <1>2. CASE WorkerStep(v)
    <2> USE <1>0 DEF TypeOK, Control, Announcing, Scraping
    <2>1. ASSUME NEW q \in Query, ReceiveAnnounce(v, q)
          PROVE  Control(v)'
      BY <2>1 DEF ReceiveAnnounce
    <2>2. ASSUME NEW hashes \in ScrapeRequests, ReceiveScrape(v, hashes)
          PROVE  Control(v)'
      <3> DEFINE first == SubSeq(hashes, 1, Min({Len(hashes), PacketHashes}))
      <3>1. first # <<>>
        <4>1. hashes \in Seq(Hashes) /\ hashes # <<>> /\ PacketHashes \in Nat \ {0}
          BY ScrapesAssumption
        <4>2. Len(hashes) \in Nat \ {0}
          BY <4>1
        <4>3. Min({Len(hashes), PacketHashes}) \in {Len(hashes), PacketHashes}
              /\ Min({Len(hashes), PacketHashes}) <= Len(hashes)
          <5> DEFINE S == {Len(hashes), PacketHashes}
          <5>1. S \in SUBSET Nat /\ S # {} /\ Len(hashes) \in S
            BY <4>1, <4>2
          <5> HIDE DEF S
          <5>2. Min(S) \in S /\ Min(S) <= Len(hashes)
            BY <5>1, MinIs
          <5> QED  BY <5>2 DEF S
        <4> DEFINE n == Min({Len(hashes), PacketHashes})
        <4>4. n \in 1 .. Len(hashes)
          BY <4>1, <4>2, <4>3
        <4> HIDE DEF n
        <4>5. Len(SubSeq(hashes, 1, n)) = n /\ SubSeq(hashes, 1, n) \in Seq(Hashes)
          BY <4>1, <4>4
        <4> QED  BY <4>4, <4>5 DEF n
      <3>2. pc[v] = "idle" /\ todo'[v] = first /\ pc'[v] = "scrapeWait"
            /\ UNCHANGED <<query, torrent, reply>>
        BY <2>2 DEF ReceiveScrape
      <3> HIDE DEF first
      <3> QED  BY <3>1, <3>2
    <2>3. CASE waitSemaphoreLeaf(v)
      BY <2>3 DEF waitSemaphoreLeaf
    <2>4. CASE deletePeer(v)
      BY <2>4 DEF deletePeer
    <2>5. CASE setTorrent(v)
      BY <2>5, OrderAssumption DEF setTorrent, Query
    <2>6. CASE setPeerOf(v)
      BY <2>6 DEF setPeerOf
    <2>7. CASE renderHead(v)
      BY <2>7 DEF renderHead
    <2>8. CASE renderPeers(v)
      <3>1. PICK S \in renderAnnouncePeersL(Pointed(v), query[v]) :
              reply' = [reply EXCEPT ![v] = [draft[v] EXCEPT !.peers = S]]
        BY <2>8 DEF renderPeers
      <3>2. Pointed(v) = torrents[query[v].hash] /\ draft[v] = ReplyStats(torrents[query[v].hash])
            /\ torrents[query[v].hash] \in Torrent \cup {NoTorrent}
        BY <2>8 DEF renderPeers, IInv, Working, Pointed, Query
      <3>3. reply'[v] # NoReply
        BY <3>1, <3>2, ReplyTypes
      <3> QED  BY <2>8, <3>3 DEF renderPeers
    <2>9. CASE postSemaphoreLeaf(v)
      BY <2>9 DEF postSemaphoreLeaf
    <2>10. CASE scrape(v)
      <3>1. Head(todo[v]) \in Hashes
        BY <2>10 DEF scrape
      <3>2. reply'[v] # NoReply
        BY <2>10, <3>1, ReplyTypes DEF scrape
      <3> QED  BY <2>10, <3>2 DEF scrape
    <2>11. CASE scrapePost(v)
      BY <2>11 DEF scrapePost
    <2> QED  BY <1>2, <2>1, <2>2, <2>3, <2>4, <2>5, <2>6, <2>7, <2>8, <2>9, <2>10, <2>11
              DEF WorkerStep, Receive, Work
  <1>3. CASE UNCHANGED workerVars
    BY <1>0, <1>3 DEF Control, workerVars
  <1> QED  BY <1>1, <1>2, <1>3, GcFrame DEF Next, WorkerStep, GcStep, Tick, vars

(* What a worker's step does to the semaphore of its leaf: nothing, the     *)
(* wait, or the post.                                                       *)
LEMMA WorkerSemaphore ==
    ASSUME IInv, NEW w \in Workers, WorkerStep(w)
    PROVE  \/ /\ UNCHANGED sema
              /\ (WorkerHolds(w)' <=> WorkerHolds(w)) /\ (WorkerHolds(w) => Leaf(w)' = Leaf(w))
           \/ /\ Leaf(w) \in Leaves /\ sema[Leaf(w)] = 1 /\ sema' = [sema EXCEPT ![Leaf(w)] = 0]
              /\ Leaf(w)' = Leaf(w) /\ WorkerHolds(w)'
           \/ /\ Leaf(w) \in Leaves /\ sema' = [sema EXCEPT ![Leaf(w)] = @ + 1]
              /\ WorkerHolds(w) /\ ~WorkerHolds(w)'
  <1>0. TypeOK /\ Control(w) /\ LeafOf \in [Hashes -> Leaves]
    BY LeavesAssumption DEF IInv
  <1>1. pc[w] # "idle" => Leaf(w) \in Leaves
    <2>1. CASE todo[w] # <<>>
      <3>1. Head(todo[w]) \in Hashes
        BY <1>0, <2>1 DEF TypeOK
      <3> QED  BY <1>0, <2>1, <3>1 DEF Leaf
    <2>2. CASE todo[w] = <<>>
      BY <1>0, <2>2 DEF Leaf, Control, TypeOK, Announcing, Scraping, Query
    <2> QED  BY <2>1, <2>2
  <1> USE <1>0 DEF TypeOK, WorkerHolds
  <1>2. CASE Receive(w)
    BY <1>2 DEF Receive, ReceiveAnnounce, ReceiveScrape
  <1>3. CASE waitSemaphoreLeaf(w)
    BY <1>1, <1>3 DEF waitSemaphoreLeaf, Leaf, CanLock
  <1>4. CASE postSemaphoreLeaf(w)
    BY <1>1, <1>4 DEF postSemaphoreLeaf
  <1>5. CASE scrapePost(w)
    BY <1>1, <1>5 DEF scrapePost
  <1>6. CASE deletePeer(w) \/ setTorrent(w) \/ setPeerOf(w) \/ renderHead(w)
             \/ renderPeers(w) \/ scrape(w)
    BY <1>6 DEF deletePeer, setTorrent, setPeerOf, renderHead, renderPeers, scrape, Leaf
  <1> QED  BY <1>2, <1>3, <1>4, <1>5, <1>6 DEF WorkerStep, Work

(* The same for the garbage collector. *)
LEMMA GcSemaphore ==
    ASSUME IInv, GcStep
    PROVE  \/ UNCHANGED sema /\ (GcHolds' <=> GcHolds) /\ (GcHolds => gc'.leaf = gc.leaf)
           \/ /\ gc.leaf \in Leaves /\ sema[gc.leaf] = 1 /\ sema' = [sema EXCEPT ![gc.leaf] = 0]
              /\ gc'.leaf = gc.leaf /\ GcHolds'
           \/ /\ gc.leaf \in Leaves /\ sema' = [sema EXCEPT ![gc.leaf] = @ + 1]
              /\ GcHolds /\ ~GcHolds'
  <1> USE DEF TypeOK, GcHolds
  <1>0. TypeOK /\ GcControl
    BY DEF IInv
  <1>1. CASE gcStart \/ gcLeaf
    BY <1>0, <1>1 DEF gcStart, gcLeaf
  <1>2. CASE gcTorrent \/ gcPeer \/ gcTorrentEnd
    <2>1. CASE gcTorrent
      BY <1>0, <2>1 DEF gcTorrent
    <2>2. CASE gcPeer
      BY <1>0, <2>2 DEF gcPeer
    <2>3. CASE gcTorrentEnd
      BY <1>0, <2>3 DEF gcTorrentEnd
    <2> QED  BY <1>2, <2>1, <2>2, <2>3
  <1>3. CASE gcWait
    BY <1>0, <1>3 DEF gcWait, CanLock, GcControl
  <1>4. CASE gcPost
    BY <1>0, <1>4 DEF gcPost, GcControl
  <1> QED  BY <1>1, <1>2, <1>3, <1>4 DEF GcStep, Collect

(* A step preserves the mutual exclusion. *)
LEMMA ExclusionStep ==
    ASSUME IInv, [Next]_vars
    PROVE  Exclusion'
  <1>0. TypeOK /\ Exclusion /\ (GcHolds => gc.leaf \in Leaves)
    BY DEF IInv, GcControl, GcHolds
  <1>1. ASSUME NEW w \in Workers, WorkerStep(w)
        PROVE  Exclusion'
    <2>1. /\ \A v \in Workers \ {w} : (WorkerHolds(v)' <=> WorkerHolds(v)) /\ Leaf(v)' = Leaf(v)
          /\ gc' = gc /\ (GcHolds' <=> GcHolds)
      BY <1>0, <1>1, WorkerFrame DEF WorkerHolds, Leaf, GcHolds
    <2>2. CASE /\ UNCHANGED sema
               /\ (WorkerHolds(w)' <=> WorkerHolds(w)) /\ (WorkerHolds(w) => Leaf(w)' = Leaf(w))
      BY <1>0, <2>1, <2>2 DEF Exclusion
    <2>3. CASE /\ Leaf(w) \in Leaves /\ sema[Leaf(w)] = 1 /\ sema' = [sema EXCEPT ![Leaf(w)] = 0]
               /\ Leaf(w)' = Leaf(w)
      <3>1. \A v \in Workers \ {w} : WorkerHolds(v) => sema[Leaf(v)] = 0 /\ Leaf(v) # Leaf(w)
        BY <1>0, <2>3 DEF Exclusion
      <3>2. GcHolds => sema[gc.leaf] = 0 /\ gc.leaf # Leaf(w)
        BY <1>0, <2>3 DEF Exclusion
      <3>3. /\ sema'[Leaf(w)] = 0
            /\ \A l \in Leaves : sema[l] = 0 => sema'[l] = 0
            /\ \A l : sema[l] = 0 /\ l # Leaf(w) => sema'[l] = 0
        BY <1>0, <2>3 DEF TypeOK
      <3>4. \A v \in Workers : WorkerHolds(v)' => sema'[Leaf(v)'] = 0
        BY <2>1, <2>3, <3>1, <3>3
      <3>5. GcHolds' => sema'[gc'.leaf] = 0
        BY <2>1, <3>2, <3>3
      <3>6. \A v, u \in Workers : v # u /\ WorkerHolds(v)' /\ WorkerHolds(u)' => Leaf(v)' # Leaf(u)'
        BY <1>0, <2>1, <2>3, <3>1 DEF Exclusion
      <3>7. \A v \in Workers : GcHolds' /\ WorkerHolds(v)' => Leaf(v)' # gc'.leaf
        BY <1>0, <2>1, <2>3, <3>2 DEF Exclusion
      <3> QED  BY <3>4, <3>5, <3>6, <3>7 DEF Exclusion
    <2>4. CASE /\ Leaf(w) \in Leaves /\ sema' = [sema EXCEPT ![Leaf(w)] = @ + 1]
               /\ WorkerHolds(w) /\ ~WorkerHolds(w)'
      <3>1. \A v \in Workers \ {w} : WorkerHolds(v) => sema[Leaf(v)] = 0 /\ Leaf(v) # Leaf(w)
        BY <1>0, <2>4 DEF Exclusion
      <3>2. GcHolds => sema[gc.leaf] = 0 /\ gc.leaf # Leaf(w)
        BY <1>0, <2>4 DEF Exclusion
      <3>3. \A l : sema[l] = 0 /\ l # Leaf(w) => sema'[l] = 0
        BY <1>0, <2>4 DEF TypeOK
      <3>4. \A v \in Workers : WorkerHolds(v)' => sema'[Leaf(v)'] = 0
        BY <2>1, <2>4, <3>1, <3>3
      <3>5. GcHolds' => sema'[gc'.leaf] = 0
        BY <2>1, <3>2, <3>3
      <3>6. \A v, u \in Workers : v # u /\ WorkerHolds(v)' /\ WorkerHolds(u)' => Leaf(v)' # Leaf(u)'
        BY <1>0, <2>1, <2>4 DEF Exclusion
      <3>7. \A v \in Workers : GcHolds' /\ WorkerHolds(v)' => Leaf(v)' # gc'.leaf
        BY <1>0, <2>1, <2>4 DEF Exclusion
      <3> QED  BY <3>4, <3>5, <3>6, <3>7 DEF Exclusion
    <2> QED  BY <1>1, <2>2, <2>3, <2>4, WorkerSemaphore
  <1>2. CASE GcStep
    <2>1. \A v \in Workers : (WorkerHolds(v)' <=> WorkerHolds(v)) /\ Leaf(v)' = Leaf(v)
      BY <1>2, GcFrame DEF WorkerHolds, Leaf, workerVars
    <2>2. CASE UNCHANGED sema /\ (GcHolds' <=> GcHolds) /\ (GcHolds => gc'.leaf = gc.leaf)
      BY <1>0, <2>1, <2>2 DEF Exclusion
    <2>3. CASE /\ gc.leaf \in Leaves /\ sema[gc.leaf] = 1 /\ sema' = [sema EXCEPT ![gc.leaf] = 0]
               /\ gc'.leaf = gc.leaf
      BY <1>0, <2>1, <2>3 DEF Exclusion, TypeOK
    <2>4. CASE /\ gc.leaf \in Leaves /\ sema' = [sema EXCEPT ![gc.leaf] = @ + 1]
               /\ GcHolds /\ ~GcHolds'
      BY <1>0, <2>1, <2>4 DEF Exclusion, TypeOK
    <2> QED  BY <1>2, <2>2, <2>3, <2>4, GcSemaphore
  <1>3. CASE UNCHANGED <<sema, workerVars, gc>>
    BY <1>0, <1>3 DEF Exclusion, WorkerHolds, GcHolds, Leaf, workerVars
  <1> QED  BY <1>1, <1>2, <1>3 DEF Next, WorkerStep, GcStep, Tick, vars

(* The visit of one peer moves the torrent and the number of peers kept     *)
(* along the walk.                                                          *)
LEMMA GcPeerEffect ==
    ASSUME IInv, gcPeer
    PROVE  LET c == committed[gc.item]
               W == Visited(Known(c), gc'.peer)
           IN  /\ c \in Torrent /\ gc.item \in Hashes
               /\ torrents' = [torrents EXCEPT ![gc.item] = Walked(c, gc.limitTime, W)]
               /\ gc' = [gc EXCEPT !.peer = gc'.peer, !.kept = gc'.kept]
               /\ gc'.kept = Cardinality(W \ StalePeers(c, gc.limitTime))
               /\ gc'.peer \in Known(c) \cup {0}
  <1> DEFINE c == committed[gc.item]
             K == Known(c)
             V == Visited(K, gc.peer)
             W == Visited(K, gc'.peer)
             all == StalePeers(c, gc.limitTime)
             t == torrents[gc.item]
  <1>1. gc.pc = "peer" /\ gc.peer # 0 /\ gc.item # 0 /\ gc.item \in Hashes
    BY DEF gcPeer, IInv, GcControl, TypeOK
  <1>2. /\ c \in Torrent /\ t = Walked(c, gc.limitTime, V) /\ gc.peer \in K
        /\ gc.kept = Cardinality(V \ all)
    BY <1>1 DEF IInv, GcWorking, TypeOK
  <1>3. K \in SUBSET Peers /\ K \in SUBSET (Nat \ {0}) /\ V \in SUBSET K /\ gc.peer \in Peers
    BY <1>2, ListsOfNumbers DEF Visited
  <1>4. V = {r \in K : r < gc.peer}
    BY <1>1 DEF Visited
  <1>5. /\ Known(t) = K \ (all \cap V)
        /\ gc.peer \in Known(t) => t.peers[gc.peer] = c.peers[gc.peer]
    BY <1>2, WalkedType
  <1>6. gc.peer \notin V /\ gc.peer \in Known(t)
    BY <1>2, <1>3, <1>4, <1>5
  <1>7. gc'.peer = After(Known(t), gc.peer)
    BY DEF gcPeer, IInv, TypeOK
  <1>8. W = V \cup {gc.peer} /\ (gc'.peer # 0 => gc'.peer \in K)
    <2> DEFINE L == Known(t)
    <2>1. L \in SUBSET K /\ \A r \in K \ L : r < gc.peer
      BY <1>4, <1>5
    <2>2. K \in SUBSET (Nat \ {0}) /\ gc.peer \in K
      BY <1>2, <1>3
    <2> HIDE DEF L, K
    <2>3. /\ Visited(K, After(L, gc.peer)) = Visited(K, gc.peer) \cup {gc.peer}
          /\ After(L, gc.peer) # 0 => After(L, gc.peer) \in K
      BY ONLY <2>1, <2>2, VisitedNext
    <2>4. gc'.peer = After(L, gc.peer)
      BY <1>7 DEF L
    <2> QED  BY <2>3, <2>4
  <1>9. Stale(t.peers[gc.peer], gc.limitTime) <=> gc.peer \in all
    BY <1>3, <1>5, <1>6 DEF StalePeers
  <1>10. torrents' = [torrents EXCEPT ![gc.item] = Walked(c, gc.limitTime, W)]
    <2>1. Walked(c, gc.limitTime, V \cup {gc.peer}) =
            IF Stale(t.peers[gc.peer], gc.limitTime) THEN collectPeer(t, gc.peer) ELSE t
      <3>1. gc.peer \in K \ V /\ V \in SUBSET Peers
        BY <1>2, <1>3, <1>6
      <3>2. LET u == Walked(c, gc.limitTime, V) IN
              Walked(c, gc.limitTime, V \cup {gc.peer}) =
               IF Stale(u.peers[gc.peer], gc.limitTime) THEN collectPeer(u, gc.peer) ELSE u
        <4> HIDE DEF V, c
        <4> QED  BY <1>2, <3>1, WalkedStep
      <3> QED  BY <1>2, <3>2
    <2>2. torrents' = [torrents EXCEPT ![gc.item] =
              IF Stale(t.peers[gc.peer], gc.limitTime) THEN collectPeer(t, gc.peer) ELSE t]
      BY DEF gcPeer
    <2> QED  BY <1>8, <2>1, <2>2
  <1>11. gc'.kept = Cardinality(W \ all)
    <2>1. gc'.kept = IF gc.peer \in all THEN gc.kept ELSE gc.kept + 1
      BY <1>9 DEF gcPeer, IInv, TypeOK
    <2>2. CASE gc.peer \in all
      <3>1. W \ all = V \ all
        BY <1>8, <2>2
      <3> QED  BY <1>2, <2>1, <2>2, <3>1
    <2>3. CASE gc.peer \notin all
      <3>1. W \ all = (V \ all) \cup {gc.peer}
        BY <1>8, <2>3
      <3>2. V \ all \in SUBSET Peers /\ gc.peer \in Peers \ (V \ all)
        BY <1>3, <1>6
      <3>3. Cardinality((V \ all) \cup {gc.peer}) = Cardinality(V \ all) + 1
        BY ONLY <3>2, OneMore, PeersAssumption, UIntAssumption
      <3> QED  BY <1>2, <2>1, <2>3, <3>1, <3>3
    <2> QED  BY <2>2, <2>3
  <1>12. gc' = [gc EXCEPT !.peer = gc'.peer, !.kept = gc'.kept]
    BY DEF gcPeer, IInv, TypeOK
  <1> QED  BY <1>1, <1>2, <1>8, <1>10, <1>11, <1>12

(* The end of a torrent's walk is a visit of the store's collector. *)
LEMMA GcTorrentEndEffect ==
    ASSUME IInv, gcTorrentEnd
    PROVE  LET t == collectTorrent(committed[gc.item], gc.limitTime) IN
           /\ committed[gc.item] \in Torrent /\ gc.item \in Hashes
           /\ t \in Torrent \cup {NoTorrent}
           /\ torrents' = [torrents EXCEPT ![gc.item] = t]
           /\ committed' = [committed EXCEPT ![gc.item] = t]
           /\ t # NoTorrent => t.downloaded = committed[gc.item].downloaded
  <1> DEFINE c == committed[gc.item]
             t == collectTorrent(c, gc.limitTime)
  <1>1. /\ c \in Torrent /\ gc.item \in Hashes
        /\ torrents[gc.item] = Walked(c, gc.limitTime, Known(c))
        /\ gc.kept = Cardinality(Known(c) \ StalePeers(c, gc.limitTime))
    BY DEF gcTorrentEnd, IInv, GcControl, GcWorking, TypeOK, Visited
  <1>2. t = IF gc.kept = 0 THEN NoTorrent ELSE torrents[gc.item]
    BY <1>1, WalkedAll
  <1>3. torrents[gc.item] \in Torrent /\ torrents[gc.item].downloaded = c.downloaded
    BY <1>1, WalkedType
  <1>4. torrents' = [torrents EXCEPT ![gc.item] = t]
    BY <1>2 DEF gcTorrentEnd
  <1>5. committed' = [committed EXCEPT ![gc.item] = t]
    BY <1>1, <1>4 DEF gcTorrentEnd, IInv, TypeOK
  <1> QED  BY <1>1, <1>2, <1>3, <1>4, <1>5

(* The items of a leaf. *)
LEMMA LeafItems ==
    ASSUME NEW l
    PROVE  /\ First(InLeaf(l)) # 0 => First(InLeaf(l)) \in InLeaf(l)
           /\ \A h \in Hashes : After(InLeaf(l), h) # 0 =>
                After(InLeaf(l), h) \in InLeaf(l) /\ After(InLeaf(l), h) # h
           /\ InLeaf(l) = {} <=> First(InLeaf(l)) = 0
  <1>1. InLeaf(l) \in SUBSET (Nat \ {0}) /\ Hashes \in SUBSET (Nat \ {0})
    BY OrderAssumption DEF InLeaf
  <1>2. /\ First(InLeaf(l)) # 0 => First(InLeaf(l)) \in InLeaf(l)
        /\ InLeaf(l) = {} <=> First(InLeaf(l)) = 0
    BY <1>1, FirstIs
  <1>3. ASSUME NEW h \in Hashes, After(InLeaf(l), h) # 0
        PROVE  After(InLeaf(l), h) \in InLeaf(l) /\ After(InLeaf(l), h) # h
    <2> DEFINE S == {y \in InLeaf(l) : y > h}
    <2>1. S \in SUBSET (Nat \ {0}) /\ h \in Nat
      BY <1>1
    <2>2. First(S) # 0 => First(S) \in S
      BY <2>1, FirstIs
    <2>3. \A y \in S : y \in InLeaf(l) /\ y # h
      BY <1>1, <2>1
    <2>4. After(InLeaf(l), h) = First(S)
      BY DEF After
    <2> QED  BY <1>3, <2>2, <2>3, <2>4
  <1> QED  BY <1>2, <1>3

(* The end of a walk goes on with the next torrent or the next leaf; every  *)
(* step keeps the items the collector remembers in the list.                *)
LEMMA GcControlStep ==
    ASSUME IInv, [Next]_vars
    PROVE  GcControl'
  <1>0. /\ TypeOK /\ GcControl /\ Limit \in Nat /\ now \in Nat /\ LastLeaf \in Nat
        /\ LeafOf \in [Hashes -> Leaves] /\ 0 \notin Hashes
    BY TimesAssumption, LeavesAssumption, OrderAssumption DEF IInv, TypeOK, Times, Limit
  <1>1. ASSUME NEW w \in Workers, WorkerStep(w)
        PROVE  GcControl'
    <2>1. gc' = gc /\ now' = now
      BY <1>0, <1>1, WorkerFrame
    <2>2. ASSUME NEW h \in {gc.item, gc.next} \ {0}
          PROVE  torrents'[h] # NoTorrent
      <3>1. GcHolds /\ h \in Hashes /\ torrents[h] # NoTorrent
        BY <1>0 DEF GcControl, GcHolds, TypeOK
      <3>2. ASSUME torrents'[h] # torrents[h]
            PROVE  FALSE
        <4>1. pc[w] \in {"delete", "set", "setPeer"} /\ query[w].hash = h
          BY <1>0, <1>1, <3>1, <3>2, WorkerWrites DEF IInv
        <4>2. WorkerHolds(w) /\ pc[w] \in Announcing
          BY <4>1 DEF WorkerHolds, Announcing
        <4> QED  BY <3>1, <4>1, <4>2, Apart
      <3> QED  BY <3>1, <3>2
    <2> QED  BY <1>0, <2>1, <2>2 DEF GcControl
  <1>2. CASE gcStart
    BY <1>0, <1>2 DEF gcStart, gcUnchanged, GcControl, TypeOK
  <1>3. CASE gcLeaf
    BY <1>0, <1>3 DEF gcLeaf, gcUnchanged, GcControl, TypeOK, Leaves
  <1>4. CASE gcWait
    <2>1. gc' = [gc EXCEPT !.pc = "torrent", !.item = First(InLeaf(gc.leaf))]
          /\ gc.pc = "wait" /\ UNCHANGED <<torrents, now>>
      BY <1>4 DEF gcWait, gcUnchanged
    <2>2. First(InLeaf(gc.leaf)) # 0 =>
            /\ LeafOf[First(InLeaf(gc.leaf))] = gc.leaf
            /\ torrents[First(InLeaf(gc.leaf))] # NoTorrent
      BY ZenonT(60), LeafItems DEF InLeaf
    <2> QED  BY <1>0, <2>1, <2>2 DEF GcControl, TypeOK
  <1>5. CASE gcTorrent
    <2> DEFINE next == After(InLeaf(gc.leaf), gc.item)
               peer == First(Known(torrents[gc.item]))
    <2>1. gc' = [gc EXCEPT !.pc = "peer", !.next = next, !.kept = 0, !.peer = peer]
          /\ gc.pc = "torrent" /\ gc.item # 0 /\ UNCHANGED <<torrents, now>>
      BY <1>5 DEF gcTorrent, gcUnchanged
    <2>2. next # gc.item /\ (next # 0 => LeafOf[next] = gc.leaf /\ torrents[next] # NoTorrent)
      <3>1. gc.item \in Hashes
        BY <1>0, <2>1 DEF TypeOK
      <3>2. next # 0 => next \in InLeaf(gc.leaf) /\ next # gc.item
        BY <3>1, LeafItems
      <3> HIDE DEF next
      <3> QED  BY <2>1, <3>2 DEF InLeaf
    <2> HIDE DEF next, peer
    <2> QED  BY <1>0, <2>1, <2>2 DEF GcControl, TypeOK
  <1>6. CASE gcPeer
    <2> DEFINE u == Walked(committed[gc.item], gc.limitTime, Visited(Known(committed[gc.item]), gc'.peer))
    <2>1. /\ committed[gc.item] \in Torrent /\ gc.item \in Hashes
          /\ torrents' = [torrents EXCEPT ![gc.item] = u]
          /\ gc' = [gc EXCEPT !.peer = gc'.peer, !.kept = gc'.kept]
      BY <1>6, GcPeerEffect
    <2>2. u # NoTorrent
      BY <2>1, WalkedType, NoTorrentAssumption
    <2>3. gc.pc = "peer" /\ now' = now
      BY <1>6 DEF gcPeer, gcUnchanged
    <2> HIDE DEF u
    <2>4. /\ gc'.pc = gc.pc /\ gc'.leaf = gc.leaf /\ gc'.item = gc.item /\ gc'.next = gc.next
          /\ gc'.limitTime = gc.limitTime
      BY <1>0, <2>1 DEF TypeOK
    <2>5. \A h \in {gc.item, gc.next} \ {0} : torrents'[h] # NoTorrent
      BY <1>0, <2>1, <2>2 DEF TypeOK, GcControl
    <2> QED  BY <1>0, <2>3, <2>4, <2>5 DEF GcControl
  <1>7. CASE gcTorrentEnd
    <2> DEFINE u == collectTorrent(committed[gc.item], gc.limitTime)
    <2>1. torrents' = [torrents EXCEPT ![gc.item] = u] /\ gc.item \in Hashes
      BY <1>7, GcTorrentEndEffect
    <2>2. gc' = [gc EXCEPT !.pc = "torrent", !.item = gc.next, !.next = 0, !.kept = 0]
          /\ gc.pc = "peer" /\ gc.peer = 0 /\ now' = now
      BY <1>7 DEF gcTorrentEnd, gcUnchanged
    <2> HIDE DEF u
    <2> QED  BY <1>0, <2>1, <2>2 DEF GcControl, TypeOK
  <1>8. CASE gcPost
    BY <1>0, <1>8 DEF gcPost, gcUnchanged, GcControl, TypeOK
  <1>9. CASE Tick
    BY <1>0, <1>9 DEF Tick, GcControl
  <1>10. CASE UNCHANGED vars
    BY <1>0, <1>10 DEF vars, GcControl
  <1> QED  BY <1>1, <1>2, <1>3, <1>4, <1>5, <1>6, <1>7, <1>8, <1>9, <1>10
            DEF Next, WorkerStep, Collect

(* A step keeps the types. *)
LEMMA TypeStep ==
    ASSUME IInv, [Next]_vars, Exclusion'
    PROVE  TypeOK'
  <1>0. /\ TypeOK /\ \A w \in Workers : Control(w) /\ Working(w)
        /\ now \in Times /\ Limit \in Nat /\ LastLeaf \in Nat /\ MaxTime \in Nat
    BY TimesAssumption, LeavesAssumption DEF IInv, TypeOK, Limit
  <1>1. sema' \in [Leaves -> {0, 1}]
    <2>1. ASSUME NEW w \in Workers, WorkerStep(w)
          PROVE  sema' \in [Leaves -> {0, 1}]
      <3>1. WorkerHolds(w) => sema[Leaf(w)] = 0
        BY DEF IInv, Exclusion
      <3>2. sema \in [Leaves -> {0, 1}]
        BY <1>0 DEF TypeOK
      <3>3. \/ UNCHANGED sema
            \/ Leaf(w) \in Leaves /\ sema' = [sema EXCEPT ![Leaf(w)] = 0]
            \/ Leaf(w) \in Leaves /\ sema' = [sema EXCEPT ![Leaf(w)] = @ + 1] /\ WorkerHolds(w)
        BY <2>1, WorkerSemaphore
      <3> QED  BY ONLY <3>1, <3>2, <3>3
    <2>2. CASE GcStep
      <3>1. GcHolds => sema[gc.leaf] = 0
        BY DEF IInv, Exclusion
      <3>2. sema \in [Leaves -> {0, 1}]
        BY <1>0 DEF TypeOK
      <3>3. \/ UNCHANGED sema
            \/ gc.leaf \in Leaves /\ sema' = [sema EXCEPT ![gc.leaf] = 0]
            \/ gc.leaf \in Leaves /\ sema' = [sema EXCEPT ![gc.leaf] = @ + 1] /\ GcHolds
        BY <2>2, GcSemaphore
      <3> QED  BY ONLY <3>1, <3>2, <3>3
    <2>3. CASE UNCHANGED sema
      BY <1>0, <2>3 DEF TypeOK
    <2> QED  BY <2>1, <2>2, <2>3 DEF Next, WorkerStep, GcStep, Tick, vars
  <1>2. ASSUME NEW w \in Workers, WorkerStep(w)
        PROVE  TypeOK'
    <2> DEFINE h == query[w].hash
    <2>0. gc' = gc /\ now' = now
      BY <1>0, <1>2, WorkerFrame
    <2>1. ASSUME NEW q \in Query, ReceiveAnnounce(w, q)
          PROVE  TypeOK'
      BY <1>0, <1>1, <2>0, <2>1 DEF ReceiveAnnounce, TypeOK
    <2>2. ASSUME NEW hashes \in ScrapeRequests, ReceiveScrape(w, hashes)
          PROVE  TypeOK'
      <3> DEFINE first == SubSeq(hashes, 1, Min({Len(hashes), PacketHashes}))
      <3>1. first \in Seq(Hashes)
        <4>1. hashes \in Seq(Hashes) /\ PacketHashes \in Nat
          BY ScrapesAssumption
        <4> DEFINE S == {Len(hashes), PacketHashes}
        <4>2. S \in SUBSET Nat /\ S # {} /\ Len(hashes) \in S
          BY <4>1
        <4> HIDE DEF S
        <4>3. Min(S) \in Nat /\ Min(S) <= Len(hashes)
          BY <4>2, MinIs
        <4>4. SubSeq(hashes, 1, Min(S)) \in Seq(Hashes)
          <5> DEFINE n == Min(S)
          <5>1. n \in Nat /\ n <= Len(hashes)
            BY <4>3
          <5> HIDE DEF n
          <5>2. SubSeq(hashes, 1, n) \in Seq(Hashes)
            BY <4>1, <5>1
          <5> QED  BY <5>2 DEF n
        <4> QED  BY <4>4 DEF S
      <3>2. /\ todo' = [todo EXCEPT ![w] = first] /\ pc' = [pc EXCEPT ![w] = "scrapeWait"]
            /\ UNCHANGED <<torrents, query, torrent, draft, reply, committed>>
        BY <2>2 DEF ReceiveScrape
      <3> HIDE DEF first
      <3> QED  BY <1>0, <1>1, <2>0, <3>1, <3>2 DEF TypeOK
    <2>3. CASE waitSemaphoreLeaf(w)
      BY <1>0, <1>1, <2>0, <2>3 DEF waitSemaphoreLeaf, TypeOK
    <2>4. CASE deletePeer(w)
      <3>1. query[w] \in Query /\ h \in Hashes
        BY <1>0, <2>4 DEF deletePeer, Control, Announcing, Query
      <3>2. deletePeerPublic(torrents[h], query[w]) \in Torrent \cup {NoTorrent}
        BY <1>0, <3>1, AnnounceTypes DEF TypeOK
      <3> QED  BY <1>0, <1>1, <2>0, <2>4, <3>1, <3>2 DEF deletePeer, TypeOK
    <2>5. CASE setTorrent(w)
      <3>1. query[w] \in Query /\ h \in Hashes
        BY <1>0, <2>5 DEF setTorrent, Control, Announcing, Query
      <3>2. setTorrentL(torrents[h]) \in Torrent
        BY <1>0, <3>1, AnnounceTypes DEF TypeOK
      <3> QED  BY <1>0, <1>1, <2>0, <2>5, <3>1, <3>2 DEF setTorrent, TypeOK
    <2>6. CASE setPeerOf(w)
      <3>1. query[w] \in Query /\ h \in Hashes /\ torrent[w] = h
        BY <1>0, <2>6 DEF setPeerOf, Control, Announcing, Query
      <3>2. torrents[h] \in Torrent
        <4>1. torrents[h] = setTorrentL(committed[h])
          BY <1>0, <2>6 DEF setPeerOf, Working
        <4>2. committed[h] \in Torrent \cup {NoTorrent}
          BY <1>0, <3>1 DEF TypeOK
        <4> QED  BY <1>0, <3>1, <4>1, <4>2, AnnounceTypes
      <3>3. setPeer(torrents[h], query[w], now) \in Torrent
        BY <1>0, <3>1, <3>2, AnnounceTypes
      <3> QED  BY <1>0, <1>1, <2>0, <2>6, <3>1, <3>3 DEF setPeerOf, TypeOK
    <2>7. CASE renderHead(w)
      <3>1. Pointed(w) \in Torrent \cup {NoTorrent}
        BY <1>0 DEF Pointed, TypeOK
      <3> QED  BY <1>0, <1>1, <2>0, <2>7, <3>1, ReplyTypes DEF renderHead, TypeOK
    <2>8. CASE renderPeers(w)
      <3>1. PICK S \in renderAnnouncePeersL(Pointed(w), query[w]) :
              reply' = [reply EXCEPT ![w] = [draft[w] EXCEPT !.peers = S]]
        BY <2>8 DEF renderPeers
      <3>2. /\ draft[w] = ReplyStats(torrents[h]) /\ Pointed(w) = torrents[h]
            /\ torrents[h] \in Torrent \cup {NoTorrent} /\ h \in Hashes
        BY <1>0, <2>8 DEF renderPeers, Working, Control, Announcing, Query, Pointed, TypeOK
      <3>3. [draft[w] EXCEPT !.peers = S] \in Reply
        BY <3>1, <3>2, ReplyTypes
      <3> QED  BY <1>0, <1>1, <2>0, <2>8, <3>1, <3>2, <3>3 DEF renderPeers, TypeOK
    <2>9. CASE postSemaphoreLeaf(w)
      BY <1>0, <1>1, <2>0, <2>9 DEF postSemaphoreLeaf, TypeOK
    <2>10. CASE scrape(w)
      <3>1. Head(todo[w]) \in Hashes
        BY <1>0, <2>10 DEF scrape, Control, Scraping, TypeOK
      <3>2. ReplyStats(torrents[Head(todo[w])]) \in Reply
        BY <1>0, <3>1, ReplyTypes DEF TypeOK
      <3> QED  BY <1>0, <1>1, <2>0, <2>10, <3>2 DEF scrape, TypeOK
    <2>11. CASE scrapePost(w)
      <3>1. Tail(todo[w]) \in Seq(Hashes)
        BY <1>0, <2>11 DEF scrapePost, Control, Scraping, TypeOK
      <3> QED  BY <1>0, <1>1, <2>0, <2>11, <3>1 DEF scrapePost, TypeOK
    <2> QED  BY <1>2, <2>1, <2>2, <2>3, <2>4, <2>5, <2>6, <2>7, <2>8, <2>9, <2>10, <2>11
              DEF WorkerStep, Receive, Work
  <1>3. CASE GcStep
    <2>0. now' = now /\ UNCHANGED <<pc, query, torrent, todo, draft, reply>>
      BY <1>3, GcFrame DEF workerVars
    <2>1. gc.pc = "peer" => gc.item \in Hashes
      BY <1>0 DEF TypeOK, IInv, GcControl
    <2>2. CASE gcStart
      <3>1. now - Limit \in (0 - Limit) .. MaxTime /\ 1 \in 0 .. LastLeaf + 1
        BY <1>0 DEF Times
      <3> QED  BY <1>0, <1>1, <2>0, <2>2, <3>1 DEF gcStart, TypeOK
    <2>3. CASE gcLeaf
      <3>1. gc.leaf <= LastLeaf => gc.leaf + 1 \in 0 .. LastLeaf + 1
        BY <1>0 DEF TypeOK
      <3>2. 0 \in 0 .. LastLeaf + 1 /\ 0 \in (0 - Limit) .. MaxTime /\ gc.leaf \in Int
        BY <1>0 DEF TypeOK
      <3>3. UNCHANGED <<torrents, committed>>
        BY <2>3 DEF gcLeaf
      <3>4. CASE gc' = [gc EXCEPT !.pc = "sleep", !.leaf = 0, !.limitTime = 0]
        BY <1>0, <1>1, <2>0, <3>2, <3>3, <3>4 DEF TypeOK
      <3>5. CASE gc' = [gc EXCEPT !.leaf = @ + 1] /\ gc.leaf <= LastLeaf
        BY <1>0, <1>1, <2>0, <3>1, <3>3, <3>5 DEF TypeOK
      <3>6. CASE gc' = [gc EXCEPT !.pc = "wait"]
        BY <1>0, <1>1, <2>0, <3>3, <3>6 DEF TypeOK
      <3>7. ~(gc.leaf > LastLeaf) => gc.leaf <= LastLeaf
        BY <1>0, <3>2
      <3> QED  BY <2>3, <3>4, <3>5, <3>6, <3>7 DEF gcLeaf
    <2>4. CASE gcWait
      <3>1. First(InLeaf(gc.leaf)) \in Hashes \cup {0}
        BY LeafItems DEF InLeaf
      <3> QED  BY <1>0, <1>1, <2>0, <2>4, <3>1 DEF gcWait, TypeOK
    <2>5. CASE gcTorrent
      <3> DEFINE next == After(InLeaf(gc.leaf), gc.item)
                 peer == First(Known(torrents[gc.item]))
      <3>1. gc.item \in Hashes
        BY <1>0, <2>5 DEF gcTorrent, TypeOK
      <3>2. next \in Hashes \cup {0}
        <4>1. next # 0 => next \in InLeaf(gc.leaf)
          BY <3>1, LeafItems
        <4> HIDE DEF next
        <4> QED  BY <4>1 DEF InLeaf
      <3>3. peer \in Peers \cup {0}
        BY ListsOfNumbers, FirstIs
      <3>4. 0 \in 0 .. Cardinality(Peers)
        BY PeersAssumption, FS_CardinalityType
      <3>5. gc' = [gc EXCEPT !.pc = "peer", !.next = next, !.kept = 0, !.peer = peer]
            /\ UNCHANGED <<torrents, committed>>
        BY <2>5 DEF gcTorrent
      <3> HIDE DEF next, peer
      <3> QED  BY <1>0, <1>1, <2>0, <3>2, <3>3, <3>4, <3>5 DEF TypeOK
    <2>6. CASE gcPeer
      <3> DEFINE c == committed[gc.item]
                 W == Visited(Known(c), gc'.peer)
                 u == Walked(c, gc.limitTime, W)
                 kept == Cardinality(W \ StalePeers(c, gc.limitTime))
      <3>1. /\ c \in Torrent /\ gc.item \in Hashes
            /\ torrents' = [torrents EXCEPT ![gc.item] = u]
            /\ gc' = [gc EXCEPT !.peer = gc'.peer, !.kept = gc'.kept]
            /\ gc'.kept = kept /\ gc'.peer \in Known(c) \cup {0}
        BY <2>6, GcPeerEffect
      <3>2. u \in Torrent
        BY <3>1, WalkedType
      <3>3. gc'.peer \in Peers \cup {0}
        BY <3>1, ListsOfNumbers
      <3>4. kept \in 0 .. Cardinality(Peers)
        <4>1. W \ StalePeers(c, gc.limitTime) \in SUBSET Peers
          BY ListsOfNumbers DEF Visited
        <4>2. kept \in UInt /\ kept <= Cardinality(Peers)
          BY <4>1, PeerSetSize
        <4>3. Cardinality(Peers) \in Nat
          BY PeersAssumption, FS_CardinalityType
        <4> HIDE DEF kept
        <4> QED  BY <4>2, <4>3 DEF UInt
      <3>5. committed' = committed
        BY <2>6 DEF gcPeer
      <3> HIDE DEF u, kept
      <3>6. gc'.kept \in 0 .. Cardinality(Peers)
        BY <3>1, <3>4
      <3> HIDE DEF c, W
      <3>7. \A a, b : a \in Peers \cup {0} /\ b \in 0 .. Cardinality(Peers) =>
              [gc EXCEPT !.peer = a, !.kept = b] \in
                  [pc: {"sleep", "leaf", "wait", "torrent", "peer"},
                   limitTime: (0 - Limit) .. MaxTime, leaf: 0 .. LastLeaf + 1,
                   item: Hashes \cup {0}, next: Hashes \cup {0},
                   peer: Peers \cup {0}, kept: 0 .. Cardinality(Peers)]
        BY <1>0 DEF TypeOK
      <3>8. [gc EXCEPT !.peer = gc'.peer, !.kept = gc'.kept] \in
                  [pc: {"sleep", "leaf", "wait", "torrent", "peer"},
                   limitTime: (0 - Limit) .. MaxTime, leaf: 0 .. LastLeaf + 1,
                   item: Hashes \cup {0}, next: Hashes \cup {0},
                   peer: Peers \cup {0}, kept: 0 .. Cardinality(Peers)]
        BY <3>3, <3>6, <3>7
      <3> QED  BY <1>0, <1>1, <2>0, <3>1, <3>2, <3>5, <3>8 DEF TypeOK
    <2>7. CASE gcTorrentEnd
      <3> DEFINE u == collectTorrent(committed[gc.item], gc.limitTime)
      <3>1. /\ u \in Torrent \cup {NoTorrent} /\ gc.item \in Hashes
            /\ torrents' = [torrents EXCEPT ![gc.item] = u]
            /\ committed' = [committed EXCEPT ![gc.item] = u]
        BY <2>7, GcTorrentEndEffect
      <3>2. gc' = [gc EXCEPT !.pc = "torrent", !.item = gc.next, !.next = 0, !.kept = 0]
        BY <2>7 DEF gcTorrentEnd
      <3>3. 0 \in 0 .. Cardinality(Peers)
        BY PeersAssumption, FS_CardinalityType
      <3> HIDE DEF u
      <3> QED  BY <1>0, <1>1, <2>0, <3>1, <3>2, <3>3 DEF TypeOK
    <2>8. CASE gcPost
      <3>1. gc.leaf + 1 \in 0 .. LastLeaf + 1
        BY <1>0, <2>8 DEF gcPost, IInv, GcControl, Leaves
      <3> QED  BY <1>0, <1>1, <2>0, <2>8, <3>1 DEF gcPost, TypeOK
    <2> QED  BY <1>3, <2>2, <2>3, <2>4, <2>5, <2>6, <2>7, <2>8 DEF GcStep, Collect
  <1>4. CASE Tick
    BY <1>0, <1>4 DEF Tick, TypeOK, Times, workerVars
  <1>5. CASE UNCHANGED vars
    BY <1>0, <1>5 DEF TypeOK, vars, workerVars
  <1> QED  BY <1>2, <1>3, <1>4, <1>5 DEF Next, WorkerStep, GcStep

(* A thread that has just got a leaf finds its torrents as the last step    *)
(* left them.                                                               *)
LEMMA CleanAt ==
    ASSUME IInv, NEW h \in Hashes
    PROVE  /\ \A w \in Workers :
                WorkerHolds(w) /\ Leaf(w) = LeafOf[h] /\ ~WorkerUpdates(w, h) => torrents[h] = committed[h]
           /\ GcHolds /\ gc.leaf = LeafOf[h] /\ ~GcUpdates(h) => torrents[h] = committed[h]
           /\ sema[LeafOf[h]] = 1 => torrents[h] = committed[h]
  <1>1. \A w \in Workers : WorkerUpdates(w, h) => WorkerHolds(w) /\ Leaf(w) = LeafOf[h]
    BY Apart DEF WorkerUpdates, WorkerHolds, Announcing
  <1>2. GcUpdates(h) => GcHolds /\ gc.leaf = LeafOf[h]
    BY OrderAssumption DEF IInv, GcControl, GcUpdates, GcHolds
  <1>3. torrents[h] # committed[h] => GcUpdates(h) \/ \E w \in Workers : WorkerUpdates(w, h)
    BY DEF IInv, Clean
  <1>4. Exclusion
    BY DEF IInv
  <1> QED  BY <1>1, <1>2, <1>3, <1>4 DEF Exclusion

(* Where a worker that updates a torrent goes. *)
LEMMA UpdatesNext ==
    ASSUME IInv, NEW w \in Workers, WorkerStep(w), NEW h \in Hashes, query[w].hash = h,
           pc[w] \in {"delete", "set", "setPeer", "head", "peers"}
    PROVE  /\ pc[w] # "peers" => WorkerUpdates(w, h)'
           /\ pc[w] = "peers" => torrents'[h] = committed'[h] /\ committed'[h] = torrents[h]
  <1>0. TypeOK
    BY DEF IInv
  <1>1. pc[w] \notin {"idle", "wait", "scrapeWait", "post", "scrape", "scrapePost"}
    OBVIOUS
  <1>2. CASE deletePeer(w) \/ setTorrent(w) \/ setPeerOf(w) \/ renderHead(w)
    BY <1>0, <1>2 DEF TypeOK, WorkerUpdates, deletePeer, setTorrent, setPeerOf, renderHead
  <1>3. CASE renderPeers(w)
    BY <1>0, <1>3 DEF TypeOK, renderPeers
  <1> QED  BY <1>1, <1>2, <1>3
            DEF WorkerStep, Receive, ReceiveAnnounce, ReceiveScrape, waitSemaphoreLeaf, Work,
                postSemaphoreLeaf, scrape, scrapePost

(* A torrent differs from its committed value only while somebody works on  *)
(* it.                                                                      *)
LEMMA CleanStep ==
    ASSUME IInv, [Next]_vars
    PROVE  Clean'
  <1> SUFFICES ASSUME NEW h \in Hashes, torrents'[h] # committed'[h]
               PROVE  GcUpdates(h)' \/ \E v \in Workers : WorkerUpdates(v, h)'
    BY DEF Clean
  <1>0. TypeOK /\ Clean /\ \A w \in Workers : Control(w)
    BY DEF IInv
  <1>1. ASSUME NEW w \in Workers, WorkerStep(w)
        PROVE  GcUpdates(h)' \/ \E v \in Workers : WorkerUpdates(v, h)'
    <2>1. CASE torrents'[h] # torrents[h] \/ committed'[h] # committed[h]
      BY <1>0, <1>1, <2>1, WorkerWrites, UpdatesNext
    <2>2. CASE torrents'[h] = torrents[h] /\ committed'[h] = committed[h]
      <3>1. GcUpdates(h) \/ \E v \in Workers : WorkerUpdates(v, h)
        BY <1>0, <2>2 DEF Clean
      <3>2. GcUpdates(h) => GcUpdates(h)'
        BY <1>0, <1>1, WorkerFrame DEF GcUpdates
      <3>3. \A v \in Workers \ {w} : WorkerUpdates(v, h) => WorkerUpdates(v, h)'
        BY <1>0, <1>1, WorkerFrame DEF WorkerUpdates
      <3>4. WorkerUpdates(w, h) => WorkerUpdates(w, h)'
        BY <1>1, UpdatesNext DEF WorkerUpdates
      <3> QED  BY <3>1, <3>2, <3>3, <3>4
    <2> QED  BY <2>1, <2>2
  <1>2. CASE GcStep
    <2>1. \A v \in Workers : WorkerUpdates(v, h) => WorkerUpdates(v, h)'
      BY <1>2, GcFrame DEF WorkerUpdates, workerVars
    <2>2. GcUpdates(h) => GcUpdates(h)'
      <3>1. CASE gcTorrentEnd
        BY <1>0, <3>1 DEF gcTorrentEnd, GcUpdates, TypeOK
      <3>2. CASE gcPeer
        BY <1>0, <3>2 DEF gcPeer, GcUpdates, TypeOK
      <3> QED  BY <1>2, <3>1, <3>2
                DEF GcStep, Collect, gcStart, gcLeaf, gcWait, gcTorrent, gcPost, GcUpdates
    <2>3. torrents'[h] # torrents[h] \/ committed'[h] # committed[h] => GcUpdates(h)
      BY <1>0, <1>2, GcWrites DEF GcUpdates
    <2> QED  BY <1>0, <2>1, <2>2, <2>3 DEF Clean
  <1>3. CASE UNCHANGED <<torrents, committed, workerVars, gc>>
    BY <1>0, <1>3 DEF Clean, GcUpdates, WorkerUpdates, workerVars
  <1> QED  BY <1>1, <1>2, <1>3 DEF Next, WorkerStep, GcStep, Tick, vars

(* No other thread writes the torrent of an announce under way. *)
LEMMA WorkingFrame ==
    ASSUME IInv, [Next]_vars, NEW v \in Workers, ~WorkerStep(v),
           pc[v] \in {"delete", "set", "setPeer", "head", "peers"}
    PROVE  /\ torrents'[query[v].hash] = torrents[query[v].hash]
           /\ committed'[query[v].hash] = committed[query[v].hash]
  <1> DEFINE h == query[v].hash
  <1>0. TypeOK /\ \A w \in Workers : Control(w)
    BY DEF IInv
  <1>1. h \in Hashes /\ WorkerHolds(v) /\ pc[v] \in Announcing
    BY Apart DEF WorkerHolds, Announcing
  <1>2. ASSUME NEW w \in Workers, WorkerStep(w)
        PROVE  torrents'[h] = torrents[h] /\ committed'[h] = committed[h]
    <2>1. v # w
      BY <1>2
    <2>2. pc[w] \in {"delete", "set", "setPeer", "peers"} => query[w].hash # h
      BY <1>1, <2>1, Apart DEF WorkerHolds, Announcing
    <2> QED  BY <1>0, <1>1, <1>2, <2>2, WorkerWrites
  <1>3. CASE GcStep
    <2>1. gc.pc = "peer" => gc.item # h
      BY <1>1, Apart DEF GcHolds
    <2> QED  BY <1>0, <1>1, <1>3, <2>1, GcWrites
  <1>4. CASE UNCHANGED <<torrents, committed>>
    BY <1>4
  <1> QED  BY <1>2, <1>3, <1>4 DEF Next, WorkerStep, GcStep, Tick, vars

(* An announce goes on from what its earlier steps left. *)
LEMMA WorkingStep ==
    ASSUME IInv, [Next]_vars
    PROVE  \A v \in Workers : Working(v)'
  <1> SUFFICES ASSUME NEW v \in Workers PROVE Working(v)'
    OBVIOUS
  <1> DEFINE h == query[v].hash
  <1>0. TypeOK /\ Control(v) /\ Working(v) /\ now \in Times
    BY DEF IInv, TypeOK
  <1>1. CASE ~WorkerStep(v)
    <2>1. now' = now \/ now' = now + 1
      BY <1>0, WorkerFrame, GcFrame DEF Next, WorkerStep, GcStep, Tick, vars
    <2>2. /\ pc'[v] = pc[v] /\ query'[v] = query[v] /\ torrent'[v] = torrent[v] /\ draft'[v] = draft[v]
      BY <1>0, <1>1, WorkerFrame, GcFrame DEF Next, WorkerStep, GcStep, Tick, vars, workerVars
    <2>3. CASE pc[v] \in {"setPeer", "head", "peers"}
      <3>1. torrents'[h] = torrents[h] /\ committed'[h] = committed[h]
        BY <1>1, <2>3, WorkingFrame
      <3>2. \A time \in Times : time <= now => time <= now'
        BY <1>0, <2>1 DEF Times
      <3> QED  BY <1>0, <2>2, <3>1, <3>2 DEF Working
    <2>4. CASE pc[v] \notin {"setPeer", "head", "peers"}
      BY <2>2, <2>4 DEF Working
    <2> QED  BY <2>3, <2>4
  <1>2. CASE WorkerStep(v)
    <2>0. now <= now /\ now' = now
      BY <1>0, <1>2, WorkerFrame DEF Times
    <2>1. CASE deletePeer(v)
      <3>1. /\ query[v] \in Query /\ h \in Hashes /\ query[v].event = URI_EVENT_ID_STOPPED
            /\ torrents[h] \in Torrent \cup {NoTorrent} /\ pc[v] = "delete"
        BY <1>0, <2>1 DEF deletePeer, Control, Announcing, Query, TypeOK
      <3>2. torrents[h] = committed[h]
        <4>1. WorkerHolds(v) /\ Leaf(v) = LeafOf[h] /\ ~WorkerUpdates(v, h)
          BY <3>1, Apart DEF WorkerHolds, Announcing, WorkerUpdates
        <4> QED  BY <3>1, <4>1, CleanAt
      <3>3. torrents'[h] = deletePeerPublic(torrents[h], query[v]) /\ query'[v] = query[v]
            /\ pc'[v] = "head" /\ torrent'[v] = (IF torrents[h] = NoTorrent THEN 0 ELSE h)
            /\ committed' = committed
        BY <1>0, <2>1, <3>1 DEF deletePeer, TypeOK
      <3>4. torrents'[h] = Data!AfterAnnounce(committed[h], query[v], now)
        BY <3>1, <3>2, <3>3, AfterAnnounceIs
      <3>5. torrents'[h] = NoTorrent <=> torrents[h] = NoTorrent
        BY <1>0, <3>1, <3>3, AnnounceTypes
      <3> QED  BY <1>0, <2>0, <3>1, <3>3, <3>4, <3>5, OrderAssumption DEF Working
    <2>2. CASE setTorrent(v)
      <3>1. query[v] \in Query /\ h \in Hashes /\ pc[v] = "set"
        BY <1>0, <2>2 DEF setTorrent, Control, Announcing, Query
      <3>2. torrents[h] = committed[h]
        <4>1. WorkerHolds(v) /\ Leaf(v) = LeafOf[h] /\ ~WorkerUpdates(v, h)
          BY <3>1, Apart DEF WorkerHolds, Announcing, WorkerUpdates
        <4> QED  BY <3>1, <4>1, CleanAt
      <3>3. torrents'[h] = setTorrentL(torrents[h]) /\ query'[v] = query[v]
            /\ pc'[v] = "setPeer" /\ committed' = committed
        BY <1>0, <2>2, <3>1 DEF setTorrent, TypeOK
      <3> QED  BY <3>2, <3>3 DEF Working
    <2>3. CASE setPeerOf(v)
      <3>1. /\ query[v] \in Query /\ h \in Hashes /\ query[v].event # URI_EVENT_ID_STOPPED
            /\ torrent[v] = h /\ torrents[h] = setTorrentL(committed[h])
            /\ committed[h] \in Torrent \cup {NoTorrent}
        BY <1>0, <2>3 DEF setPeerOf, Control, Announcing, Query, Working, TypeOK
      <3>2. torrents[h] \in Torrent
        BY <1>0, <3>1, AnnounceTypes
      <3>3. torrents'[h] = setPeer(torrents[h], query[v], now) /\ query'[v] = query[v]
            /\ pc'[v] = "head" /\ torrent'[v] = h /\ committed' = committed
        BY <1>0, <2>3, <3>1 DEF setPeerOf, TypeOK
      <3>4. torrents'[h] # NoTorrent
        BY <1>0, <3>1, <3>2, <3>3, AnnounceTypes, NoTorrentAssumption
      <3>5. torrents'[h] = Data!AfterAnnounce(committed[h], query[v], now)
        BY <3>1, <3>3, AfterAnnounceIs
      <3> QED  BY <1>0, <2>0, <3>1, <3>3, <3>4, <3>5, OrderAssumption DEF Working
    <2>4. CASE renderHead(v)
      <3>1. Pointed(v) = torrents[h]
        BY <1>0, <2>4 DEF renderHead, Working, Control, Pointed
      <3>2. /\ pc[v] = "head" /\ pc'[v] = "peers" /\ draft'[v] = ReplyStats(Pointed(v))
            /\ UNCHANGED <<torrents, query, torrent, committed>>
        BY <1>0, <2>4 DEF renderHead, TypeOK
      <3> QED  BY <1>0, <2>0, <3>1, <3>2 DEF Working
    <2>5. CASE renderPeers(v)
      BY <1>0, <2>5 DEF renderPeers, Working, TypeOK
    <2>6. CASE postSemaphoreLeaf(v)
      BY <1>0, <2>6 DEF postSemaphoreLeaf, Working, TypeOK
    <2>7. CASE scrape(v)
      BY <1>0, <2>7 DEF scrape, Working, TypeOK
    <2>8. CASE scrapePost(v)
      BY <1>0, <2>8 DEF scrapePost, Working, TypeOK
    <2>9. CASE waitSemaphoreLeaf(v)
      BY <1>0, <2>9 DEF waitSemaphoreLeaf, Working, TypeOK
    <2>10. CASE Receive(v)
      BY <1>0, <2>10 DEF Receive, ReceiveAnnounce, ReceiveScrape, Working, TypeOK
    <2> QED  BY <1>2, <2>1, <2>2, <2>3, <2>4, <2>5, <2>6, <2>7, <2>8, <2>9, <2>10
              DEF WorkerStep, Work
  <1> QED  BY <1>1, <1>2

(* The walk over a torrent goes on from what its earlier steps left. *)
LEMMA GcWorkingStep ==
    ASSUME IInv, [Next]_vars
    PROVE  GcWorking'
  <1>0. TypeOK /\ GcWorking /\ GcControl /\ \A w \in Workers : Control(w)
    BY DEF IInv
  <1>1. CASE gcTorrent
    <2> DEFINE t == torrents[gc.item]
    <2>1. /\ gc'.pc = "peer" /\ gc'.item = gc.item /\ gc'.limitTime = gc.limitTime /\ gc'.kept = 0
          /\ gc'.peer = First(Known(t)) /\ UNCHANGED <<torrents, committed>>
      BY <1>0, <1>1 DEF gcTorrent, TypeOK
    <2>2. gc.pc = "torrent" /\ gc.item \in Hashes /\ t # NoTorrent /\ LeafOf[gc.item] = gc.leaf
      BY <1>0, <1>1 DEF gcTorrent, TypeOK, GcControl
    <2>3. t = committed[gc.item] /\ t \in Torrent
      BY <1>0, <2>2, CleanAt DEF GcHolds, GcUpdates, TypeOK
    <2>4. Visited(Known(t), First(Known(t))) = {}
      BY ListsOfNumbers, VisitedFirst
    <2>5. First(Known(t)) # 0 => First(Known(t)) \in Known(t)
      BY ListsOfNumbers, FirstIs
    <2>6. Walked(t, gc.limitTime, {}) = t
      BY <2>3, WalkedNone
    <2>7. Cardinality({} \ StalePeers(t, gc.limitTime)) = 0
      <3>1. {} \ StalePeers(t, gc.limitTime) = {}
        OBVIOUS
      <3> QED  BY <3>1, FS_EmptySet
    <2> HIDE DEF t
    <2>8. committed'[gc'.item] = t /\ torrents'[gc'.item] = t
      BY <2>1, <2>3 DEF t
    <2> QED  BY <2>1, <2>2, <2>4, <2>5, <2>6, <2>7, <2>8 DEF GcWorking
  <1>2. CASE gcPeer
    <2> DEFINE c == committed[gc.item]
               W == Visited(Known(c), gc'.peer)
               u == Walked(c, gc.limitTime, W)
    <2>1. /\ c \in Torrent /\ gc.item \in Hashes
          /\ torrents' = [torrents EXCEPT ![gc.item] = u]
          /\ gc' = [gc EXCEPT !.peer = gc'.peer, !.kept = gc'.kept]
          /\ gc'.kept = Cardinality(W \ StalePeers(c, gc.limitTime))
          /\ gc'.peer \in Known(c) \cup {0}
      BY <1>2, GcPeerEffect
    <2>2. committed' = committed
      BY <1>2 DEF gcPeer
    <2>3. gc'.item = gc.item /\ gc'.limitTime = gc.limitTime
      BY <1>0, <2>1 DEF TypeOK
    <2> HIDE DEF u
    <2>4. torrents'[gc.item] = u
      BY <1>0, <2>1 DEF TypeOK
    <2>5. c # NoTorrent
      BY <2>1, NoTorrentAssumption
    <2> QED  BY <2>1, <2>2, <2>3, <2>4, <2>5 DEF GcWorking, u
  <1>3. CASE gcTorrentEnd \/ gcStart \/ gcLeaf \/ gcWait \/ gcPost
    <2>1. gc'.pc # "peer"
      BY <1>0, <1>3 DEF gcTorrentEnd, gcStart, gcLeaf, gcWait, gcPost, TypeOK
    <2> QED  BY <2>1 DEF GcWorking
  <1>4. ASSUME NEW w \in Workers, WorkerStep(w)
        PROVE  GcWorking'
    <2>1. gc' = gc
      BY <1>0, <1>4, WorkerFrame
    <2>2. CASE gc.pc = "peer"
      <3>1. gc.item \in Hashes /\ GcHolds
        BY <1>0, <2>2 DEF GcControl, TypeOK, GcHolds
      <3>2. pc[w] \in {"delete", "set", "setPeer", "peers"} => query[w].hash # gc.item
        BY <3>1, Apart DEF WorkerHolds, Announcing
      <3>3. torrents'[gc.item] = torrents[gc.item] /\ committed'[gc.item] = committed[gc.item]
        BY <1>0, <1>4, <3>1, <3>2, WorkerWrites
      <3> QED  BY <1>0, <2>1, <3>3 DEF GcWorking
    <2>3. CASE gc.pc # "peer"
      BY <2>1, <2>3 DEF GcWorking
    <2> QED  BY <2>2, <2>3
  <1>5. CASE UNCHANGED <<torrents, committed, gc>>
    BY <1>0, <1>5 DEF GcWorking
  <1> QED  BY <1>1, <1>2, <1>3, <1>4, <1>5 DEF Next, WorkerStep, Collect, Tick, vars

(* The sets of workers are finite. *)
LEMMA WorkerSets ==
    ASSUME NEW S \in SUBSET Workers
    PROVE  IsFiniteSet(S) /\ Cardinality(S) \in Nat
  BY WorkersAssumption, FS_Subset, FS_CardinalityType

(* No completion under way has lowered the counter: the committed value of  *)
(* downloaded is at most the current one, and one less at the most.         *)
LEMMA DownloadsNow ==
    ASSUME IInv, NEW h \in Hashes
    PROVE  /\ Downloads(committed[h]) \in Nat /\ Downloads(torrents[h]) \in Nat
           /\ Downloads(committed[h]) <= Downloads(torrents[h])
           /\ \A w \in Workers :
                pc[w] = "peers" /\ query[w].hash = h =>
                    \/ Downloads(torrents[h]) = Downloads(committed[h])
                    \/ /\ Downloads(torrents[h]) = Downloads(committed[h]) + 1
                       /\ w \in InFlight(h)
  <1> DEFINE c == committed[h]  t == torrents[h]
  <1>0. TypeOK /\ DownloadsLeft /\ c \in Torrent \cup {NoTorrent} /\ t \in Torrent \cup {NoTorrent}
    BY DEF IInv, TypeOK
  <1>1. Downloads(c) \in Nat /\ Downloads(t) \in Nat
    BY <1>0, UIntAssumption DEF Downloads, Torrent, UInt
  <1>2. ASSUME NEW w \in Workers, pc[w] \in {"head", "peers"}, query[w].hash = h
        PROVE  \/ Downloads(t) = Downloads(c)
               \/ Downloads(t) = Downloads(c) + 1 /\ w \in InFlight(h)
    <2>1. query[w] \in Query
      BY <1>2 DEF IInv, Control, Announcing
    <2>2. PICK time \in Times : t = Data!AfterAnnounce(c, query[w], time)
      BY <1>2 DEF IInv, Working
    <2>3. /\ Downloads(t) = Downloads(c) \/ Downloads(t) = Inc(Downloads(c))
          /\ query[w].event # URI_EVENT_ID_COMPLETED => Downloads(t) = Downloads(c)
      BY <1>0, <2>1, <2>2, DownloadedStep
    <2>4. CASE query[w].event = URI_EVENT_ID_COMPLETED
      <3>1. w \in InFlight(h)
        BY <1>2, <2>4 DEF InFlight, Completing
      <3>2. InFlight(h) \in SUBSET Workers
        BY DEF InFlight, Completing
      <3>3. Cardinality(InFlight(h)) \in Nat \ {0}
        BY <3>1, <3>2, WorkerSets, FS_EmptySet
      <3>4. Cardinality(InFlight(h)) + Downloads(c) <= MaxDownloads
        BY <1>0 DEF DownloadsLeft
      <3>5. Inc(Downloads(c)) = Downloads(c) + 1
        BY <1>1, <3>3, <3>4, UIntAssumption DEF Inc, UInt
      <3> QED  BY <2>3, <3>1, <3>5
    <2> QED  BY <2>3, <2>4
  <1>3. ASSUME NEW w \in Workers, pc[w] = "setPeer", query[w].hash = h
        PROVE  Downloads(t) = Downloads(c)
    <2>1. t = setTorrentL(c)
      BY <1>3 DEF IInv, Working
    <2> QED  BY <1>0, <2>1, NoTorrentAssumption, EmptyIsTorrent DEF setTorrentL, Downloads, EmptyTorrent
  <1>4. ASSUME GcUpdates(h)
        PROVE  Downloads(t) = Downloads(c)
    <2>1. c # NoTorrent /\ \E V : t = Walked(c, gc.limitTime, V)
      BY <1>4 DEF IInv, GcWorking, GcUpdates
    <2> QED  BY <1>0, <2>1, WalkedType, NoTorrentAssumption DEF Downloads
  <1>5. Downloads(c) <= Downloads(t)
    <2>1. CASE t = c
      BY <1>1, <2>1
    <2>2. CASE GcUpdates(h)
      BY <1>1, <1>4, <2>2
    <2>3. ASSUME NEW w \in Workers, WorkerUpdates(w, h)
          PROVE  Downloads(c) <= Downloads(t)
      <3> HIDE DEF c, t
      <3> QED  BY <1>1, <1>2, <1>3, <2>3 DEF WorkerUpdates
    <2> QED  BY <2>1, <2>2, <2>3 DEF IInv, Clean
  <1> QED  BY <1>1, <1>2, <1>5

(* The completions under way after the step of a worker. *)
LEMMA InFlightNext ==
    ASSUME IInv, NEW w \in Workers, WorkerStep(w), NEW h \in Hashes
    PROVE  \/ InFlight(h)' \subseteq InFlight(h) /\ (pc[w] = "peers" => w \notin InFlight(h)')
           \/ /\ InFlight(h)' \subseteq Completing(h) \cup {w} /\ pc[w] = "idle"
              /\ Cardinality(Completing(h)) + Downloads(torrents[h]) < MaxDownloads
  <1>0. TypeOK /\ Control(w) /\ 0 \notin Hashes
    BY OrderAssumption DEF IInv
  <1>1. \A v \in Workers \ {w} : pc'[v] = pc[v] /\ query'[v] = query[v]
    BY <1>0, WorkerFrame
  <1>2. ASSUME NEW q \in Query, ReceiveAnnounce(w, q)
        PROVE  \/ InFlight(h)' \subseteq InFlight(h) /\ pc[w] # "peers"
               \/ /\ InFlight(h)' \subseteq Completing(h) \cup {w} /\ pc[w] = "idle"
                  /\ Cardinality(Completing(h)) + Downloads(torrents[h]) < MaxDownloads
    <2>1. pc[w] = "idle" /\ query'[w] = q /\ pc'[w] = "wait" /\ DownloadsBounded(q)
      BY <1>0, <1>2 DEF ReceiveAnnounce, TypeOK
    <2>2. CASE q.hash = h /\ q.event = URI_EVENT_ID_COMPLETED
      <3>1. InFlight(h)' \subseteq Completing(h) \cup {w}
        BY <1>1 DEF InFlight, Completing
      <3> QED  BY <2>1, <2>2, <3>1 DEF DownloadsBounded, Downloads
    <2>3. CASE ~(q.hash = h /\ q.event = URI_EVENT_ID_COMPLETED)
      BY <1>1, <2>1, <2>3 DEF InFlight, Completing
    <2> QED  BY <2>2, <2>3
  <1>3. CASE postSemaphoreLeaf(w)
    BY <1>0, <1>1, <1>3 DEF postSemaphoreLeaf, InFlight, Completing, TypeOK, NoQuery
  <1>4. CASE renderPeers(w)
    BY <1>0, <1>1, <1>4 DEF renderPeers, InFlight, Completing, TypeOK
  <1>5. ASSUME pc[w] \notin {"peers", "post"}, pc'[w] # "post", query'[w] = query[w]
        PROVE  InFlight(h)' \subseteq InFlight(h)
    BY <1>1, <1>5 DEF InFlight, Completing
  <1>6. CASE \/ waitSemaphoreLeaf(w) \/ deletePeer(w) \/ setTorrent(w) \/ setPeerOf(w)
             \/ renderHead(w) \/ scrape(w) \/ scrapePost(w)
             \/ \E hashes \in ScrapeRequests : ReceiveScrape(w, hashes)
    <2>1. pc[w] \notin {"peers", "post"} /\ pc'[w] # "post" /\ query'[w] = query[w]
      BY <1>0, <1>6 DEF waitSemaphoreLeaf, deletePeer, setTorrent, setPeerOf, renderHead, scrape,
                        scrapePost, ReceiveScrape, TypeOK
    <2> QED  BY <1>5, <2>1
  <1> QED  BY <1>2, <1>3, <1>4, <1>6 DEF WorkerStep, Receive, Work

(* A step leaves room in downloaded for the completions under way. *)
LEMMA DownloadsStep ==
    ASSUME IInv, [Next]_vars
    PROVE  DownloadsLeft'
  <1> SUFFICES ASSUME NEW h \in Hashes
               PROVE  Cardinality(InFlight(h)') + Downloads(committed'[h]) <= MaxDownloads
    BY DEF DownloadsLeft
  <1> DEFINE c == Downloads(committed[h])  d == Downloads(committed'[h])
             m == Cardinality(InFlight(h))  n == Cardinality(InFlight(h)')
  <1>0. /\ TypeOK /\ MaxDownloads \in Nat /\ \A w \in Workers : Control(w)
        /\ m + c <= MaxDownloads /\ 0 \notin Hashes
    BY UIntAssumption, OrderAssumption DEF IInv, DownloadsLeft, UInt
  <1>1. InFlight(h) \in SUBSET Workers /\ InFlight(h)' \in SUBSET Workers
    BY DEF InFlight, Completing
  <1>2. m \in Nat /\ n \in Nat /\ c \in Nat
    BY <1>1, WorkerSets, DownloadsNow
  <1>3. InFlight(h)' \subseteq InFlight(h) => n <= m
    BY <1>1, WorkerSets, FS_Subset
  <1>4. ASSUME NEW w \in Workers, WorkerStep(w)
        PROVE  n + d <= MaxDownloads
    <2>1. CASE committed'[h] = committed[h]
      <3>1. CASE InFlight(h)' \subseteq InFlight(h)
        BY <1>0, <1>2, <1>3, <2>1, <3>1
      <3>2. CASE /\ InFlight(h)' \subseteq Completing(h) \cup {w}
                 /\ Cardinality(Completing(h)) + Downloads(torrents[h]) < MaxDownloads
        <4>1. Completing(h) \in SUBSET Workers /\ Completing(h) \cup {w} \in SUBSET Workers
          BY DEF Completing
        <4>2. Cardinality(Completing(h) \cup {w}) <= Cardinality(Completing(h)) + 1
          BY <4>1, WorkerSets, FS_AddElement
        <4>3. n <= Cardinality(Completing(h) \cup {w})
          BY <3>2, <4>1, WorkerSets, FS_Subset
        <4>4. c <= Downloads(torrents[h]) /\ Downloads(torrents[h]) \in Nat
          BY DownloadsNow
        <4>5. Cardinality(Completing(h)) \in Nat /\ Cardinality(Completing(h) \cup {w}) \in Nat
          BY <4>1, WorkerSets
        <4> QED  BY <1>0, <1>2, <2>1, <3>2, <4>2, <4>3, <4>4, <4>5
      <3> QED  BY <1>4, <3>1, <3>2, InFlightNext
    <2>2. CASE committed'[h] # committed[h]
      <3>1. pc[w] = "peers" /\ query[w].hash = h
        BY <1>0, <1>4, <2>2, WorkerWrites
      <3>2. d = Downloads(torrents[h])
        BY <1>4, <3>1, UpdatesNext
      <3>3. InFlight(h)' \subseteq InFlight(h) \ {w}
        BY <1>4, <3>1, InFlightNext
      <3>4. CASE d = c
        BY <1>0, <1>2, <1>3, <3>3, <3>4
      <3>5. CASE d = c + 1 /\ w \in InFlight(h)
        <4>1. Cardinality(InFlight(h) \ {w}) = m - 1
          BY <1>1, <3>5, WorkerSets, FS_RemoveElement
        <4>2. n <= Cardinality(InFlight(h) \ {w})
          BY <1>1, <3>3, WorkerSets, FS_Subset, FS_RemoveElement
        <4> QED  BY <1>0, <1>2, <3>5, <4>1, <4>2
      <3> QED  BY <3>1, <3>2, <3>4, <3>5, DownloadsNow
    <2> QED  BY <2>1, <2>2
  <1>5. CASE GcStep
    <2>1. InFlight(h)' = InFlight(h)
      BY <1>5, GcFrame DEF InFlight, Completing, workerVars
    <2>2. d = c \/ d = 0
      <3>1. CASE gcTorrentEnd
        <4>1. PICK t : t = collectTorrent(committed[gc.item], gc.limitTime)
          OBVIOUS
        <4>2. /\ t \in Torrent \cup {NoTorrent} /\ committed[gc.item] \in Torrent
              /\ committed' = [committed EXCEPT ![gc.item] = t]
              /\ t # NoTorrent => t.downloaded = committed[gc.item].downloaded
          BY <3>1, <4>1, GcTorrentEndEffect
        <4> QED  BY <1>0, <4>2, NoTorrentAssumption DEF Downloads, TypeOK
      <3>2. CASE ~gcTorrentEnd
        BY <1>5, <3>2 DEF GcStep, Collect, gcStart, gcLeaf, gcTorrent, gcPeer, gcPost, gcWait
      <3> QED  BY <3>1, <3>2
    <2> QED  BY <1>0, <1>2, <2>1, <2>2
  <1>6. CASE UNCHANGED <<committed, pc, query>>
    BY <1>0, <1>6 DEF InFlight, Completing
  <1> QED  BY <1>4, <1>5, <1>6 DEF Next, WorkerStep, GcStep, Tick, vars, workerVars

(* Every step preserves the invariant. *)
LEMMA IInvStep ==
    ASSUME IInv, [Next]_vars
    PROVE  IInv'
  <1>1. Exclusion'
    BY ExclusionStep
  <1>2. TypeOK'
    BY <1>1, TypeStep
  <1>3. \A w \in Workers : Control(w)'
    BY ControlStep
  <1>4. \A w \in Workers : Working(w)'
    BY WorkingStep
  <1>5. GcControl' /\ Clean' /\ GcWorking' /\ DownloadsLeft'
    BY GcControlStep, CleanStep, GcWorkingStep, DownloadsStep
  <1> QED  BY <1>1, <1>2, <1>3, <1>4, <1>5 DEF IInv

(* The invariant holds in every reachable state. *)
THEOREM Invariance == Spec => []IInv
  <1>1. Init => IInv
    BY IInvInit
  <1>2. IInv /\ [Next]_vars => IInv'
    BY IInvStep
  <1> QED  BY <1>1, <1>2, PTL DEF Spec

-----------------------------------------------------------------------------
(* The store that Tracker names is the one the lemmas are about *)

(* The initial states, the steps and the counters are the same. *)
LEMMA SameStore ==
    /\ Store!Init = Data!Init
    /\ Store!Next = Data!Next
    /\ Store!vars = Data!vars
    /\ Store!CountersExact = Data!CountersExact
  <1>1. Store!Init = Data!Init
    BY ZenonT(60) DEF Store!Init, Data!Init
  <1>2. Store!vars = Data!vars
    BY ZenonT(60) DEF Store!vars, Data!vars
  <1>3. Store!CountersExact = Data!CountersExact
    BY ZenonT(60) DEF Store!CountersExact, Data!CountersExact, Store!LiveTorrents, Data!LiveTorrents,
           Store!Seeds, Data!Seeds, Store!Known, Data!Known, Store!Cardinality, Data!Cardinality,
           Store!URI_EVENT_ID_COMPLETED, Data!URI_EVENT_ID_COMPLETED
  <1>4. \A t, e, f : Store!changeTorrentStatsL(t, e, f) = Data!changeTorrentStatsL(t, e, f)
    BY ZenonT(60) DEF Store!changeTorrentStatsL, Data!changeTorrentStatsL, Store!NewPeerStats,
           Data!NewPeerStats, Store!RemovedPeerStats, Data!RemovedPeerStats,
           Store!ChangedPeerStats, Data!ChangedPeerStats, Store!Inc, Data!Inc, Store!Dec,
           Data!Dec, Store!URI_EVENT_ID_NONE, Data!URI_EVENT_ID_NONE,
           Store!URI_EVENT_ID_COMPLETED, Data!URI_EVENT_ID_COMPLETED, Store!URI_EVENT_ID_CONTINUE,
           Data!URI_EVENT_ID_CONTINUE
  <1>5. \A t, q, time : Store!AfterAnnounce(t, q, time) = Data!AfterAnnounce(t, q, time)
    <2>1. \A t : Store!reInitList(t) = Data!reInitList(t) /\ Store!setTorrentL(t) = Data!setTorrentL(t)
      BY ZenonT(60) DEF Store!reInitList, Data!reInitList, Store!AddU, Data!AddU, Store!setTorrentL,
             Data!setTorrentL, Store!EmptyTorrent, Data!EmptyTorrent
    <2>2. \A t, q, time : Store!setPeer(t, q, time) = Data!setPeer(t, q, time)
      BY <1>4, <2>1, ZenonT(60) DEF Store!setPeer, Data!setPeer, Store!URI_EVENT_ID_NONE,
             Data!URI_EVENT_ID_NONE
    <2>3. \A t, q : Store!deletePeerPublic(t, q) = Data!deletePeerPublic(t, q)
      BY <1>4, ZenonT(60) DEF Store!deletePeerPublic, Data!deletePeerPublic, Store!Known, Data!Known,
             Store!URI_EVENT_ID_NONE, Data!URI_EVENT_ID_NONE
    <2> QED
      BY <2>1, <2>2, <2>3, ZenonT(60) DEF Store!AfterAnnounce, Data!AfterAnnounce, Store!setPeerPublic,
             Data!setPeerPublic, Store!URI_EVENT_ID_STOPPED, Data!URI_EVENT_ID_STOPPED
  <1>6. \A t, q : Store!renderAnnouncePeersL(t, q) = Data!renderAnnouncePeersL(t, q)
    BY ZenonT(60) DEF Store!renderAnnouncePeersL, Data!renderAnnouncePeersL, Store!Eligible,
           Data!Eligible, Store!Known, Data!Known, Store!numwant, Data!numwant, Store!RenderLimit,
           Data!RenderLimit, Store!Cardinality, Data!Cardinality, Store!IsFiniteSet,
           Data!IsFiniteSet
  <1>7. \A t, limitTime : Store!collectTorrent(t, limitTime) = Data!collectTorrent(t, limitTime)
    BY ZenonT(60) DEF Store!collectTorrent, Data!collectTorrent, Store!StalePeers, Data!StalePeers,
           Store!Stale, Data!Stale, Store!Seeds, Data!Seeds, Store!Known, Data!Known, Store!SubU,
           Data!SubU, Store!Cardinality, Data!Cardinality, Store!IsFiniteSet, Data!IsFiniteSet,
           Store!URI_EVENT_ID_COMPLETED, Data!URI_EVENT_ID_COMPLETED
  <1>8. \A t : Store!ReplyStats(t) = Data!ReplyStats(t)
    BY ZenonT(60) DEF Store!ReplyStats, Data!ReplyStats
  <1>9. /\ Store!Query = Data!Query /\ Store!Times = Data!Times
        /\ Store!LimitTimes = Data!LimitTimes
        /\ \A t, q : Store!DownloadsBounded(t, q) = Data!DownloadsBounded(t, q)
    BY ZenonT(60) DEF Store!Query, Data!Query, Store!Times, Data!Times, Store!LimitTimes,
           Data!LimitTimes, Store!DownloadsBounded, Data!DownloadsBounded,
           Store!URI_EVENT_ID_COMPLETED, Data!URI_EVENT_ID_COMPLETED
  <1>10. Store!Next = Data!Next
    <2>1. \A w, q, time : Store!Announce(w, q, time) = Data!Announce(w, q, time)
      BY <1>5, <1>6, <1>8, <1>9, ZenonT(60) DEF Store!Announce, Data!Announce
    <2>2. \A w, h : Store!Scrape(w, h) = Data!Scrape(w, h)
      BY <1>8, ZenonT(60) DEF Store!Scrape, Data!Scrape
    <2>3. \A h, limitTime : Store!Collect(h, limitTime) = Data!Collect(h, limitTime)
      BY <1>7, ZenonT(60) DEF Store!Collect, Data!Collect
    <2> QED
      BY <1>9, <2>1, <2>2, <2>3, ZenonT(60) DEF Store!Next, Data!Next, Store!Send, Data!Send,
             Store!Tick, Data!Tick
  <1> QED  BY <1>1, <1>2, <1>3, <1>10

-----------------------------------------------------------------------------
(* The threads implement the store *)

(* The end of an announce is the announce of the store. *)
LEMMA RenderPeersIsAnnounce ==
    ASSUME IInv, NEW w \in Workers, renderPeers(w)
    PROVE  Data!Next
  <1> DEFINE q == query[w]  h == q.hash  c == committed[h]  t == torrents[h]
  <1>0. TypeOK /\ pc[w] = "peers" /\ q \in Query /\ h \in Hashes
        /\ c \in Torrent \cup {NoTorrent} /\ t \in Torrent \cup {NoTorrent}
    BY DEF IInv, TypeOK, Control, Announcing, renderPeers, Query
  <1>1. PICK time \in Times : time <= now /\ t = Data!AfterAnnounce(c, q, time)
    BY <1>0 DEF IInv, Working
  <1>2. Pointed(w) = t
    BY <1>0 DEF IInv, Control, Working, Pointed
  <1>3. draft[w] = ReplyStats(t)
    BY <1>0 DEF IInv, Working
  <1>4. \E S \in Data!renderAnnouncePeersL(t, q) :
            reply' = [reply EXCEPT ![w] = [Data!ReplyStats(t) EXCEPT !.peers = S]]
    <2>1. PICK S \in renderAnnouncePeersL(t, q) :
                reply' = [reply EXCEPT ![w] = [draft[w] EXCEPT !.peers = S]]
      BY <1>2 DEF renderPeers
    <2> QED  BY <1>3, <2>1, SameReplies
  <1>5. committed' = [committed EXCEPT ![h] = t] /\ now' = now
    BY DEF renderPeers
  <1>6. Data!DownloadsBounded(c, q)
    <2> SUFFICES ASSUME q.event = URI_EVENT_ID_COMPLETED, c # NoTorrent
                 PROVE  c.downloaded < MaxDownloads
      BY DEF Data!DownloadsBounded, Data!URI_EVENT_ID_COMPLETED, URI_EVENT_ID_COMPLETED
    <2>1. w \in InFlight(h) /\ InFlight(h) \in SUBSET Workers
      BY <1>0 DEF InFlight, Completing
    <2>2. Cardinality(InFlight(h)) \in Nat \ {0}
      BY <2>1, WorkerSets, FS_EmptySet
    <2>3. Downloads(c) = c.downloaded /\ c.downloaded \in Nat /\ MaxDownloads \in Nat
      BY <1>0, UIntAssumption DEF Downloads, Torrent, UInt
    <2>4. Cardinality(InFlight(h)) + Downloads(c) <= MaxDownloads
      BY <1>0 DEF IInv, DownloadsLeft
    <2> QED  BY <2>2, <2>3, <2>4
  <1>7. Data!Announce(w, q, time)
    BY <1>1, <1>4, <1>5, <1>6 DEF Data!Announce
  <1>8. q \in Data!Query /\ time \in Data!Times
    BY <1>0, <1>1, SameSets
  <1> QED  BY <1>7, <1>8 DEF Data!Next

(* The callback of a hash of a scrape is the scrape of the store. *)
LEMMA ScrapeIsScrape ==
    ASSUME IInv, NEW w \in Workers, scrape(w)
    PROVE  Data!Next
  <1> DEFINE h == Head(todo[w])
  <1>1. TypeOK /\ pc[w] = "scrape" /\ todo[w] # <<>>
    BY DEF IInv, scrape, Control, Scraping
  <1>2. h \in Hashes
    BY <1>1 DEF TypeOK
  <1>3. WorkerHolds(w) /\ Leaf(w) = LeafOf[h] /\ ~WorkerUpdates(w, h)
    BY <1>1 DEF WorkerHolds, Leaf, WorkerUpdates
  <1>4. torrents[h] = committed[h]
    BY <1>2, <1>3, CleanAt
  <1>5. /\ reply' = [reply EXCEPT ![w] = Data!ReplyStats(committed[h])]
        /\ UNCHANGED <<committed, now>>
    BY <1>4, SameReplies DEF scrape
  <1> QED  BY <1>2, <1>5 DEF Data!Next, Data!Scrape

(* The end of a torrent's callback is the visit of the store's collector. *)
LEMMA TorrentEndIsCollect ==
    ASSUME IInv, gcTorrentEnd
    PROVE  Data!Next
  <1> DEFINE h == gc.item  c == committed[h]  limitTime == gc.limitTime
  <1>1. /\ c \in Torrent /\ h \in Hashes
        /\ committed' = [committed EXCEPT ![h] = collectTorrent(c, limitTime)]
    BY GcTorrentEndEffect
  <1>2. c # NoTorrent
    BY <1>1, NoTorrentAssumption
  <1>3. UNCHANGED <<reply, now>>
    BY DEF gcTorrentEnd, gcUnchanged, workerVars
  <1>4. now \in Times /\ limitTime + Limit \in 0 .. now /\ limitTime \in Int
    BY TimesAssumption DEF IInv, TypeOK, GcControl, gcTorrentEnd, Limit
  <1>5. limitTime <= now - MaxAliveTime - IntervalStep
    BY <1>4, TimesAssumption DEF Limit, Times
  <1>6. limitTime \in Data!LimitTimes
    <2>1. limitTime + Limit \in Data!Times
      BY <1>4, TimesAssumption DEF Data!Times, Times
    <2>2. limitTime = (limitTime + Limit) - MaxAliveTime - IntervalStep
      BY <1>4, TimesAssumption DEF Limit
    <2> QED  BY <2>1, <2>2 DEF Data!LimitTimes
  <1>7. committed' = [committed EXCEPT ![h] = Data!collectTorrent(@, limitTime)]
    BY <1>1, SameLists
  <1>8. Data!Collect(h, limitTime)
    BY <1>2, <1>3, <1>5, <1>7 DEF Data!Collect
  <1> QED  BY <1>1, <1>6, <1>8 DEF Data!Next

(* Every step of the threads is one step of the store or none. *)
LEMMA StoreStep ==
    ASSUME IInv, [Next]_vars
    PROVE  [Data!Next]_(Data!vars)
  <1>1. ASSUME NEW w \in Workers, Receive(w) \/ waitSemaphoreLeaf(w) \/ deletePeer(w)
                                  \/ setTorrent(w) \/ setPeerOf(w) \/ renderHead(w)
        PROVE  UNCHANGED Data!vars
    BY <1>1 DEF Receive, ReceiveAnnounce, ReceiveScrape, waitSemaphoreLeaf, deletePeer,
                setTorrent, setPeerOf, renderHead, Data!vars
  <1>2. ASSUME NEW w \in Workers, postSemaphoreLeaf(w) \/ scrapePost(w)
        PROVE  Data!Next
    <2>1. reply[w] # NoReply
      BY <1>2 DEF IInv, Control, postSemaphoreLeaf, scrapePost
    <2>2. reply' = [reply EXCEPT ![w] = NoReply] /\ UNCHANGED <<committed, now>>
      BY <1>2 DEF postSemaphoreLeaf, scrapePost
    <2> QED  BY <2>1, <2>2 DEF Data!Next, Data!Send
  <1>3. CASE gcStart \/ gcLeaf \/ gcTorrent \/ gcPeer \/ gcPost \/ gcWait
    BY <1>3 DEF gcStart, gcLeaf, gcTorrent, gcPeer, gcPost, gcWait, gcUnchanged, workerVars, Data!vars
  <1>4. CASE Tick
    BY <1>4 DEF Tick, workerVars, Data!Next, Data!Tick
  <1>5. CASE UNCHANGED vars
    BY <1>5 DEF vars, workerVars, Data!vars
  <1> QED  BY <1>1, <1>2, <1>3, <1>4, <1>5, RenderPeersIsAnnounce, ScrapeIsScrape, TorrentEndIsCollect
            DEF Next, Work, Collect

-----------------------------------------------------------------------------
(* What holds of the threads in every reachable state *)

(* Every variable keeps its type: no semaphore is posted twice, no counter  *)
(* leaves its width and the collector never counts more peers than there    *)
(* are.                                                                     *)
THEOREM TypeCorrect == Spec => []TypeOK
  <1>1. IInv => TypeOK
    BY DEF IInv
  <1> QED  BY <1>1, Invariance, PTL

(* waitSemaphoreLeaf and postSemaphoreLeaf exclude: a leaf is held by one   *)
(* worker or by the garbage collector, and by no two of them.               *)
THEOREM ExclusionCorrect == Spec => []Exclusion
  <1>1. IInv => Exclusion
    BY DEF IInv
  <1> QED  BY <1>1, Invariance, PTL

(* The thread that holds the semaphore of a leaf: it is past its wait and   *)
(* before its post, so it waits for no semaphore itself.                    *)
LeafHeld(l) ==
    \/ \E w \in Workers : WorkerHolds(w) /\ Leaf(w) = l
    \/ GcHolds /\ gc.leaf = l
SemaphoresHeld == \A l \in Leaves : sema[l] = 0 <=> LeafHeld(l)

(* A step preserves that a taken semaphore has a holder. *)
LEMMA SemaphoresHeldStep ==
    ASSUME IInv, Exclusion', SemaphoresHeld, [Next]_vars
    PROVE  SemaphoresHeld'
  <1> SUFFICES ASSUME NEW l \in Leaves, sema'[l] = 0
               PROVE  LeafHeld(l)'
    BY DEF SemaphoresHeld, LeafHeld, Exclusion
  <1>0. TypeOK /\ sema \in [Leaves -> {0, 1}] /\ (sema[l] = 0 => LeafHeld(l))
    BY DEF IInv, TypeOK, SemaphoresHeld
  <1>1. ASSUME NEW w \in Workers, WorkerStep(w)
        PROVE  LeafHeld(l)'
    <2>1. /\ \A v \in Workers \ {w} : (WorkerHolds(v)' <=> WorkerHolds(v)) /\ Leaf(v)' = Leaf(v)
          /\ gc' = gc /\ (GcHolds' <=> GcHolds)
      BY <1>0, <1>1, WorkerFrame DEF WorkerHolds, Leaf, GcHolds
    <2>2. CASE /\ UNCHANGED sema
               /\ (WorkerHolds(w)' <=> WorkerHolds(w)) /\ (WorkerHolds(w) => Leaf(w)' = Leaf(w))
      BY <1>0, <2>1, <2>2 DEF LeafHeld
    <2>3. CASE /\ Leaf(w) \in Leaves /\ sema[Leaf(w)] = 1 /\ sema' = [sema EXCEPT ![Leaf(w)] = 0]
               /\ Leaf(w)' = Leaf(w) /\ WorkerHolds(w)'
      <3>1. CASE l = Leaf(w)
        BY <2>3, <3>1 DEF LeafHeld
      <3>2. CASE l # Leaf(w)
        <4>1. LeafHeld(l) /\ ~(WorkerHolds(w) /\ Leaf(w) = l)
          BY <1>0, <2>3, <3>2
        <4> QED  BY <2>1, <4>1 DEF LeafHeld
      <3> QED  BY <3>1, <3>2
    <2>4. CASE /\ Leaf(w) \in Leaves /\ sema' = [sema EXCEPT ![Leaf(w)] = @ + 1]
               /\ WorkerHolds(w) /\ ~WorkerHolds(w)'
      <3>1. sema[Leaf(w)] = 0
        BY <2>4 DEF IInv, Exclusion
      <3>2. l # Leaf(w) /\ LeafHeld(l)
        BY <1>0, <2>4, <3>1
      <3> QED  BY <2>1, <3>2 DEF LeafHeld
    <2> QED  BY <1>1, <2>2, <2>3, <2>4, WorkerSemaphore
  <1>2. CASE GcStep
    <2>1. \A v \in Workers : (WorkerHolds(v)' <=> WorkerHolds(v)) /\ Leaf(v)' = Leaf(v)
      BY <1>2, GcFrame DEF WorkerHolds, Leaf, workerVars
    <2>2. CASE UNCHANGED sema /\ (GcHolds' <=> GcHolds) /\ (GcHolds => gc'.leaf = gc.leaf)
      BY <1>0, <2>1, <2>2 DEF LeafHeld
    <2>3. CASE /\ gc.leaf \in Leaves /\ sema[gc.leaf] = 1 /\ sema' = [sema EXCEPT ![gc.leaf] = 0]
               /\ gc'.leaf = gc.leaf /\ GcHolds'
      BY <1>0, <2>1, <2>3 DEF LeafHeld
    <2>4. CASE /\ gc.leaf \in Leaves /\ sema' = [sema EXCEPT ![gc.leaf] = @ + 1]
               /\ GcHolds /\ ~GcHolds'
      <3>1. sema[gc.leaf] = 0
        BY <2>4 DEF IInv, Exclusion
      <3> QED  BY <1>0, <2>1, <2>4, <3>1 DEF LeafHeld
    <2> QED  BY <1>2, <2>2, <2>3, <2>4, GcSemaphore
  <1>3. CASE UNCHANGED <<sema, workerVars, gc>>
    BY <1>0, <1>3 DEF LeafHeld, WorkerHolds, GcHolds, Leaf, workerVars
  <1> QED  BY <1>1, <1>2, <1>3 DEF Next, WorkerStep, GcStep, Tick, vars

(* No semaphore is lost: a leaf is taken just while a worker or the garbage *)
(* collector works on it, whatever way a request went.  With the exclusion, *)
(* a thread that cannot take a leaf is behind exactly one thread, which     *)
(* waits for none: the threads never wait for each other in a circle.       *)
THEOREM SemaphoresCorrect == Spec => []SemaphoresHeld
  <1>1. Init => SemaphoresHeld
    BY DEF Init, SemaphoresHeld, LeafHeld, WorkerHolds, GcHolds
  <1>2. IInv /\ IInv' /\ SemaphoresHeld /\ [Next]_vars => SemaphoresHeld'
    BY SemaphoresHeldStep DEF IInv
  <1> QED  BY <1>1, <1>2, Invariance, PTL DEF Spec

(* No thread follows a pointer to a freed torrent or peer: the torrent that *)
(* a worker found, and the torrent, the next torrent and the peer that      *)
(* mapList keeps across the collector's callbacks, are still in the list.   *)
THEOREM PointersCorrect == Spec => []PointersValid
  <1>1. IInv => PointersValid
    <2> SUFFICES ASSUME IInv PROVE PointersValid
      OBVIOUS
    <2>0. TypeOK /\ GcControl /\ GcWorking
      BY DEF IInv
    <2>1. ASSUME NEW w \in Workers, torrent[w] # 0
          PROVE  torrents[torrent[w]] # NoTorrent
      <3> DEFINE h == query[w].hash
      <3>1. pc[w] \in {"setPeer", "head", "peers"} /\ torrent[w] = h /\ Working(w)
        BY <2>1 DEF IInv, Control
      <3>2. CASE pc[w] = "setPeer"
        <4>1. h \in Hashes
          BY <3>2, Apart DEF Announcing
        <4>2. torrents[h] = setTorrentL(committed[h]) /\ committed[h] \in Torrent \cup {NoTorrent}
          BY <2>0, <3>1, <3>2, <4>1 DEF Working, TypeOK
        <4> QED  BY <3>1, <4>2, NoTorrentAssumption, EmptyIsTorrent DEF setTorrentL
      <3>3. CASE pc[w] \in {"head", "peers"}
        BY <2>1, <3>1, <3>3 DEF Working
      <3> QED  BY <3>1, <3>2, <3>3
    <2>2. \A h \in {gc.item, gc.next} \ {0} : torrents[h] # NoTorrent
      BY <2>0 DEF GcControl
    <2>3. ASSUME gc.peer # 0
          PROVE  gc.peer \in Known(torrents[gc.item])
      <3> DEFINE c == committed[gc.item]  V == Visited(Known(c), gc.peer)
      <3>1. gc.pc = "peer" /\ gc.item \in Hashes
        BY <2>0, <2>3 DEF GcControl, TypeOK
      <3>2. /\ c \in Torrent /\ gc.peer \in Known(c)
            /\ torrents[gc.item] = Walked(c, gc.limitTime, V)
        BY <2>0, <2>3, <3>1 DEF GcWorking, TypeOK
      <3>3. gc.peer \notin V
        <4>1. gc.peer \in Nat
          BY <3>2, OrderAssumption DEF Known
        <4> QED  BY <2>3, <4>1 DEF Visited
      <3>4. Known(Walked(c, gc.limitTime, V)) = Known(c) \ (StalePeers(c, gc.limitTime) \cap V)
        BY <3>2, WalkedType
      <3> QED  BY <3>2, <3>3, <3>4
    <2> QED  BY <2>1, <2>2, <2>3 DEF PointersValid
  <1> QED  BY <1>1, Invariance, PTL

(* freeList never stops the program: when the walk over the peers of a      *)
(* torrent kept none, none was added behind the walk and the list is empty. *)
THEOREM FreedCorrect == Spec => []FreedListEmpty
  <1>1. IInv => FreedListEmpty
    <2> SUFFICES ASSUME IInv, gc.pc = "peer", gc.peer = 0, gc.kept = 0
                 PROVE  Known(torrents[gc.item]) = {}
      BY DEF FreedListEmpty
    <2> DEFINE c == committed[gc.item]
    <2>1. /\ c \in Torrent /\ torrents[gc.item] = Walked(c, gc.limitTime, Known(c))
          /\ Cardinality(Known(c) \ StalePeers(c, gc.limitTime)) = 0
      BY DEF IInv, GcControl, GcWorking, TypeOK, Visited
    <2> QED  BY <2>1, WalkedAll
  <1> QED  BY <1>1, Invariance, PTL

(* The threads implement the store: every announce, every hash of a scrape  *)
(* and every visit of the collector takes effect in one step, whatever the  *)
(* other threads do between its own steps.                                  *)
THEOREM Refinement == Spec => StoreSpec
  <1>1. Init => Data!Init
    BY DEF Init, Data!Init
  <1>2. IInv /\ [Next]_vars => [Data!Next]_(Data!vars)
    BY StoreStep
  <1>3. Init => Store!Init
    BY <1>1, SameStore
  <1>4. IInv /\ [Next]_vars => [Store!Next]_(Store!vars)
    BY <1>2, SameStore DEF Store!vars, Data!vars
  <1> QED  BY <1>3, <1>4, Invariance, PTL DEF Spec, StoreSpec, Store!Spec

(* With the events completed, started, stopped and paused the counters of   *)
(* every torrent whose leaf is free are exact: no thread sees another one's *)
(* half done update of them.                                                *)
THEOREM CountersCorrect ==
    ASSUME URI_EVENT_ID_NONE \notin Events, URI_EVENT_ID_CONTINUE \notin Events
    PROVE  Spec => []CommittedCountersExact
  <1>1. Spec => Data!Spec
    <2>1. Init => Data!Init
      BY DEF Init, Data!Init
    <2>2. IInv /\ [Next]_vars => [Data!Next]_(Data!vars)
      BY StoreStep
    <2> QED  BY <2>1, <2>2, Invariance, PTL DEF Spec, Data!Spec
  <1>2. Data!Spec => []Data!CountersExact
    <2>1. Data!URI_EVENT_ID_NONE \notin Events /\ Data!URI_EVENT_ID_CONTINUE \notin Events
      BY DEF Data!URI_EVENT_ID_NONE, URI_EVENT_ID_NONE,
             Data!URI_EVENT_ID_CONTINUE, URI_EVENT_ID_CONTINUE
    <2> QED  BY <2>1, Data!CountersCorrect, SameAssumptions
  <1>3. IInv /\ Data!CountersExact => CommittedCountersExact
    BY CleanAt, SameStore DEF CommittedCountersExact
  <1> QED  BY <1>1, <1>2, <1>3, Invariance, PTL
=============================================================================
