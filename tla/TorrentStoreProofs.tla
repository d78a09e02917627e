------------------------- MODULE TorrentStoreProofs -------------------------
(***************************************************************************)
(* Theorems about TorrentStore, for every number of hashes, peers and      *)
(* workers.  The first part says what the operators of TorrentData do to   *)
(* the type of a torrent; the second part what they do to its counters and *)
(* to the set of its peers; the theorems combine them over Next.           *)
(***************************************************************************)
EXTENDS TorrentStore, FiniteSetTheorems, TLAPS

(* The unsigned ++ and -- of a counter stay in range. *)
LEMMA CounterType ==
    ASSUME NEW x \in UInt
    PROVE  Inc(x) \in UInt /\ Dec(x) \in UInt
  BY UIntAssumption DEF UInt, Inc, Dec

(* So does the subtraction of the collected peers from a counter. *)
LEMMA SubUType ==
    ASSUME NEW x \in UInt, NEW n \in UInt
    PROVE  SubU(x, n) \in UInt
  BY UIntAssumption DEF UInt, SubU

(* Sets of peers are finite and their sizes are unsigned ints. *)
LEMMA PeerSetSize ==
    ASSUME NEW S \in SUBSET Peers
    PROVE  IsFiniteSet(S) /\ Cardinality(S) \in UInt
  <1>1. IsFiniteSet(S) /\ Cardinality(S) <= Cardinality(Peers)
    BY PeersAssumption, FS_Subset
  <1>2. Cardinality(S) \in Nat /\ Cardinality(Peers) \in Nat
    BY <1>1, PeersAssumption, FS_CardinalityType
  <1> QED  BY <1>1, <1>2, UIntAssumption DEF UInt

(* changeTorrentStatsL touches the three counters only. *)
LEMMA StatsEffect ==
    ASSUME NEW t \in Torrent, NEW oldEvent, NEW newEvent
    PROVE  /\ changeTorrentStatsL(t, oldEvent, newEvent) \in Torrent
           /\ changeTorrentStatsL(t, oldEvent, newEvent).peers = t.peers
           /\ changeTorrentStatsL(t, oldEvent, newEvent).level = t.level
  <1>1. /\ Inc(t.complete) \in UInt /\ Dec(t.complete) \in UInt
        /\ Inc(t.incomplete) \in UInt /\ Dec(t.incomplete) \in UInt
        /\ Inc(t.downloaded) \in UInt
    BY CounterType DEF Torrent
  <1>2. ASSUME NEW r \in {NewPeerStats(t, newEvent), RemovedPeerStats(t, oldEvent),
                          ChangedPeerStats(t, oldEvent, newEvent), t}
        PROVE  r \in Torrent /\ r.peers = t.peers /\ r.level = t.level
    BY <1>1 DEF Torrent, NewPeerStats, RemovedPeerStats, ChangedPeerStats
  <1> QED  BY <1>2 DEF changeTorrentStatsL

(* The hash table changes the level of a list and nothing else. *)
LEMMA reInitListEffect ==
    ASSUME NEW t \in Torrent
    PROVE  /\ reInitList(t) \in Torrent
           /\ reInitList(t).peers = t.peers
           /\ reInitList(t).complete = t.complete
           /\ reInitList(t).incomplete = t.incomplete
           /\ reInitList(t).downloaded = t.downloaded
  BY DEF reInitList, Torrent

(* The torrent that setTorrentL allocates is a torrent. *)
LEMMA EmptyTorrentType == EmptyTorrent \in Torrent
  BY UIntAssumption DEF EmptyTorrent, Torrent, UInt

(* The peer an announce leaves in the list. *)
NewPeer(t, q, time) ==
    [event |-> q.event, updateTime |-> time,
     ipVersion |-> (IF t.peers[q.peer] = NoPeer THEN {} ELSE t.peers[q.peer].ipVersion)
                       \cup {q.ipVersion}]

(* The record setPeerPublic writes for the announcing peer is a peer. *)
LEMMA NewPeerType ==
    ASSUME NEW t \in Torrent, NEW q \in Query, NEW time \in Times
    PROVE  NewPeer(t, q, time) \in PeerData
  <1>1. q.peer \in Peers /\ q.event \in AllEvents /\ q.ipVersion \in IpVersions
    BY EventsAssumption DEF Query
  <1>2. t.peers[q.peer] \in PeerData \cup {NoPeer}
    BY <1>1 DEF Torrent
  <1> QED  BY <1>1, <1>2 DEF NewPeer, PeerData

OldEvent(t, q) ==
    IF t.peers[q.peer] = NoPeer THEN URI_EVENT_ID_NONE ELSE t.peers[q.peer].event

(* setPeer in terms of the peer it writes and the event it replaces. *)
LEMMA setPeerIs ==
    ASSUME NEW t, NEW q, NEW time
    PROVE  setPeer(t, q, time) =
             [changeTorrentStatsL(reInitList(t), OldEvent(t, q), q.event)
                EXCEPT !.peers = [@ EXCEPT ![q.peer] = NewPeer(t, q, time)]]
  BY DEF setPeer, NewPeer, OldEvent

(* setPeer returns a torrent; it changes the list for q.peer only. *)
LEMMA setPeerEffect ==
    ASSUME NEW t \in Torrent, NEW q \in Query, NEW time \in Times
    PROVE  /\ setPeer(t, q, time) \in Torrent
           /\ setPeer(t, q, time).peers = [t.peers EXCEPT ![q.peer] = NewPeer(t, q, time)]
           /\ setPeer(t, q, time).level = reInitList(t).level
           /\ LET r == changeTorrentStatsL(reInitList(t), OldEvent(t, q), q.event)
              IN  /\ setPeer(t, q, time).complete = r.complete
                  /\ setPeer(t, q, time).incomplete = r.incomplete
                  /\ setPeer(t, q, time).downloaded = r.downloaded
  <1> DEFINE r == changeTorrentStatsL(reInitList(t), OldEvent(t, q), q.event)
  <1>1. r \in Torrent /\ r.peers = t.peers /\ r.level = reInitList(t).level
    BY StatsEffect, reInitListEffect
  <1>2. NewPeer(t, q, time) \in PeerData
    BY NewPeerType
  <1> HIDE DEF r
  <1>3. [r EXCEPT !.peers = [@ EXCEPT ![q.peer] = NewPeer(t, q, time)]] \in Torrent
    BY <1>1, <1>2 DEF Torrent
  <1>4. setPeer(t, q, time) = [r EXCEPT !.peers = [@ EXCEPT ![q.peer] = NewPeer(t, q, time)]]
    BY setPeerIs DEF r
  <1>5. LET s == [r EXCEPT !.peers = [@ EXCEPT ![q.peer] = NewPeer(t, q, time)]]
        IN  /\ s.peers = [t.peers EXCEPT ![q.peer] = NewPeer(t, q, time)]
            /\ s.level = r.level /\ s.complete = r.complete
            /\ s.incomplete = r.incomplete /\ s.downloaded = r.downloaded
    BY <1>1 DEF Torrent
  <1> QED  BY <1>1, <1>3, <1>4, <1>5 DEF r

(* The list of t without the peer of q, when the peer is in the list. *)
LEMMA deletePeerEffect ==
    ASSUME NEW t \in Torrent, NEW q \in Query, q.peer \in Known(t)
    PROVE  /\ deletePeerPublic(t, q) \in Torrent
           /\ deletePeerPublic(t, q).peers = [t.peers EXCEPT ![q.peer] = NoPeer]
           /\ deletePeerPublic(t, q).level = t.level
           /\ LET r == changeTorrentStatsL(t, t.peers[q.peer].event, URI_EVENT_ID_NONE)
              IN  /\ deletePeerPublic(t, q).complete = r.complete
                  /\ deletePeerPublic(t, q).incomplete = r.incomplete
                  /\ deletePeerPublic(t, q).downloaded = r.downloaded
  <1> DEFINE r == changeTorrentStatsL(t, t.peers[q.peer].event, URI_EVENT_ID_NONE)
  <1>1. r \in Torrent /\ r.peers = t.peers /\ r.level = t.level
    BY StatsEffect
  <1>2. deletePeerPublic(t, q) = [r EXCEPT !.peers = [@ EXCEPT ![q.peer] = NoPeer]]
    BY NoTorrentAssumption DEF deletePeerPublic
  <1> HIDE DEF r
  <1>3. LET s == [r EXCEPT !.peers = [@ EXCEPT ![q.peer] = NoPeer]]
        IN  /\ s \in Torrent
            /\ s.peers = [t.peers EXCEPT ![q.peer] = NoPeer]
            /\ s.level = r.level /\ s.complete = r.complete
            /\ s.incomplete = r.incomplete /\ s.downloaded = r.downloaded
    BY <1>1 DEF Torrent
  <1> QED  BY <1>1, <1>2, <1>3 DEF r

(* An announce "stopped" of an unknown peer changes nothing. *)
LEMMA deletePeerNoop ==
    ASSUME NEW t, NEW q, t = NoTorrent \/ q.peer \notin Known(t)
    PROVE  deletePeerPublic(t, q) = t
  BY DEF deletePeerPublic

(* setTorrentL returns the torrent of the hash, or a new empty one. *)
LEMMA setTorrentEffect ==
    ASSUME NEW t \in Torrent \cup {NoTorrent}
    PROVE  /\ setTorrentL(t) \in Torrent
           /\ t \in Torrent => setTorrentL(t) = t
           /\ t = NoTorrent => setTorrentL(t) = EmptyTorrent
  BY EmptyTorrentType, NoTorrentAssumption DEF setTorrentL

(* An announce turns a torrent, or none, into a torrent, or none. *)
LEMMA AfterAnnounceType ==
    ASSUME NEW t \in Torrent \cup {NoTorrent}, NEW q \in Query, NEW time \in Times
    PROVE  AfterAnnounce(t, q, time) \in Torrent \cup {NoTorrent}
  <1>1. CASE q.event = URI_EVENT_ID_STOPPED
    <2>1. CASE t = NoTorrent \/ q.peer \notin Known(t)
      BY <1>1, <2>1, deletePeerNoop DEF AfterAnnounce
    <2>2. CASE t \in Torrent /\ q.peer \in Known(t)
      BY <1>1, <2>2, deletePeerEffect DEF AfterAnnounce
    <2> QED  BY <2>1, <2>2
  <1>2. CASE q.event # URI_EVENT_ID_STOPPED
    BY <1>2, setTorrentEffect, setPeerEffect DEF AfterAnnounce, setPeerPublic
  <1> QED  BY <1>1, <1>2

(* The listed peers and the seeds among them are peers. *)
LEMMA KnownSubset ==
    ASSUME NEW t
    PROVE  Known(t) \in SUBSET Peers /\ Seeds(t) \in SUBSET Known(t)
  BY DEF Known, Seeds

(* What a visit of the garbage collector does to a torrent it keeps. *)
LEMMA collectEffect ==
    ASSUME NEW t \in Torrent, NEW limitTime, StalePeers(t, limitTime) # Known(t)
    PROVE  LET s == collectTorrent(t, limitTime)
               stale == StalePeers(t, limitTime)
               seeds == stale \cap Seeds(t)
           IN  /\ s \in Torrent
               /\ s.peers = [p \in Peers |-> IF p \in stale THEN NoPeer ELSE t.peers[p]]
               /\ s.complete = SubU(t.complete, Cardinality(seeds))
               /\ s.incomplete = SubU(t.incomplete, Cardinality(stale \ seeds))
               /\ s.downloaded = t.downloaded
               /\ s.level = t.level
  <1> DEFINE stale == StalePeers(t, limitTime)
             seeds == stale \cap Seeds(t)
  <1>1. stale \in SUBSET Peers /\ seeds \in SUBSET Peers /\ stale \ seeds \in SUBSET Peers
    BY KnownSubset DEF StalePeers
  <1>2. Cardinality(seeds) \in UInt /\ Cardinality(stale \ seeds) \in UInt
    BY <1>1, PeerSetSize
  <1>3. /\ SubU(t.complete, Cardinality(seeds)) \in UInt
        /\ SubU(t.incomplete, Cardinality(stale \ seeds)) \in UInt
    BY <1>2, SubUType DEF Torrent
  <1>4. collectTorrent(t, limitTime) =
          [t EXCEPT !.peers = [p \in Peers |-> IF p \in stale THEN NoPeer ELSE t.peers[p]],
                    !.complete = SubU(@, Cardinality(seeds)),
                    !.incomplete = SubU(@, Cardinality(stale \ seeds))]
    BY DEF collectTorrent
  <1>5. [p \in Peers |-> IF p \in stale THEN NoPeer ELSE t.peers[p]]
            \in [Peers -> PeerData \cup {NoPeer}]
    BY DEF Torrent
  <1> HIDE DEF stale, seeds
  <1>6. LET s == [t EXCEPT !.peers = [p \in Peers |-> IF p \in stale THEN NoPeer ELSE t.peers[p]],
                    !.complete = SubU(@, Cardinality(seeds)),
                    !.incomplete = SubU(@, Cardinality(stale \ seeds))]
        IN  /\ s \in Torrent
            /\ s.peers = [p \in Peers |-> IF p \in stale THEN NoPeer ELSE t.peers[p]]
            /\ s.complete = SubU(t.complete, Cardinality(seeds))
            /\ s.incomplete = SubU(t.incomplete, Cardinality(stale \ seeds))
            /\ s.downloaded = t.downloaded /\ s.level = t.level
    BY <1>3, <1>5 DEF Torrent
  <1> QED  BY <1>4, <1>6 DEF stale, seeds

(* A visit of the collector leaves a torrent, or frees it. *)
LEMMA collectType ==
    ASSUME NEW t \in Torrent, NEW limitTime
    PROVE  collectTorrent(t, limitTime) \in Torrent \cup {NoTorrent}
  <1>1. CASE StalePeers(t, limitTime) = Known(t)
    BY <1>1 DEF collectTorrent
  <1>2. CASE StalePeers(t, limitTime) # Known(t)
    BY <1>2, collectEffect
  <1> QED  BY <1>1, <1>2

(* The head of a reply, without peers, is a reply. *)
LEMMA ReplyStatsType ==
    ASSUME NEW t \in Torrent \cup {NoTorrent}
    PROVE  ReplyStats(t) \in Reply
  BY UIntAssumption DEF ReplyStats, Reply, Torrent, UInt

(* A reply lists known peers only. *)
LEMMA RenderedPeers ==
    ASSUME NEW t, NEW q, NEW S \in renderAnnouncePeersL(t, q)
    PROVE  S \in SUBSET Peers /\ Cardinality(S) <= RenderLimit(numwant(q))
  BY DEF renderAnnouncePeersL, Eligible, Known

(* What a step of Announce does, in the form the proofs below use. *)
LEMMA AnnounceStep ==
    ASSUME TypeOK, NEW w \in Workers, NEW q \in Query, NEW time \in Times, Announce(w, q, time)
    PROVE  /\ torrents[q.hash] \in Torrent \cup {NoTorrent}
           /\ torrents' = [torrents EXCEPT ![q.hash] = AfterAnnounce(torrents[q.hash], q, time)]
           /\ \E S \in SUBSET Peers :
                /\ Cardinality(S) <= RenderLimit(numwant(q))
                /\ reply' = [reply EXCEPT ![w] =
                     [ReplyStats(AfterAnnounce(torrents[q.hash], q, time)) EXCEPT !.peers = S]]
           /\ DownloadsBounded(torrents[q.hash], q)
           /\ q.hash \in Hashes
           /\ now' = now
  BY RenderedPeers DEF TypeOK, Announce, Query

(* The store keeps its type: in particular the counters, which may wrap,   *)
(* never leave the range of an unsigned int, and a reply lists peers only. *)
THEOREM TypeCorrect == Spec => []TypeOK
  <1>1. Init => TypeOK
    BY TimesAssumption DEF Init, TypeOK, Times
  <1>2. TypeOK /\ [Next]_vars => TypeOK'
    <2> SUFFICES ASSUME TypeOK, [Next]_vars PROVE TypeOK'
      OBVIOUS
    <2>1. ASSUME NEW w \in Workers, NEW q \in Query, NEW time \in Times, Announce(w, q, time)
          PROVE  TypeOK'
      <3> DEFINE t == AfterAnnounce(torrents[q.hash], q, time)
      <3>1. t \in Torrent \cup {NoTorrent}
        BY <2>1, AnnounceStep, AfterAnnounceType
      <3>2. PICK S \in SUBSET Peers :
              reply' = [reply EXCEPT ![w] = [ReplyStats(t) EXCEPT !.peers = S]]
        BY <2>1, AnnounceStep
      <3>3. ReplyStats(t) \in Reply
        BY <3>1, ReplyStatsType
      <3>4. torrents' = [torrents EXCEPT ![q.hash] = t] /\ now' = now
        BY <2>1, AnnounceStep
      <3> HIDE DEF t
      <3>5. [ReplyStats(t) EXCEPT !.peers = S] \in Reply
        BY <3>3 DEF Reply
      <3> QED  BY <3>1, <3>2, <3>4, <3>5 DEF TypeOK
    <2>2. ASSUME NEW w \in Workers, NEW h \in Hashes, Scrape(w, h)
          PROVE  TypeOK'
      <3>1. ReplyStats(torrents[h]) \in Reply
        BY ReplyStatsType DEF TypeOK
      <3> QED  BY <2>2, <3>1 DEF TypeOK, Scrape
    <2>3. ASSUME NEW w \in Workers, Send(w)
          PROVE  TypeOK'
      BY <2>3 DEF TypeOK, Send
    <2>4. ASSUME NEW h \in Hashes, NEW limitTime \in LimitTimes, Collect(h, limitTime)
          PROVE  TypeOK'
      <3>1. torrents[h] \in Torrent
        BY <2>4 DEF TypeOK, Collect
      <3>2. collectTorrent(torrents[h], limitTime) \in Torrent \cup {NoTorrent}
        BY <3>1, collectType
      <3> QED  BY <2>4, <3>2 DEF TypeOK, Collect
    <2>5. CASE Tick
      BY <2>5, TimesAssumption DEF TypeOK, Tick, Times
    <2>6. CASE UNCHANGED vars
      BY <2>6 DEF TypeOK, vars
    <2> QED  BY <2>1, <2>2, <2>3, <2>4, <2>5, <2>6 DEF Next
  <1> QED  BY <1>1, <1>2, PTL DEF Spec

-----------------------------------------------------------------------------
(* The sum of the counters *)

(* A ++ or -- of one counter moves the unsigned sum by one, and two        *)
(* opposite ones keep it.                                                  *)
LEMMA AddUStep ==
    ASSUME NEW x \in UInt, NEW y \in UInt
    PROVE  /\ AddU(x, y) \in UInt
           /\ AddU(Inc(x), y) = Inc(AddU(x, y)) /\ AddU(x, Inc(y)) = Inc(AddU(x, y))
           /\ AddU(Dec(x), y) = Dec(AddU(x, y)) /\ AddU(x, Dec(y)) = Dec(AddU(x, y))
           /\ AddU(Dec(x), Inc(y)) = AddU(x, y) /\ AddU(Inc(x), Dec(y)) = AddU(x, y)
  BY UIntAssumption DEF UInt, AddU, Inc, Dec

(* Subtracting from both counters subtracts from their sum. *)
LEMMA AddUSubU ==
    ASSUME NEW x \in UInt, NEW y \in UInt, NEW m \in UInt, NEW n \in UInt,
           m + n <= AddU(x, y)
    PROVE  AddU(SubU(x, m), SubU(y, n)) = AddU(x, y) - (m + n)
  BY UIntAssumption DEF UInt, AddU, SubU

SumOf(t) == AddU(t.complete, t.incomplete)

(* changeTorrentStatsL moves the sum by one for a peer that appears or     *)
(* disappears and keeps it for a peer that changes its event.              *)
LEMMA StatsSum ==
    ASSUME NEW t \in Torrent, NEW oldEvent, NEW newEvent
    PROVE  LET s == changeTorrentStatsL(t, oldEvent, newEvent) IN
           /\ oldEvent = URI_EVENT_ID_NONE => SumOf(s) = Inc(SumOf(t))
           /\ oldEvent # URI_EVENT_ID_NONE /\ newEvent = URI_EVENT_ID_NONE
                => SumOf(s) = Dec(SumOf(t))
           /\ oldEvent # URI_EVENT_ID_NONE /\ newEvent # URI_EVENT_ID_NONE
                => SumOf(s) = SumOf(t)
  <1> DEFINE c == t.complete  i == t.incomplete
  <1>1. c \in UInt /\ i \in UInt
    BY DEF Torrent
  <1>2. /\ AddU(Inc(c), i) = Inc(AddU(c, i)) /\ AddU(c, Inc(i)) = Inc(AddU(c, i))
        /\ AddU(Dec(c), i) = Dec(AddU(c, i)) /\ AddU(c, Dec(i)) = Dec(AddU(c, i))
        /\ AddU(Dec(c), Inc(i)) = AddU(c, i) /\ AddU(Inc(c), Dec(i)) = AddU(c, i)
    BY <1>1, AddUStep
  <1>3. /\ SumOf(NewPeerStats(t, newEvent)) = Inc(SumOf(t))
        /\ SumOf(RemovedPeerStats(t, oldEvent)) = Dec(SumOf(t))
        /\ SumOf(ChangedPeerStats(t, oldEvent, newEvent)) = SumOf(t)
    BY <1>2 DEF SumOf, NewPeerStats, RemovedPeerStats, ChangedPeerStats, Torrent
  <1> QED  BY <1>3 DEF changeTorrentStatsL

(* setPeer adds the announcing peer to the list. *)
LEMMA KnownAfterSet ==
    ASSUME NEW t \in Torrent, NEW q \in Query, NEW time \in Times
    PROVE  /\ Known(setPeer(t, q, time)) = Known(t) \cup {q.peer}
           /\ \A p \in Peers \ {q.peer} : setPeer(t, q, time).peers[p] = t.peers[p]
           /\ setPeer(t, q, time).peers[q.peer].event = q.event
  <1>1. NewPeer(t, q, time) \in PeerData /\ NewPeer(t, q, time) # NoPeer
    BY NewPeerType, NoPeerAssumption
  <1>2. q.peer \in Peers /\ NewPeer(t, q, time).event = q.event
    BY DEF Query, NewPeer
  <1>3. setPeer(t, q, time).peers = [t.peers EXCEPT ![q.peer] = NewPeer(t, q, time)]
    BY setPeerEffect
  <1>4. t.peers \in [Peers -> PeerData \cup {NoPeer}]
    BY DEF Torrent
  <1> QED  BY <1>1, <1>2, <1>3, <1>4 DEF Known

(* deletePeerPublic takes the announcing peer out of the list. *)
LEMMA KnownAfterDelete ==
    ASSUME NEW t \in Torrent, NEW q \in Query, q.peer \in Known(t)
    PROVE  /\ Known(deletePeerPublic(t, q)) = Known(t) \ {q.peer}
           /\ \A p \in Peers \ {q.peer} : deletePeerPublic(t, q).peers[p] = t.peers[p]
  <1>1. deletePeerPublic(t, q).peers = [t.peers EXCEPT ![q.peer] = NoPeer]
    BY deletePeerEffect
  <1>2. t.peers \in [Peers -> PeerData \cup {NoPeer}] /\ q.peer \in Peers
    BY DEF Torrent, Query
  <1> QED  BY <1>1, <1>2 DEF Known

(* The collector takes out the stale peers. *)
LEMMA KnownAfterCollect ==
    ASSUME NEW t \in Torrent, NEW limitTime, StalePeers(t, limitTime) # Known(t)
    PROVE  LET s == collectTorrent(t, limitTime) IN
           /\ StalePeers(t, limitTime) \subseteq Known(t)
           /\ Known(s) = Known(t) \ StalePeers(t, limitTime)
           /\ \A p \in Known(s) : s.peers[p] = t.peers[p]
  <1>1. collectTorrent(t, limitTime).peers =
          [p \in Peers |-> IF p \in StalePeers(t, limitTime) THEN NoPeer ELSE t.peers[p]]
    BY collectEffect
  <1>2. StalePeers(t, limitTime) \subseteq Known(t)
    BY DEF StalePeers, Stale, Known
  <1> QED  BY <1>1, <1>2 DEF Known

(* The invariant of one torrent: no peer is remembered with event NONE,    *)
(* without which SumIsPeers is not inductive, and the two results.         *)
TorrentSum(t) ==
    /\ \A p \in Known(t) : t.peers[p].event # URI_EVENT_ID_NONE
    /\ SumOf(t) = Cardinality(Known(t))
    /\ t.level = 0 => Cardinality(Known(t)) <= PeersForLevel0Limit + 1

(* A new torrent satisfies TorrentSum. *)
LEMMA EmptyTorrentSum == TorrentSum(EmptyTorrent)
  <1>1. Known(EmptyTorrent) = {} /\ SumOf(EmptyTorrent) = 0
    BY UIntAssumption DEF Known, EmptyTorrent, SumOf, AddU
  <1> QED  BY <1>1, FS_EmptySet, LimitsAssumption DEF TorrentSum

(* A peer more in the list is one ++ of its size. *)
LEMMA IncCardinality ==
    ASSUME NEW S \in SUBSET Peers, NEW p \in Peers \ S
    PROVE  Cardinality(S \cup {p}) = Cardinality(S) + 1 /\ Inc(Cardinality(S)) = Cardinality(S) + 1
  <1>1. IsFiniteSet(S) /\ Cardinality(S) \in UInt /\ Cardinality(S \cup {p}) \in UInt
    BY PeerSetSize
  <1>2. Cardinality(S \cup {p}) = Cardinality(S) + 1
    BY <1>1, FS_AddElement
  <1> QED  BY <1>1, <1>2, UIntAssumption DEF Inc, UInt

(* A peer less in the list is one -- of its size. *)
LEMMA DecCardinality ==
    ASSUME NEW S \in SUBSET Peers, NEW p \in S
    PROVE  Cardinality(S \ {p}) = Cardinality(S) - 1 /\ Dec(Cardinality(S)) = Cardinality(S) - 1
  <1>1. IsFiniteSet(S) /\ Cardinality(S) \in UInt /\ Cardinality(S \ {p}) \in UInt
    BY PeerSetSize
  <1>2. Cardinality(S \ {p}) = Cardinality(S) - 1
    BY <1>1, FS_RemoveElement
  <1> QED  BY <1>1, <1>2, UIntAssumption DEF Dec, UInt

(* An announce other than "stopped" preserves TorrentSum. *)
LEMMA setPeerSum ==
    ASSUME NEW t \in Torrent, TorrentSum(t), NEW q \in Query, NEW time \in Times,
           q.event # URI_EVENT_ID_NONE
    PROVE  TorrentSum(setPeer(t, q, time))
  <1> DEFINE u == reInitList(t)  s == setPeer(t, q, time)
             r == changeTorrentStatsL(u, OldEvent(t, q), q.event)
             K == Known(t)
  <1>1. /\ u \in Torrent /\ u.peers = t.peers /\ SumOf(u) = SumOf(t)
        /\ s.level = u.level /\ SumOf(s) = SumOf(r)
    BY reInitListEffect, setPeerEffect DEF SumOf
  <1>2. /\ Known(s) = K \cup {q.peer} /\ s.peers[q.peer].event = q.event
        /\ \A p \in Peers \ {q.peer} : s.peers[p] = t.peers[p]
    BY KnownAfterSet
  <1>3. q.peer \in Peers /\ K \in SUBSET Peers
    BY KnownSubset DEF Query
  <1>4. \A p \in Known(s) : s.peers[p].event # URI_EVENT_ID_NONE
    BY <1>2, <1>3 DEF TorrentSum
  <1>5. SumOf(t) = Cardinality(K) /\ Cardinality(K) \in Nat
    BY <1>3, PeerSetSize DEF TorrentSum, UInt
  <1>6. u.level = 0 => Cardinality(K) <= PeersForLevel0Limit
    <2>1. t.level \in {0, 1}
      BY DEF Torrent
    <2>2. u = IF SumOf(t) > PeersForLevel0Limit /\ t.level = 0 THEN [t EXCEPT !.level = 1] ELSE t
      BY DEF reInitList, SumOf
    <2>3. SumOf(t) > PeersForLevel0Limit /\ t.level = 0 => u.level = 1
      BY <2>2 DEF Torrent
    <2>4. ~(SumOf(t) > PeersForLevel0Limit /\ t.level = 0) => u.level = t.level
      BY <2>2
    <2> HIDE DEF u, K
    <2> QED  BY <2>1, <2>3, <2>4, <1>5, LimitsAssumption
  <1>7. CASE q.peer \in K
    <2>1. Known(s) = K
      BY <1>2, <1>7
    <2>2. OldEvent(t, q) # URI_EVENT_ID_NONE
      BY <1>7 DEF OldEvent, Known, TorrentSum
    <2>3. SumOf(s) = SumOf(t)
      BY <1>1, <2>2, StatsSum
    <2> HIDE DEF u, s, r, K
    <2>4. TorrentSum(s)
      BY <1>1, <1>4, <1>5, <1>6, <2>1, <2>3, LimitsAssumption DEF TorrentSum
    <2> QED  BY <2>4 DEF s
  <1>8. CASE q.peer \notin K
    <2>1. OldEvent(t, q) = URI_EVENT_ID_NONE
      BY <1>3, <1>8 DEF OldEvent, Known
    <2>2. SumOf(s) = Inc(Cardinality(K))
      BY <1>1, <1>5, <2>1, StatsSum
    <2>3. Cardinality(Known(s)) = Cardinality(K) + 1 /\ Inc(Cardinality(K)) = Cardinality(K) + 1
      BY <1>2, <1>3, <1>8, IncCardinality
    <2> HIDE DEF u, s, r, K
    <2>4. TorrentSum(s)
      BY <1>1, <1>4, <1>5, <1>6, <2>2, <2>3, LimitsAssumption DEF TorrentSum
    <2> QED  BY <2>4 DEF s
  <1> QED  BY <1>7, <1>8

(* An announce "stopped" preserves TorrentSum. *)
LEMMA deletePeerSum ==
    ASSUME NEW t \in Torrent, TorrentSum(t), NEW q \in Query, q.peer \in Known(t)
    PROVE  TorrentSum(deletePeerPublic(t, q))
  <1> DEFINE s == deletePeerPublic(t, q)
             r == changeTorrentStatsL(t, t.peers[q.peer].event, URI_EVENT_ID_NONE)
             K == Known(t)
  <1>1. s.level = t.level /\ SumOf(s) = SumOf(r)
    BY deletePeerEffect DEF SumOf
  <1>2. Known(s) = K \ {q.peer} /\ \A p \in Peers \ {q.peer} : s.peers[p] = t.peers[p]
    BY KnownAfterDelete
  <1>3. K \in SUBSET Peers
    BY KnownSubset
  <1>4. \A p \in Known(s) : s.peers[p].event # URI_EVENT_ID_NONE
    BY <1>2, <1>3 DEF TorrentSum
  <1>5. SumOf(s) = Dec(SumOf(t)) /\ SumOf(t) = Cardinality(K)
    BY <1>1, StatsSum DEF TorrentSum
  <1>6. Cardinality(Known(s)) = Cardinality(K) - 1 /\ Dec(Cardinality(K)) = Cardinality(K) - 1
    BY <1>2, <1>3, DecCardinality
  <1>7. Cardinality(K) \in Nat /\ (t.level = 0 => Cardinality(K) <= PeersForLevel0Limit + 1)
    BY <1>3, PeerSetSize DEF UInt, TorrentSum
  <1> HIDE DEF s, r, K
  <1>8. TorrentSum(s)
    BY <1>1, <1>4, <1>5, <1>6, <1>7, LimitsAssumption DEF TorrentSum
  <1> QED  BY <1>8 DEF s

(* A visit of the collector preserves TorrentSum. *)
LEMMA collectSum ==
    ASSUME NEW t \in Torrent, TorrentSum(t), NEW limitTime, StalePeers(t, limitTime) # Known(t)
    PROVE  TorrentSum(collectTorrent(t, limitTime))
  <1> DEFINE s == collectTorrent(t, limitTime)
             stale == StalePeers(t, limitTime)
             seeds == stale \cap Seeds(t)
             m == Cardinality(seeds)  n == Cardinality(stale \ seeds)
             K == Known(t)
  <1>1. /\ s.complete = SubU(t.complete, m) /\ s.incomplete = SubU(t.incomplete, n)
        /\ s.level = t.level
    BY collectEffect
  <1>2. stale \subseteq K /\ Known(s) = K \ stale /\ \A p \in Known(s) : s.peers[p] = t.peers[p]
    BY KnownAfterCollect
  <1>3. K \in SUBSET Peers /\ stale \in SUBSET Peers /\ seeds \in SUBSET stale
    BY <1>2, KnownSubset
  <1>4. \A p \in Known(s) : s.peers[p].event # URI_EVENT_ID_NONE
    BY <1>2 DEF TorrentSum
  <1>5. /\ IsFiniteSet(K) /\ IsFiniteSet(stale) /\ IsFiniteSet(seeds)
        /\ Cardinality(K) \in UInt /\ Cardinality(stale) \in UInt /\ m \in UInt /\ n \in UInt
    BY <1>3, PeerSetSize
  <1>6. n = Cardinality(stale) - m
    <2>1. stale \cap seeds = seeds
      BY <1>3
    <2> QED  BY <1>5, <2>1, FS_Difference
  <1>7. Cardinality(Known(s)) = Cardinality(K) - Cardinality(stale)
    <2>1. K \cap stale = stale
      BY <1>2
    <2> QED  BY <1>2, <1>5, <2>1, FS_Difference
  <1>8. Cardinality(stale) <= Cardinality(K)
    BY <1>2, <1>5, FS_Subset
  <1>9. /\ t.complete \in UInt /\ t.incomplete \in UInt
        /\ SumOf(t) = Cardinality(K)
        /\ t.level = 0 => Cardinality(K) <= PeersForLevel0Limit + 1
    BY DEF Torrent, TorrentSum
  <1> HIDE DEF s, stale, seeds, m, n, K
  <1>10. SumOf(s) = Cardinality(K) - Cardinality(stale)
    <2>1. m + n <= AddU(t.complete, t.incomplete)
      BY <1>5, <1>6, <1>8, <1>9 DEF SumOf, UInt
    <2>2. AddU(SubU(t.complete, m), SubU(t.incomplete, n)) = AddU(t.complete, t.incomplete) - (m + n)
      BY <1>5, <1>9, <2>1, AddUSubU
    <2> QED  BY <1>1, <1>5, <1>6, <1>9, <2>2 DEF SumOf, UInt
  <1>11. TorrentSum(s)
    BY <1>1, <1>4, <1>5, <1>7, <1>8, <1>9, <1>10, LimitsAssumption DEF TorrentSum, UInt
  <1> QED  BY <1>11 DEF s

SumInv == TypeOK /\ \A h \in LiveTorrents : TorrentSum(torrents[h])

(* Every step preserves SumInv when no announce carries event 0. *)
LEMMA SumInvStep ==
    ASSUME URI_EVENT_ID_NONE \notin Events, SumInv, [Next]_vars, TypeOK'
    PROVE  SumInv'
  <1> SUFFICES ASSUME NEW h \in Hashes, torrents'[h] # NoTorrent
               PROVE  TorrentSum(torrents'[h])
    BY DEF SumInv, LiveTorrents, TorrentSum, Known, SumOf
  <1>0. /\ TypeOK
        /\ torrents[h] \in Torrent \cup {NoTorrent}
        /\ torrents[h] # NoTorrent => TorrentSum(torrents[h])
    BY DEF SumInv, TypeOK, LiveTorrents
  <1>1. ASSUME NEW w \in Workers, NEW q \in Query, NEW time \in Times, Announce(w, q, time)
        PROVE  TorrentSum(torrents'[h])
    <2>1. CASE q.hash # h
      BY <1>0, <1>1, <2>1, AnnounceStep DEF TypeOK
    <2>2. CASE q.hash = h
      <3>1. torrents'[h] = AfterAnnounce(torrents[h], q, time)
        BY <1>0, <1>1, <2>2, AnnounceStep DEF TypeOK
      <3>2. CASE q.event = URI_EVENT_ID_STOPPED
        <4>1. torrents'[h] = deletePeerPublic(torrents[h], q)
          BY <3>1, <3>2 DEF AfterAnnounce
        <4>2. CASE torrents[h] = NoTorrent \/ q.peer \notin Known(torrents[h])
          BY <1>0, <4>1, <4>2, deletePeerNoop
        <4>3. CASE torrents[h] # NoTorrent /\ q.peer \in Known(torrents[h])
          BY <1>0, <4>1, <4>3, deletePeerSum
        <4> QED  BY <4>2, <4>3
      <3>3. CASE q.event # URI_EVENT_ID_STOPPED
        <4>1. torrents'[h] = setPeer(setTorrentL(torrents[h]), q, time)
          BY <3>1, <3>3 DEF AfterAnnounce, setPeerPublic
        <4>2. setTorrentL(torrents[h]) \in Torrent /\ TorrentSum(setTorrentL(torrents[h]))
          BY <1>0, setTorrentEffect, EmptyTorrentSum
        <4>3. q.event # URI_EVENT_ID_NONE
          BY DEF Query
        <4> QED  BY <4>1, <4>2, <4>3, setPeerSum
      <3> QED  BY <3>2, <3>3
    <2> QED  BY <2>1, <2>2
  <1>2. ASSUME NEW g \in Hashes, NEW limitTime \in LimitTimes, Collect(g, limitTime)
        PROVE  TorrentSum(torrents'[h])
    <2>1. CASE g # h
      BY <1>0, <1>2, <2>1 DEF TypeOK, Collect
    <2>2. CASE g = h
      <3>1. torrents[h] \in Torrent /\ torrents'[h] = collectTorrent(torrents[h], limitTime)
        BY <1>0, <1>2, <2>2 DEF TypeOK, Collect
      <3>2. StalePeers(torrents[h], limitTime) # Known(torrents[h])
        BY <3>1 DEF collectTorrent
      <3> QED  BY <1>0, <3>1, <3>2, collectSum, NoTorrentAssumption
    <2> QED  BY <2>1, <2>2
  <1>3. CASE torrents' = torrents
    BY <1>0, <1>3
  <1> QED  BY <1>1, <1>2, <1>3 DEF Next, Scrape, Send, Tick, vars

(* Whatever events other than 0 are announced, in whatever order peers     *)
(* come, change event, stop and are collected, the wrapping sum of the two *)
(* counters stays the number of peers in the list, although each of them   *)
(* may be wrong by itself (a completed peer that announces "continue" is   *)
(* later taken out of incomplete).                                         *)
THEOREM SumCorrect ==
    ASSUME URI_EVENT_ID_NONE \notin Events
    PROVE  Spec => []SumIsPeers
  <1>1. Init => SumInv
    BY TimesAssumption DEF Init, SumInv, TypeOK, LiveTorrents, Times
  <1>2. SumInv /\ TypeOK' /\ [Next]_vars => SumInv'
    BY SumInvStep
  <1>3. SumInv => SumIsPeers
    BY DEF SumInv, TorrentSum, SumIsPeers, SumOf
  <1> QED  BY <1>1, <1>2, <1>3, TypeCorrect, PTL DEF Spec

(* A list without a hash table holds one peer more than the limit at most:  *)
(* the test of setPeerPublic (data.c:407) runs before the insertion, so the *)
(* maximum that the comment of the limit states (data_structure.h:6) is     *)
(* exceeded by one, and never by two.                                       *)
Level0OneMore ==
    \A h \in LiveTorrents :
        torrents[h].level = 0 => Cardinality(Known(torrents[h])) <= PeersForLevel0Limit + 1

(* Under the same condition every longer list has its hash table.           *)
THEOREM LevelCorrect ==
    ASSUME URI_EVENT_ID_NONE \notin Events
    PROVE  Spec => []Level0OneMore
  <1>1. Init => SumInv
    BY TimesAssumption DEF Init, SumInv, TypeOK, LiveTorrents, Times
  <1>2. SumInv /\ TypeOK' /\ [Next]_vars => SumInv'
    BY SumInvStep
  <1>3. SumInv => Level0OneMore
    BY DEF SumInv, TorrentSum, Level0OneMore
  <1> QED  BY <1>1, <1>2, <1>3, TypeCorrect, PTL DEF Spec

-----------------------------------------------------------------------------
(* The counters one by one *)

Leeches(t) == Known(t) \ Seeds(t)

TorrentExact(t) ==
    /\ \A p \in Known(t) : t.peers[p].event # URI_EVENT_ID_NONE
    /\ t.complete = Cardinality(Seeds(t))
    /\ t.incomplete = Cardinality(Leeches(t))

(* A set with or without p, and how its size gets there. *)
With(S, p, is) == IF is THEN S \cup {p} ELSE S \ {p}
Moved(x, was, is) == IF is /\ ~was THEN Inc(x) ELSE IF was /\ ~is THEN Dec(x) ELSE x

(* One peer in or out of a set is one ++ or -- of its size, or none. *)
LEMMA MovedCardinality ==
    ASSUME NEW S \in SUBSET Peers, NEW p \in Peers, NEW is \in BOOLEAN
    PROVE  Cardinality(With(S, p, is)) = Moved(Cardinality(S), p \in S, is)
  <1>1. CASE is /\ p \notin S
    BY <1>1, IncCardinality DEF With, Moved
  <1>2. CASE ~is /\ p \in S
    BY <1>2, DecCardinality DEF With, Moved
  <1>3. CASE (is /\ p \in S) \/ (~is /\ p \notin S)
    <2>1. With(S, p, is) = S
      BY <1>3 DEF With
    <2> QED  BY <1>3, <2>1 DEF Moved
  <1> QED  BY <1>1, <1>2, <1>3

(* Whether an event, or the absence of a peer, counts as a seed or a leech. *)
IsSeed(event) == event = URI_EVENT_ID_COMPLETED
IsLeech(event) == event \notin {URI_EVENT_ID_NONE, URI_EVENT_ID_COMPLETED}

(* changeTorrentStatsL moves the two counters as one peer moves between     *)
(* the seeds, the leeches and nowhere; "continue" is the event it does not  *)
(* follow.                                                                  *)
LEMMA StatsMoved ==
    ASSUME NEW t \in Torrent, NEW oldEvent, NEW newEvent,
           newEvent # URI_EVENT_ID_CONTINUE,
           oldEvent # URI_EVENT_ID_NONE \/ newEvent # URI_EVENT_ID_NONE
    PROVE  LET s == changeTorrentStatsL(t, oldEvent, newEvent) IN
           /\ s.complete = Moved(t.complete, IsSeed(oldEvent), IsSeed(newEvent))
           /\ s.incomplete = Moved(t.incomplete, IsLeech(oldEvent), IsLeech(newEvent))
  <1> DEFINE s == changeTorrentStatsL(t, oldEvent, newEvent)
  <1>0. URI_EVENT_ID_NONE # URI_EVENT_ID_COMPLETED
    BY DEF URI_EVENT_ID_NONE, URI_EVENT_ID_COMPLETED
  <1>1. CASE oldEvent = URI_EVENT_ID_NONE
    BY <1>0, <1>1 DEF changeTorrentStatsL, NewPeerStats, Torrent, Moved, IsSeed, IsLeech
  <1>2. CASE oldEvent # URI_EVENT_ID_NONE /\ newEvent = URI_EVENT_ID_NONE
    BY <1>0, <1>2 DEF changeTorrentStatsL, RemovedPeerStats, Torrent, Moved, IsSeed, IsLeech
  <1>3. CASE oldEvent # URI_EVENT_ID_NONE /\ newEvent # URI_EVENT_ID_NONE
    <2>1. CASE oldEvent = newEvent
      BY <1>3, <2>1 DEF changeTorrentStatsL, Moved
    <2>2. CASE oldEvent # newEvent
      <3>1. s = ChangedPeerStats(t, oldEvent, newEvent)
        BY <1>3, <2>2 DEF changeTorrentStatsL
      <3> QED  BY <1>3, <2>2, <3>1 DEF ChangedPeerStats, Torrent, Moved, IsSeed, IsLeech
    <2> QED  BY <2>1, <2>2
  <1> QED  BY <1>1, <1>2, <1>3

(* A new torrent satisfies TorrentExact. *)
LEMMA EmptyTorrentExact == TorrentExact(EmptyTorrent)
  <1>1. Known(EmptyTorrent) = {}
    BY DEF Known, EmptyTorrent
  <1>2. Seeds(EmptyTorrent) = {} /\ Leeches(EmptyTorrent) = {}
    BY <1>1 DEF Seeds, Leeches
  <1> QED  BY <1>1, <1>2, FS_EmptySet DEF TorrentExact, EmptyTorrent

(* The seeds and the leeches after one peer took another event or left. *)
LEMMA SeedsMoved ==
    ASSUME NEW t \in Torrent, NEW s, NEW p \in Peers, NEW event,
           \A r \in Peers \ {p} : s.peers[r] = t.peers[r],
           event = URI_EVENT_ID_NONE => Known(s) = Known(t) \ {p},
           event # URI_EVENT_ID_NONE => Known(s) = Known(t) \cup {p} /\ s.peers[p].event = event
    PROVE  /\ Seeds(s) = With(Seeds(t), p, IsSeed(event))
           /\ Leeches(s) = With(Leeches(t), p, IsLeech(event))
           /\ (\A r \in Known(t) : t.peers[r].event # URI_EVENT_ID_NONE)
                => \A r \in Known(s) : s.peers[r].event # URI_EVENT_ID_NONE
  <1>0. Known(t) \in SUBSET Peers /\ URI_EVENT_ID_NONE # URI_EVENT_ID_COMPLETED
    BY DEF Known, URI_EVENT_ID_NONE, URI_EVENT_ID_COMPLETED
  <1>1. Known(s) = IF event = URI_EVENT_ID_NONE THEN Known(t) \ {p} ELSE Known(t) \cup {p}
    OBVIOUS
  <1>2. \A r \in Peers : r \in Seeds(s) <=>
            IF r = p THEN event = URI_EVENT_ID_COMPLETED ELSE r \in Seeds(t)
    BY <1>0, <1>1 DEF Seeds
  <1>3. Seeds(s) \in SUBSET Peers /\ Seeds(t) \in SUBSET Peers
    BY <1>0, <1>1 DEF Seeds
  <1>4. Seeds(s) = With(Seeds(t), p, IsSeed(event))
    BY <1>2, <1>3 DEF With, IsSeed
  <1>5. Leeches(s) = With(Leeches(t), p, IsLeech(event))
    BY <1>0, <1>1, <1>2 DEF Leeches, With, IsLeech
  <1> QED  BY <1>0, <1>1, <1>4, <1>5

(* An announce other than "stopped" and "continue" preserves TorrentExact. *)
LEMMA setPeerExact ==
    ASSUME NEW t \in Torrent, TorrentExact(t), NEW q \in Query, NEW time \in Times,
           q.event \notin {URI_EVENT_ID_NONE, URI_EVENT_ID_CONTINUE}
    PROVE  TorrentExact(setPeer(t, q, time))
  <1> DEFINE u == reInitList(t)  s == setPeer(t, q, time)
             old == OldEvent(t, q)
             r == changeTorrentStatsL(u, old, q.event)
  <1>1. /\ u \in Torrent /\ u.complete = t.complete /\ u.incomplete = t.incomplete
        /\ s.complete = r.complete /\ s.incomplete = r.incomplete
    BY reInitListEffect, setPeerEffect
  <1>2. /\ s.complete = Moved(t.complete, IsSeed(old), IsSeed(q.event))
        /\ s.incomplete = Moved(t.incomplete, IsLeech(old), IsLeech(q.event))
    BY <1>1, StatsMoved
  <1>3. q.peer \in Peers /\ Seeds(t) \in SUBSET Peers /\ Leeches(t) \in SUBSET Peers
    BY KnownSubset DEF Query, Leeches
  <1>4. /\ Known(s) = Known(t) \cup {q.peer} /\ s.peers[q.peer].event = q.event
        /\ \A p \in Peers \ {q.peer} : s.peers[p] = t.peers[p]
    BY KnownAfterSet
  <1>5. /\ Seeds(s) = With(Seeds(t), q.peer, IsSeed(q.event))
        /\ Leeches(s) = With(Leeches(t), q.peer, IsLeech(q.event))
        /\ \A p \in Known(s) : s.peers[p].event # URI_EVENT_ID_NONE
    <2> HIDE DEF s
    <2> QED  BY SMTT(30), <1>3, <1>4, SeedsMoved DEF TorrentExact
  <1>6. /\ IsSeed(old) <=> q.peer \in Seeds(t)
        /\ IsLeech(old) <=> q.peer \in Leeches(t)
    BY <1>3 DEF OldEvent, IsSeed, IsLeech, Seeds, Leeches, Known, TorrentExact,
                URI_EVENT_ID_NONE, URI_EVENT_ID_COMPLETED
  <1>7. IsSeed(q.event) \in BOOLEAN /\ IsLeech(q.event) \in BOOLEAN
    BY DEF IsSeed, IsLeech
  <1>8. /\ Cardinality(Seeds(s)) = Moved(Cardinality(Seeds(t)), q.peer \in Seeds(t), IsSeed(q.event))
        /\ Cardinality(Leeches(s)) = Moved(Cardinality(Leeches(t)), q.peer \in Leeches(t), IsLeech(q.event))
    BY <1>3, <1>5, <1>7, MovedCardinality
  <1> HIDE DEF s, u, r, old
  <1>9. TorrentExact(s)
    BY <1>2, <1>5, <1>6, <1>8 DEF TorrentExact, Moved
  <1> QED  BY <1>9 DEF s

(* An announce "stopped" preserves TorrentExact. *)
LEMMA deletePeerExact ==
    ASSUME NEW t \in Torrent, TorrentExact(t), NEW q \in Query, q.peer \in Known(t)
    PROVE  TorrentExact(deletePeerPublic(t, q))
  <1> DEFINE s == deletePeerPublic(t, q)
             old == t.peers[q.peer].event
             r == changeTorrentStatsL(t, old, URI_EVENT_ID_NONE)
  <1>0. PICK none : none = URI_EVENT_ID_NONE
    OBVIOUS
  <1>1. s.complete = r.complete /\ s.incomplete = r.incomplete
    BY deletePeerEffect
  <1>2. old # none
    BY <1>0 DEF TorrentExact
  <1>3. /\ s.complete = Moved(t.complete, IsSeed(old), IsSeed(none))
        /\ s.incomplete = Moved(t.incomplete, IsLeech(old), IsLeech(none))
    <2>1. none # URI_EVENT_ID_CONTINUE
      BY <1>0 DEF URI_EVENT_ID_NONE, URI_EVENT_ID_CONTINUE
    <2>2. r = changeTorrentStatsL(t, old, none)
      BY <1>0
    <2> QED  BY <1>0, <1>1, <1>2, <2>1, <2>2, StatsMoved
  <1>4. q.peer \in Peers /\ Seeds(t) \in SUBSET Peers /\ Leeches(t) \in SUBSET Peers
    BY KnownSubset DEF Query, Leeches
  <1>5. Known(s) = Known(t) \ {q.peer} /\ \A p \in Peers \ {q.peer} : s.peers[p] = t.peers[p]
    BY KnownAfterDelete
  <1>6. /\ Seeds(s) = With(Seeds(t), q.peer, IsSeed(none))
        /\ Leeches(s) = With(Leeches(t), q.peer, IsLeech(none))
        /\ \A p \in Known(s) : s.peers[p].event # URI_EVENT_ID_NONE
    <2> HIDE DEF s
    <2> QED  BY <1>0, <1>4, <1>5, SeedsMoved DEF TorrentExact
  <1>7. /\ IsSeed(old) <=> q.peer \in Seeds(t)
        /\ IsLeech(old) <=> q.peer \in Leeches(t)
    BY <1>0, <1>2 DEF IsSeed, IsLeech, Seeds, Leeches
  <1>8. IsSeed(none) \in BOOLEAN /\ IsLeech(none) \in BOOLEAN
    BY DEF IsSeed, IsLeech
  <1>9. /\ Cardinality(Seeds(s)) = Moved(Cardinality(Seeds(t)), q.peer \in Seeds(t), IsSeed(none))
        /\ Cardinality(Leeches(s)) = Moved(Cardinality(Leeches(t)), q.peer \in Leeches(t), IsLeech(none))
    BY <1>4, <1>6, <1>8, MovedCardinality
  <1> HIDE DEF s, r, old
  <1>10. TorrentExact(s)
    BY <1>3, <1>6, <1>7, <1>9 DEF TorrentExact, Moved
  <1> QED  BY <1>10 DEF s

(* Taking a part of a set out of its size is the size of the rest. *)
LEMMA SubUCardinality ==
    ASSUME NEW S \in SUBSET Peers, NEW T \in SUBSET Peers
    PROVE  SubU(Cardinality(S), Cardinality(S \cap T)) = Cardinality(S \ T)
  <1>1. /\ IsFiniteSet(S) /\ Cardinality(S) \in UInt
        /\ IsFiniteSet(S \cap T) /\ Cardinality(S \cap T) \in UInt
    BY PeerSetSize
  <1>2. Cardinality(S \ T) = Cardinality(S) - Cardinality(S \cap T)
    BY <1>1, PeerSetSize, FS_Difference
  <1>3. Cardinality(S \cap T) <= Cardinality(S)
    BY <1>1, FS_Subset
  <1> QED  BY <1>1, <1>2, <1>3 DEF SubU, UInt

(* A visit of the collector preserves TorrentExact. *)
LEMMA collectExact ==
    ASSUME NEW t \in Torrent, TorrentExact(t), NEW limitTime, StalePeers(t, limitTime) # Known(t)
    PROVE  TorrentExact(collectTorrent(t, limitTime))
  <1> DEFINE s == collectTorrent(t, limitTime)
             stale == StalePeers(t, limitTime)
  <1>1. /\ s.complete = SubU(t.complete, Cardinality(stale \cap Seeds(t)))
        /\ s.incomplete = SubU(t.incomplete, Cardinality(stale \ (stale \cap Seeds(t))))
    BY collectEffect
  <1>2. stale \subseteq Known(t) /\ Known(s) = Known(t) \ stale /\ \A p \in Known(s) : s.peers[p] = t.peers[p]
    BY KnownAfterCollect
  <1>3. stale \in SUBSET Peers /\ Seeds(t) \in SUBSET Peers /\ Leeches(t) \in SUBSET Peers
    BY <1>2, KnownSubset DEF Leeches
  <1> HIDE DEF s, stale
  <1>4. Seeds(s) = Seeds(t) \ stale /\ Leeches(s) = Leeches(t) \ stale
    BY <1>2 DEF Seeds, Leeches
  <1>5. /\ stale \cap Seeds(t) = Seeds(t) \cap stale
        /\ stale \ (stale \cap Seeds(t)) = Leeches(t) \cap stale
    BY <1>2 DEF Leeches
  <1>6. s.complete = Cardinality(Seeds(s)) /\ s.incomplete = Cardinality(Leeches(s))
    <2>1. /\ s.complete = SubU(Cardinality(Seeds(t)), Cardinality(Seeds(t) \cap stale))
          /\ s.incomplete = SubU(Cardinality(Leeches(t)), Cardinality(Leeches(t) \cap stale))
      BY <1>1, <1>5 DEF TorrentExact
    <2>2. /\ SubU(Cardinality(Seeds(t)), Cardinality(Seeds(t) \cap stale)) = Cardinality(Seeds(t) \ stale)
          /\ SubU(Cardinality(Leeches(t)), Cardinality(Leeches(t) \cap stale)) = Cardinality(Leeches(t) \ stale)
      BY ONLY <1>3, SubUCardinality
    <2> QED  BY <1>4, <2>1, <2>2
  <1>7. TorrentExact(s)
    BY <1>2, <1>6 DEF TorrentExact
  <1> QED  BY <1>7 DEF s

ExactInv == TypeOK /\ \A h \in LiveTorrents : TorrentExact(torrents[h])

(* Every step preserves ExactInv when announces carry neither event 0 nor   *)
(* "continue".                                                              *)
LEMMA ExactInvStep ==
    ASSUME URI_EVENT_ID_NONE \notin Events, URI_EVENT_ID_CONTINUE \notin Events,
           ExactInv, [Next]_vars, TypeOK'
    PROVE  ExactInv'
  <1> SUFFICES ASSUME NEW h \in Hashes, torrents'[h] # NoTorrent
               PROVE  TorrentExact(torrents'[h])
    BY DEF ExactInv, LiveTorrents, TorrentExact, Known, Seeds, Leeches
  <1>0. /\ TypeOK
        /\ torrents[h] \in Torrent \cup {NoTorrent}
        /\ torrents[h] # NoTorrent => TorrentExact(torrents[h])
    BY DEF ExactInv, TypeOK, LiveTorrents
  <1>1. ASSUME NEW w \in Workers, NEW q \in Query, NEW time \in Times, Announce(w, q, time)
        PROVE  TorrentExact(torrents'[h])
    <2>1. CASE q.hash # h
      BY <1>0, <1>1, <2>1, AnnounceStep DEF TypeOK
    <2>2. CASE q.hash = h
      <3>1. torrents'[h] = AfterAnnounce(torrents[h], q, time)
        BY <1>0, <1>1, <2>2, AnnounceStep DEF TypeOK
      <3>2. CASE q.event = URI_EVENT_ID_STOPPED
        <4>1. torrents'[h] = deletePeerPublic(torrents[h], q)
          BY <3>1, <3>2 DEF AfterAnnounce
        <4>2. CASE torrents[h] = NoTorrent \/ q.peer \notin Known(torrents[h])
          BY <1>0, <4>1, <4>2, deletePeerNoop
        <4>3. CASE torrents[h] # NoTorrent /\ q.peer \in Known(torrents[h])
          BY <1>0, <4>1, <4>3, deletePeerExact
        <4> QED  BY <4>2, <4>3
      <3>3. CASE q.event # URI_EVENT_ID_STOPPED
        <4>1. torrents'[h] = setPeer(setTorrentL(torrents[h]), q, time)
          BY <3>1, <3>3 DEF AfterAnnounce, setPeerPublic
        <4>2. setTorrentL(torrents[h]) \in Torrent /\ TorrentExact(setTorrentL(torrents[h]))
          BY <1>0, setTorrentEffect, EmptyTorrentExact
        <4>3. q.event \notin {URI_EVENT_ID_NONE, URI_EVENT_ID_CONTINUE}
          BY DEF Query
        <4> QED  BY <4>1, <4>2, <4>3, setPeerExact
      <3> QED  BY <3>2, <3>3
    <2> QED  BY <2>1, <2>2
  <1>2. ASSUME NEW g \in Hashes, NEW limitTime \in LimitTimes, Collect(g, limitTime)
        PROVE  TorrentExact(torrents'[h])
    <2>1. CASE g # h
      BY <1>0, <1>2, <2>1 DEF TypeOK, Collect
    <2>2. CASE g = h
      <3>1. torrents[h] \in Torrent /\ torrents'[h] = collectTorrent(torrents[h], limitTime)
        BY <1>0, <1>2, <2>2 DEF TypeOK, Collect
      <3>2. StalePeers(torrents[h], limitTime) # Known(torrents[h])
        BY <3>1 DEF collectTorrent
      <3> QED  BY <1>0, <3>1, <3>2, collectExact, NoTorrentAssumption
    <2> QED  BY <2>1, <2>2
  <1>3. CASE torrents' = torrents
    BY <1>0, <1>3
  <1> QED  BY <1>1, <1>2, <1>3 DEF Next, Scrape, Send, Tick, vars

(* When announces carry none of the two events that mislead                 *)
(* changeTorrentStatsL (0 and "continue"), each counter by itself is exact. *)
THEOREM CountersCorrect ==
    ASSUME URI_EVENT_ID_NONE \notin Events, URI_EVENT_ID_CONTINUE \notin Events
    PROVE  Spec => []CountersExact
  <1>1. Init => ExactInv
    BY TimesAssumption DEF Init, ExactInv, TypeOK, LiveTorrents, Times
  <1>2. ExactInv /\ TypeOK' /\ [Next]_vars => ExactInv'
    BY ExactInvStep
  <1>3. ExactInv => CountersExact
    BY DEF ExactInv, TorrentExact, CountersExact, Leeches
  <1> QED  BY <1>1, <1>2, <1>3, TypeCorrect, PTL DEF Spec

-----------------------------------------------------------------------------
(* Replies *)

ReplyIsConsistent(r) ==
    r # NoReply =>
        /\ Cardinality(r.peers) <= r.complete + r.incomplete
        /\ Cardinality(r.peers) <= MaxPeersPerResponse

(* The unsigned sum never exceeds the sum.                                  *)
LEMMA AddUBound ==
    ASSUME NEW x \in UInt, NEW y \in UInt
    PROVE  AddU(x, y) <= x + y
  BY UIntAssumption DEF UInt, AddU

(* What renderAnnouncePublic renders of a torrent whose counters sum up     *)
(* to its peers is consistent: the snapshot property of one announce.       *)
LEMMA RenderedConsistent ==
    ASSUME 0 \notin NumWants, NEW t \in Torrent \cup {NoTorrent},
           t # NoTorrent => TorrentSum(t),
           NEW q \in Query, NEW S \in renderAnnouncePeersL(t, q)
    PROVE  ReplyIsConsistent([ReplyStats(t) EXCEPT !.peers = S])
  <1> DEFINE r == [ReplyStats(t) EXCEPT !.peers = S]
  <1>1. Cardinality(S) <= MaxPeersPerResponse
    <2>1. q.numwant \in Nat \ {0} /\ MaxPeersPerResponse \in Nat \ {0}
      <3>1. q.numwant \in NumWants
        BY DEF Query
      <3>2. UInt \subseteq Nat
        BY UIntAssumption DEF UInt
      <3> QED  BY <3>1, <3>2, NumWantsAssumption
    <2>2. RenderLimit(numwant(q)) = numwant(q) /\ numwant(q) \in Nat /\ numwant(q) <= MaxPeersPerResponse
      BY <2>1 DEF RenderLimit, numwant
    <2>3. Cardinality(S) \in Nat
      BY RenderedPeers, PeerSetSize DEF UInt
    <2> QED  BY <2>1, <2>2, <2>3, RenderedPeers
  <1>2. Cardinality(S) <= r.complete + r.incomplete
    <2>1. CASE t = NoTorrent
      <3>1. S = {}
        BY <2>1 DEF renderAnnouncePeersL, Eligible
      <3>2. r.complete = 0 /\ r.incomplete = 0
        BY <2>1 DEF ReplyStats
      <3> HIDE DEF r
      <3> QED  BY <3>1, <3>2, FS_EmptySet
    <2>2. CASE t # NoTorrent
      <3>1. S \in SUBSET Known(t) /\ Known(t) \in SUBSET Peers
        BY <2>2, KnownSubset DEF renderAnnouncePeersL, Eligible
      <3>2. Cardinality(S) <= Cardinality(Known(t)) /\ Cardinality(S) \in Nat
        BY <3>1, PeerSetSize, FS_Subset DEF UInt
      <3>3. t.complete \in UInt /\ t.incomplete \in UInt
        BY <2>2 DEF Torrent
      <3>4. Cardinality(Known(t)) = AddU(t.complete, t.incomplete)
        BY <2>2 DEF TorrentSum, SumOf
      <3>5. r.complete = t.complete /\ r.incomplete = t.incomplete
        BY <2>2 DEF ReplyStats
      <3>6. AddU(t.complete, t.incomplete) <= t.complete + t.incomplete
        BY <3>3, AddUBound
      <3>7. AddU(t.complete, t.incomplete) \in UInt
        BY <3>3, AddUStep
      <3> HIDE DEF r
      <3> QED  BY <3>2, <3>3, <3>4, <3>5, <3>6, <3>7 DEF UInt
    <2> QED  BY <2>1, <2>2
  <1>3. r.peers = S
    BY DEF ReplyStats
  <1> QED  BY <1>1, <1>2, <1>3 DEF ReplyIsConsistent

(* No step breaks ReplyConsistent; the replies that are not rendered by an  *)
(* announce list no peers.                                                  *)
LEMMA ReplyStep ==
    ASSUME 0 \notin NumWants, URI_EVENT_ID_NONE \notin Events,
           SumInv, SumInv', ReplyConsistent, [Next]_vars
    PROVE  ReplyConsistent'
  <1>0. TypeOK /\ TypeOK'
    BY DEF SumInv
  <1> SUFFICES ASSUME NEW v \in Workers
               PROVE  ReplyIsConsistent(reply'[v])
    BY DEF ReplyConsistent, ReplyIsConsistent
  <1>1. ReplyIsConsistent(reply[v])
    BY DEF ReplyConsistent, ReplyIsConsistent
  <1>2. ASSUME NEW w \in Workers, NEW q \in Query, NEW time \in Times, Announce(w, q, time)
        PROVE  ReplyIsConsistent(reply'[v])
    <2> DEFINE t == AfterAnnounce(torrents[q.hash], q, time)
    <2>1. PICK S \in renderAnnouncePeersL(t, q) :
            reply' = [reply EXCEPT ![w] = [ReplyStats(t) EXCEPT !.peers = S]]
      BY <1>2 DEF Announce
    <2>2. t = torrents'[q.hash] /\ q.hash \in Hashes
      BY <1>0, <1>2, AnnounceStep DEF TypeOK
    <2>3. t \in Torrent \cup {NoTorrent} /\ (t # NoTorrent => TorrentSum(t))
      BY <1>0, <2>2 DEF TypeOK, SumInv, LiveTorrents, TorrentSum, Known, SumOf
    <2> HIDE DEF t
    <2>4. ReplyIsConsistent([ReplyStats(t) EXCEPT !.peers = S])
      BY <2>3, RenderedConsistent
    <2> QED  BY <1>0, <1>1, <2>1, <2>4 DEF TypeOK
  <1>3. ASSUME NEW w \in Workers, NEW h \in Hashes, Scrape(w, h)
        PROVE  ReplyIsConsistent(reply'[v])
    <2> DEFINE r == ReplyStats(torrents[h])
    <2>1. r \in Reply /\ r.peers = {}
      BY <1>0, ReplyStatsType DEF TypeOK, ReplyStats
    <2>2. reply' = [reply EXCEPT ![w] = r]
      BY <1>3 DEF Scrape
    <2>3. MaxPeersPerResponse \in Nat
      BY NumWantsAssumption, UIntAssumption DEF UInt
    <2> HIDE DEF r
    <2>4. r.complete + r.incomplete \in Nat
      BY <2>1, UIntAssumption DEF Reply, UInt
    <2>5. ReplyIsConsistent(r)
      BY <2>1, <2>3, <2>4, FS_EmptySet DEF ReplyIsConsistent
    <2> QED  BY <1>0, <1>1, <2>2, <2>5 DEF TypeOK
  <1>4. ASSUME NEW w \in Workers, Send(w)
        PROVE  ReplyIsConsistent(reply'[v])
    BY <1>0, <1>1, <1>4 DEF Send, TypeOK, ReplyIsConsistent
  <1>5. CASE reply' = reply
    BY <1>1, <1>5
  <1> QED  BY <1>2, <1>3, <1>4, <1>5 DEF Next, Collect, Tick, vars

(* A reply never lists more peers than its own counters count, nor more     *)
(* than -m allows, when announces carry neither event 0, which mistakes the *)
(* counters, nor numwant = 0, which renders without a limit.                *)
THEOREM ReplyCorrect ==
    ASSUME 0 \notin NumWants, URI_EVENT_ID_NONE \notin Events
    PROVE  Spec => []ReplyConsistent
  <1>1. Init => SumInv /\ ReplyConsistent
    BY TimesAssumption DEF Init, SumInv, TypeOK, LiveTorrents, Times, ReplyConsistent
  <1>2. SumInv /\ TypeOK' /\ [Next]_vars => SumInv'
    BY SumInvStep
  <1>3. SumInv /\ SumInv' /\ ReplyConsistent /\ [Next]_vars => ReplyConsistent'
    BY ReplyStep
  <1> QED  BY <1>1, <1>2, <1>3, TypeCorrect, PTL DEF Spec

-----------------------------------------------------------------------------
(* Who may remove a peer *)

(* The peer of a hash after an announce that is not about it. *)
LEMMA AnnounceOthers ==
    ASSUME NEW t \in Torrent \cup {NoTorrent}, NEW q \in Query, NEW time \in Times,
           NEW p \in Peers, t # NoTorrent, t.peers[p] # NoPeer,
           p # q.peer \/ q.event # URI_EVENT_ID_STOPPED
    PROVE  LET s == AfterAnnounce(t, q, time) IN s # NoTorrent /\ s.peers[p] # NoPeer
  <1>1. CASE q.event = URI_EVENT_ID_STOPPED
    <2>1. CASE q.peer \in Known(t)
      BY ZenonT(60), <1>1, <2>1, deletePeerEffect, KnownAfterDelete, NoTorrentAssumption DEF AfterAnnounce
    <2>2. CASE q.peer \notin Known(t)
      BY <1>1, <2>2, deletePeerNoop DEF AfterAnnounce
    <2> QED  BY <2>1, <2>2
  <1>2. CASE q.event # URI_EVENT_ID_STOPPED
    <2> DEFINE s == setPeer(t, q, time)
    <2>1. s \in Torrent /\ Known(s) = Known(t) \cup {q.peer}
      BY setPeerEffect, KnownAfterSet
    <2>2. AfterAnnounce(t, q, time) = s
      BY <1>2, setTorrentEffect DEF AfterAnnounce, setPeerPublic
    <2> HIDE DEF s
    <2> QED  BY <2>1, <2>2, NoTorrentAssumption DEF Known
  <1> QED  BY <1>1, <1>2

(* A step of the collector keeps a peer that is not stale. *)
LEMMA CollectOthers ==
    ASSUME NEW t \in Torrent, NEW limitTime, NEW p \in Peers,
           t.peers[p] # NoPeer, ~Stale(t.peers[p], limitTime)
    PROVE  LET s == collectTorrent(t, limitTime) IN s # NoTorrent /\ s.peers[p] # NoPeer
  <1>1. StalePeers(t, limitTime) # Known(t) /\ p \in Known(t) \ StalePeers(t, limitTime)
    BY DEF StalePeers, Known
  <1>2. /\ collectTorrent(t, limitTime) \in Torrent
        /\ Known(collectTorrent(t, limitTime)) = Known(t) \ StalePeers(t, limitTime)
    BY <1>1, collectEffect, KnownAfterCollect
  <1> QED  BY <1>1, <1>2, NoTorrentAssumption DEF Known

(* The body of FreshPeersKept for one step. *)
LEMMA FreshStep ==
    ASSUME TypeOK, [Next]_vars, NEW h \in Hashes, NEW p \in Peers,
           PeerOf(h, p) # NoPeer,
           now - PeerOf(h, p).updateTime <= MaxAliveTime + IntervalStep,
           PeerOf(h, p)' = NoPeer
    PROVE  \E w \in Workers, q \in Query :
             q.peer = p /\ q.hash = h /\ q.event = URI_EVENT_ID_STOPPED /\ Announce(w, q, now)
  <1>0. /\ torrents[h] \in Torrent \cup {NoTorrent} /\ torrents[h] # NoTorrent
        /\ torrents[h].peers[p] # NoPeer
        /\ PeerOf(h, p) = torrents[h].peers[p]
        /\ torrents'[h] = NoTorrent \/ torrents'[h].peers[p] = NoPeer
    BY DEF TypeOK, PeerOf
  <1>1. ASSUME NEW w \in Workers, NEW q \in Query, NEW time \in Times, Announce(w, q, time)
        PROVE  \E v \in Workers, r \in Query :
                 r.peer = p /\ r.hash = h /\ r.event = URI_EVENT_ID_STOPPED /\ Announce(v, r, now)
    <2>1. /\ torrents' = [torrents EXCEPT ![q.hash] = AfterAnnounce(torrents[q.hash], q, time)]
          /\ q.hash \in Hashes
      BY <1>1, AnnounceStep
    <2>2. q.hash = h
      BY <1>0, <2>1 DEF TypeOK
    <2>3. torrents'[h] = AfterAnnounce(torrents[h], q, time)
      BY <2>1, <2>2 DEF TypeOK
    <2>4. q.peer = p /\ q.event = URI_EVENT_ID_STOPPED
      BY <1>0, <2>3, AnnounceOthers
    <2>5. AfterAnnounce(torrents[h], q, time) = AfterAnnounce(torrents[h], q, now)
      BY <2>4 DEF AfterAnnounce
    <2>6. now <= now
      BY TimesAssumption DEF TypeOK, Times
    <2>7. Announce(w, q, now)
      BY <1>1, <2>2, <2>5, <2>6 DEF Announce
    <2> QED  BY <2>2, <2>4, <2>7
  <1>2. ASSUME NEW g \in Hashes, NEW limitTime \in LimitTimes, Collect(g, limitTime)
        PROVE  FALSE
    <2>1. g = h
      BY <1>0, <1>2 DEF Collect, TypeOK
    <2>2. torrents'[h] = collectTorrent(torrents[h], limitTime)
      BY <1>2, <2>1 DEF Collect, TypeOK
    <2>3. torrents[h].peers[p] \in PeerData
      BY <1>0 DEF Torrent
    <2>4. ~Stale(torrents[h].peers[p], limitTime)
      <3>1. limitTime <= now - MaxAliveTime - IntervalStep
        BY <1>2 DEF Collect
      <3>2. limitTime \in Int /\ now \in Int /\ torrents[h].peers[p].updateTime \in Int
        BY <2>3, TimesAssumption DEF TypeOK, LimitTimes, Times, PeerData
      <3> QED  BY <1>0, <3>1, <3>2, TimesAssumption DEF Stale
    <2> QED  BY <1>0, <2>2, <2>4, CollectOthers
  <1>3. CASE torrents' = torrents
    BY <1>0, <1>3
  <1> QED  BY <1>1, <1>2, <1>3 DEF Next, Scrape, Send, Tick, vars

(* A peer that announced within MaxAliveTime + IntervalStep seconds leaves  *)
(* the list by an announce "stopped" of its own and in no other way.        *)
THEOREM FreshPeersKeptCorrect == Spec => FreshPeersKept
  <1>1. TypeOK /\ [Next]_vars => \A h \in Hashes, p \in Peers :
          /\ PeerOf(h, p) # NoPeer
          /\ now - PeerOf(h, p).updateTime <= MaxAliveTime + IntervalStep
          /\ PeerOf(h, p)' = NoPeer
          => \E w \in Workers, q \in Query :
              q.peer = p /\ q.hash = h /\ q.event = URI_EVENT_ID_STOPPED /\ Announce(w, q, now)
    BY FreshStep
  <1> QED  BY <1>1, TypeCorrect, PTL DEF Spec, FreshPeersKept
=============================================================================
