---------------------------- MODULE TorrentData ----------------------------
(***************************************************************************)
(* The data of one torrent and what the functions of data.c and            *)
(* data_garbage.c compute on it.  A torrent is the structure torrentDataL  *)
(* together with its list of peers; a peer is the structure peerDataL.     *)
(*                                                                         *)
(* Abstractions: the addresses, the port and the protocol bits of a peer   *)
(* are not kept (nothing branches on them: DATA_SEPARATE_TCP_AND_UDP_-     *)
(* CLIENTS is 0); the list of peers is a function on the peer ids with     *)
(* NoPeer for the ids that are not in the list; of the hash table of the   *)
(* list only its level (0: one leaf, 1: 256 leaves) is kept.  The counters *)
(* are unsigned ints and wrap after UIntMax.                               *)
(***************************************************************************)
EXTENDS Integers, FiniteSets

CONSTANTS
    Hashes,                 \* info hashes
    Peers,                  \* peer ids
    Events,                 \* events that announces may carry
    IpVersions,             \* SOCKET_VERSION_IPV4_BIT, SOCKET_VERSION_IPV6_BIT
    NumWants,               \* values of numwant that announces may carry
    MaxPeersPerResponse,    \* the -m argument
    PacketPeers,            \* rendered peers that reach DATA_MAX_PACKET_SIZE
    PeersForLevel0Limit,    \* DATA_STRUCTURE_PEERS_FOR_LEVEL_0_LIMIT
    UIntMax,                \* largest unsigned int
    MaxAliveTime,           \* DATA_GARBAGE_MAX_ALIVE_TIME
    IntervalStep,           \* INTERVAL_STEP_S
    MaxTime,                \* bound: the last value of the clock
    MaxDownloads,           \* bound: completions of one torrent
    NoPeer,                 \* a peer id that is not in the list
    NoTorrent               \* a hash that is not in the list

URI_EVENT_ID_NONE      == "none"
URI_EVENT_ID_COMPLETED == "completed"
URI_EVENT_ID_STARTED   == "started"
URI_EVENT_ID_STOPPED   == "stopped"
URI_EVENT_ID_PAUSED    == "paused"
URI_EVENT_ID_CONTINUE  == "continue"

AllEvents == {URI_EVENT_ID_NONE, URI_EVENT_ID_COMPLETED, URI_EVENT_ID_STARTED,
              URI_EVENT_ID_STOPPED, URI_EVENT_ID_PAUSED, URI_EVENT_ID_CONTINUE}

Times == 0 .. MaxTime
UInt == 0 .. UIntMax

PeerData == [event: AllEvents, updateTime: Times, ipVersion: SUBSET IpVersions]

Torrent == [peers: [Peers -> PeerData \cup {NoPeer}],
            complete: UInt, incomplete: UInt, downloaded: UInt,
            level: {0, 1}]

Query == [hash: Hashes, peer: Peers, event: Events, ipVersion: IpVersions,
          numwant: NumWants]

Reply == [complete: UInt, incomplete: UInt, downloaded: UInt, peers: SUBSET Peers]

ASSUME PeersAssumption == IsFiniteSet(Peers)
ASSUME EventsAssumption == Events \subseteq AllEvents
ASSUME NumWantsAssumption == NumWants \subseteq UInt /\ MaxPeersPerResponse \in UInt \ {0}
ASSUME LimitsAssumption == PacketPeers \in Nat \ {0} /\ PeersForLevel0Limit \in Nat
ASSUME TimesAssumption ==
    MaxAliveTime \in Nat /\ IntervalStep \in Nat /\ MaxTime \in Nat
(* The peers of a torrent are items on the heap: fewer than 2^32. *)
ASSUME UIntAssumption ==
    UIntMax \in Nat \ {0} /\ Cardinality(Peers) <= UIntMax /\ MaxDownloads \in UInt
ASSUME NoPeerAssumption == NoPeer \notin PeerData
ASSUME NoTorrentAssumption == NoTorrent \notin Torrent

-----------------------------------------------------------------------------
(* Unsigned arithmetic: ++, --, + and -= n. *)
Inc(x) == IF x = UIntMax THEN 0 ELSE x + 1
(* Mutant: the counter is signed. *)
DecSigned(x) == x - 1
Dec(x) == IF x = 0 THEN UIntMax ELSE x - 1
AddU(x, y) == IF x + y > UIntMax THEN x + y - UIntMax - 1 ELSE x + y
SubU(x, n) == IF n <= x THEN x - n ELSE x + UIntMax + 1 - n

Known(t) == {p \in Peers : t.peers[p] # NoPeer}
Seeds(t) == {p \in Known(t) : t.peers[p].event = URI_EVENT_ID_COMPLETED}

(* Mutant: only seeds are taken out of the statistics. *)
RemovedPeerStatsSeedsOnly(t, oldEvent) ==
    IF oldEvent = URI_EVENT_ID_COMPLETED THEN [t EXCEPT !.complete = Dec(@)] ELSE t

(* Mutant: a peer that completes stays counted as incomplete. *)
ChangedPeerStatsNoDec(t, oldEvent, newEvent) ==
    IF oldEvent = URI_EVENT_ID_COMPLETED
    THEN [t EXCEPT !.complete = Dec(@), !.incomplete = Inc(@)]
    ELSE IF newEvent = URI_EVENT_ID_COMPLETED
    THEN [t EXCEPT !.downloaded = Inc(@), !.complete = Inc(@)]
    ELSE t

(* changeTorrentStatsL: how the counters follow a change of a peer's event *)
NewPeerStats(t, newEvent) ==
    IF newEvent = URI_EVENT_ID_COMPLETED
    THEN [t EXCEPT !.downloaded = Inc(@), !.complete = Inc(@)]
    ELSE [t EXCEPT !.incomplete = Inc(@)]

RemovedPeerStats(t, oldEvent) ==
    IF oldEvent = URI_EVENT_ID_COMPLETED
    THEN [t EXCEPT !.complete = Dec(@)]
    ELSE [t EXCEPT !.incomplete = Dec(@)]

ChangedPeerStats(t, oldEvent, newEvent) ==
    IF oldEvent = URI_EVENT_ID_COMPLETED
    THEN [t EXCEPT !.complete = Dec(@), !.incomplete = Inc(@)]
    ELSE IF newEvent = URI_EVENT_ID_COMPLETED
    THEN [t EXCEPT !.downloaded = Inc(@), !.complete = Inc(@), !.incomplete = Dec(@)]
    ELSE t

changeTorrentStatsL(t, oldEvent, newEvent) ==
    IF oldEvent = URI_EVENT_ID_NONE THEN NewPeerStats(t, newEvent)
    ELSE IF newEvent = URI_EVENT_ID_NONE THEN RemovedPeerStats(t, oldEvent)
    ELSE IF oldEvent # newEvent /\ newEvent # URI_EVENT_ID_CONTINUE
    THEN ChangedPeerStats(t, oldEvent, newEvent)
    ELSE t

-----------------------------------------------------------------------------
(* setTorrentL: an unknown hash gets a torrent with an empty list. *)
EmptyTorrent ==
    [peers |-> [p \in Peers |-> NoPeer], complete |-> 0, incomplete |-> 0,
     downloaded |-> 0, level |-> 0]

setTorrentL(t) == IF t = NoTorrent THEN EmptyTorrent ELSE t

(* The list moves to level 1 when the counters say it is too long. *)
reInitList(t) ==
    IF AddU(t.complete, t.incomplete) > PeersForLevel0Limit /\ t.level = 0
    THEN [t EXCEPT !.level = 1]
    ELSE t

(* setPeerPublic after setTorrentL: insert or update the peer of query q. *)
setPeer(t, q, time) ==
    LET old == t.peers[q.peer]
        oldEvent == IF old = NoPeer THEN URI_EVENT_ID_NONE ELSE old.event
        oldVersion == IF old = NoPeer THEN {} ELSE old.ipVersion
        new == [event |-> q.event, updateTime |-> time,
                ipVersion |-> oldVersion \cup {q.ipVersion}]
    IN  [changeTorrentStatsL(reInitList(t), oldEvent, q.event)
            EXCEPT !.peers = [@ EXCEPT ![q.peer] = new]]

setPeerPublic(t, q, time) == setPeer(setTorrentL(t), q, time)

(* Mutant: the statistics change but the item stays in the list. *)
deletePeerPublicNoDelete(t, q) ==
    IF t = NoTorrent \/ q.peer \notin Known(t) THEN t
    ELSE changeTorrentStatsL(t, t.peers[q.peer].event, URI_EVENT_ID_NONE)

deletePeerPublic(t, q) ==
    IF t = NoTorrent \/ q.peer \notin Known(t) THEN t
    ELSE [changeTorrentStatsL(t, t.peers[q.peer].event, URI_EVENT_ID_NONE)
            EXCEPT !.peers = [@ EXCEPT ![q.peer] = NoPeer]]

-----------------------------------------------------------------------------
(* renderAnnouncePublic.  The callback decrements the unsigned leftPeers   *)
(* after it rendered a peer and stops at 0, so numwant = 0 renders         *)
(* UIntMax + 1 peers; the packet size stops it too.  Which peers come      *)
(* first is decided by the order of the list, which is left open here.     *)
Eligible(t, v) == IF t = NoTorrent THEN {} ELSE {p \in Known(t) : v \in t.peers[p].ipVersion}

numwant(q) == IF q.numwant > MaxPeersPerResponse THEN MaxPeersPerResponse ELSE q.numwant

RenderLimit(n) == IF n = 0 THEN UIntMax + 1 ELSE n

renderAnnouncePeersL(t, q) ==
    LET all == Eligible(t, q.ipVersion)
        limit == RenderLimit(numwant(q))
    IN  {S \in SUBSET all :
            /\ Cardinality(S) <= limit
            /\ Cardinality(S) <= PacketPeers
            /\ S = all \/ Cardinality(S) = limit \/ Cardinality(S) = PacketPeers}

(* The counters of a reply: the copy of torrentDataL, zeros for no torrent. *)
ReplyStats(t) ==
    IF t = NoTorrent
    THEN [complete |-> 0, incomplete |-> 0, downloaded |-> 0, peers |-> {}]
    ELSE [complete |-> t.complete, incomplete |-> t.incomplete,
          downloaded |-> t.downloaded, peers |-> {}]

-----------------------------------------------------------------------------
(* Mutant: the last second of the allowance is lost. *)
StaleEarly(peer, limitTime) == peer # NoPeer /\ peer.updateTime <= limitTime

(* Mutant: the collected peer stays in the statistics. *)
collectPeerNoStats(t, p) == [t EXCEPT !.peers = [@ EXCEPT ![p] = NoPeer]]

(* Garbage collection of one peer and of one torrent. *)
Stale(peer, limitTime) == peer # NoPeer /\ peer.updateTime < limitTime

collectPeer(t, p) ==
    [RemovedPeerStats(t, t.peers[p].event) EXCEPT !.peers = [@ EXCEPT ![p] = NoPeer]]

StalePeers(t, limitTime) == {p \in Peers : Stale(t.peers[p], limitTime)}

(* All the peers a pass over the torrent removes, and the torrent itself   *)
(* when no peer is left.                                                   *)
collectTorrent(t, limitTime) ==
    LET stale == StalePeers(t, limitTime)
        seeds == stale \cap Seeds(t)
    IN  IF stale = Known(t) THEN NoTorrent
        ELSE [t EXCEPT !.peers = [p \in Peers |-> IF p \in stale THEN NoPeer ELSE t.peers[p]],
                       !.complete = SubU(@, Cardinality(seeds)),
                       !.incomplete = SubU(@, Cardinality(stale \ seeds))]
=============================================================================
