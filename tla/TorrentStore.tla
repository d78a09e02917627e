---------------------------- MODULE TorrentStore ----------------------------
(***************************************************************************)
(* What the torrent list promises to the threads that use it: every        *)
(* announce, every hash of a scrape and every visit of the garbage         *)
(* collector to a torrent happens in one step.  Module Tracker has the     *)
(* steps the threads really take and is shown to implement this module.    *)
(***************************************************************************)
EXTENDS TorrentData

CONSTANTS
    Workers,        \* the TCP and UDP worker threads
    NoReply         \* the worker has no reply to send

ASSUME NoReplyAssumption == NoReply \notin Reply

VARIABLES
    torrents,       \* torrentList: the torrent of each hash, or NoTorrent
    reply,          \* the reply each worker has rendered and not sent
    now             \* time(NULL)

vars == <<torrents, reply, now>>

TypeOK ==
    /\ torrents \in [Hashes -> Torrent \cup {NoTorrent}]
    /\ reply \in [Workers -> Reply \cup {NoReply}]
    /\ now \in Times

Init ==
    /\ torrents = [h \in Hashes |-> NoTorrent]
    /\ reply = [w \in Workers |-> NoReply]
    /\ now = 0

(* Bound: a torrent that was completed MaxDownloads times takes no more of them. *)
DownloadsBounded(t, q) ==
    q.event = URI_EVENT_ID_COMPLETED /\ t # NoTorrent => t.downloaded < MaxDownloads

(* The store after the announce q: a stopped peer leaves, any other is set. *)
AfterAnnounce(t, q, time) ==
    IF q.event = URI_EVENT_ID_STOPPED THEN deletePeerPublic(t, q) ELSE setPeerPublic(t, q, time)

(* The clock is read while the announce runs: time may be in the past. *)
Announce(w, q, time) ==
    /\ time <= now
    /\ DownloadsBounded(torrents[q.hash], q)
    /\ LET t == AfterAnnounce(torrents[q.hash], q, time) IN
        /\ torrents' = [torrents EXCEPT ![q.hash] = t]
        /\ \E S \in renderAnnouncePeersL(t, q) :
            reply' = [reply EXCEPT ![w] = [ReplyStats(t) EXCEPT !.peers = S]]
    /\ UNCHANGED now

(* renderScrapeTorrentL for one of the hashes of a scrape *)
Scrape(w, h) ==
    /\ reply' = [reply EXCEPT ![w] = ReplyStats(torrents[h])]
    /\ UNCHANGED <<torrents, now>>

Send(w) ==
    /\ reply[w] # NoReply
    /\ reply' = [reply EXCEPT ![w] = NoReply]
    /\ UNCHANGED <<torrents, now>>

(* A pass of the garbage collector computes limitTime when it starts, so a *)
(* visit may use a limit that was current some time ago.                   *)
Collect(h, limitTime) ==
    /\ torrents[h] # NoTorrent
    /\ limitTime <= now - MaxAliveTime - IntervalStep
    /\ torrents' = [torrents EXCEPT ![h] = collectTorrent(@, limitTime)]
    /\ UNCHANGED <<reply, now>>

LimitTimes == {time - MaxAliveTime - IntervalStep : time \in Times}

Tick ==
    /\ now < MaxTime
    /\ now' = now + 1
    /\ UNCHANGED <<torrents, reply>>

Next ==
    \/ \E w \in Workers, q \in Query, time \in Times : Announce(w, q, time)
    \/ \E w \in Workers, h \in Hashes : Scrape(w, h)
    \/ \E w \in Workers : Send(w)
    \/ \E h \in Hashes, limitTime \in LimitTimes : Collect(h, limitTime)
    \/ Tick

Spec == Init /\ [][Next]_vars

-----------------------------------------------------------------------------
LiveTorrents == {h \in Hashes : torrents[h] # NoTorrent}

(* The sum of the two counters of a torrent, which wraps as the code's sum *)
(* does, is the number of peers in its list.  setPeerPublic relies on it   *)
(* to decide when the list needs a hash table (data.c:407).  It holds      *)
(* when no announce carries the event 0 that changeTorrentStatsL keeps for *)
(* peers that appear and disappear.                                        *)
SumIsPeers ==
    \A h \in LiveTorrents :
        AddU(torrents[h].complete, torrents[h].incomplete) = Cardinality(Known(torrents[h]))

(* complete counts the peers whose last event is "completed", incomplete   *)
(* the others (the counters of changeTorrentStatsL and of the garbage      *)
(* collector's peer callback).  Module Tracker checks it for announces     *)
(* that say whether they are complete; with "continue" it fails.           *)
CountersExact ==
    \A h \in LiveTorrents :
        /\ torrents[h].complete = Cardinality(Seeds(torrents[h]))
        /\ torrents[h].incomplete = Cardinality(Known(torrents[h]) \ Seeds(torrents[h]))

(* A reply is one snapshot: it never lists more peers than its own         *)
(* counters count, and never more than -m allows (numwant from 1 on).      *)
ReplyConsistent ==
    \A w \in Workers :
        reply[w] # NoReply =>
            /\ Cardinality(reply[w].peers) <= reply[w].complete + reply[w].incomplete
            /\ Cardinality(reply[w].peers) <= MaxPeersPerResponse

PeerOf(h, p) == IF torrents[h] = NoTorrent THEN NoPeer ELSE torrents[h].peers[p]

(* A peer that announced within MaxAliveTime + IntervalStep seconds stays  *)
(* in the list unless it stops: only an announce of its own, which renders *)
(* a reply, may remove it, never the garbage collector.                    *)
FreshPeersKept ==
    [][\A h \in Hashes, p \in Peers :
        /\ PeerOf(h, p) # NoPeer
        /\ now - PeerOf(h, p).updateTime <= MaxAliveTime + IntervalStep
        /\ PeerOf(h, p)' = NoPeer
        => \E w \in Workers, q \in Query :
            q.peer = p /\ q.hash = h /\ q.event = URI_EVENT_ID_STOPPED /\ Announce(w, q, now)]_vars
=============================================================================
