# A TLA+ development of etracker

etracker is a BitTorrent tracker in C: HTTP and UDP announces and scrapes, a
small web interface, all in memory, with one process of many threads. This
directory models its core as TLA+ modules, checks them with TLC on small
instances and proves the central results for all values of the constants with
TLAPS. File and line references are to the sources of the repository.

## 1. Inventory of the system

| Component (files) | State | Operations | Talks to |
|---|---|---|---|
| Torrents and peers (`data.c`, `data_structure.h`) | `torrentList`: a torrent per info hash with `complete`, `incomplete`, `downloaded` and a list of peers (event, time, addresses) | `setPeerPublic`, `deletePeerPublic`, `renderAnnouncePublic`, `renderScrapeTorrentsPublic` | called by the workers under the semaphore of a leaf |
| Hash list (`list.c`, `sem.c`) | leaves with a semaphore and a sorted linked list each | `setHash`, `deleteItem`, `mapList`, `reInitList`, `waitSemaphoreLeaf` | everything below is kept in such lists |
| Garbage collector of torrents (`data_garbage.c`) | `limitTime` of the pass | walk over all leaves, torrents, peers | changes torrents under the workers |
| UDP listener and queue (`socket_udp.c`, `udp_request.c`) | linked list of requests, semaphore, mutex and condition variable | `addUdpRequest`, `pullUdpRequest`, signal | listener to UDP workers |
| UDP worker (`thread_client_udp.c`) | current request | connect, announce, scrape | queue, torrents |
| TCP listener, socket lists, event queue (`socket_tcp.c`, `socket_garbage.c`, `equeue.c`) | a list of sockets and an epoll/kqueue queue per worker | accept, `updateSocketL`, `addClientEqueue`, `deleteSocketL` | listener, TCP workers, timeout thread |
| TCP worker (`thread_client_tcp.c`) | events of one loop, `deleteSocketList` | `processRead`: announce, scrape, `/api/set`, `/api/websocket`, files | sockets, torrents, interval, websockets |
| Websockets (`websocket.c`) | list of descriptors | registration, lookup, removal, broadcast | TCP and UDP workers, timeout thread |
| Reply sending (`socket.c`) | send buffers of the kernel | `renderHttpMessage`, `send_` | called by workers and the timeout thread under their semaphores |
| Request parser and buffers (`uri.c`, `block.c`) | `query`, the blocks of a worker | `parseUri`, `parseXForwardedFor`, `addStringBlock`, `addFileBlock` | TCP worker |
| Command line (`argument.c`) | `arguments` | `parseArguments` | read by `main`, `keepAlive` changed by `/api/set` |
| Process setup (`server.c`) | | starts all threads, drops privileges | everything |
| Requests per second (`rps.c`) | `odd`, `even`, `max`, `status`, all `_Atomic` | `updateRps`, `rpsStatusHandler`, `resetMaxRps` | workers, status thread, `main` |
| Locations (`geoip.c`) | a table of address ranges | `loadGeoipHandler`, `findGeoip` | loader thread, `main`, broadcasts |
| Socket timeout thread (`thread_garbage.c`) | `maxTimeAllow`, walk | closes idle sockets | all socket lists |
| Announce interval (`interval.c`, `thread_garbage.c`) | `interval`, `requireInterval`, `previousInterval`, all `_Atomic` | `updateInterval`, `stepInterval`, `forceUpdateInterval` | changer, collector and TCP workers |
| Statistics and helpers (`stats.c`, `alloc.c`, ...) | counters that are printed | | see section 8 |

What is hard to test here, and what would make each part correct:

- *Torrents.* The counters are only ever moved by one, in the branches of
  `changeTorrentStatsL`, from the event remembered for the peer. Correct means:
  whatever sequence of announces and collections, they agree with the list; a
  reply respects `-m` and its own counters; a peer that announced in time is
  kept.
- *Leaves and the collector.* Announces are several steps through pointers, and
  the collector walks the same lists and frees torrents. Correct means: every
  announce is atomic for the others, no freed item is used, `freeList` never
  meets a list that is not empty, requests are answered, silent peers go away.
- *UDP queue.* A semaphore for the list, a mutex and a condition variable for
  the sleep. Correct means: a FIFO queue that loses nothing, no deadlock, and a
  datagram wakes a worker.
- *Sockets.* Descriptors are reused by the kernel as soon as they are closed,
  while lists and event batches still name them. Correct means: an event, a
  close and a "this is a websocket" always concern the connection they were
  meant for, nothing leaks, idle sockets are closed.
- *Interval.* Three kinds of threads read and write three fields without a
  lock. Correct means: clients get an interval of the configured range, and the
  collector, which waits for two fields to be equal, keeps running.

- *Replies and frames.* A worker sends while it holds semaphores, to clients that
  may not read, and gives up after a number of retries. Correct means: frames of
  different threads are not mixed, only messages that were counted as skipped are
  cut, entries of the websockets belong to websockets, and every worker returns.
- *Requests on a connection.* Fragments are peeked at, queries are parsed by
  character, buffers are reused, and `/api/set` changes what the reply depends
  on. Correct means: no fragment is lost, the query is what the client wrote,
  lengths are right and fit, and the connection does what its header said.
- *Setup, counters and locations.* `main` starts threads that already work while
  it goes on. Correct means: only usable configurations start, every request
  counts once, and a search never uses a line that is not loaded.

`PROJECT.json` lists the hazards line by line with the properties that cover
them.

## 2. Modules

| Module | Models | Notes |
|---|---|---|
| `TorrentData` | the functions of `data.c` and `data_garbage.c` on one torrent | no variables; unsigned counters wrap at `UIntMax` |
| `TorrentStore` | the abstract promise: announces, scrapes and collections are atomic | extends `TorrentData` |
| `Tracker` | workers and garbage collector step by step with the leaf semaphores | implements `TorrentStore` (`StoreSpec`) |
| `UdpFifo` | the abstract promise of the request queue | |
| `UdpQueue` | UDP listener and workers, the linked list and the three synchronisation objects | implements `UdpFifo` (`FifoSpec`) |
| `HashMap` | the abstract promise of a hash list: a map from hashes to data, one call at a time | |
| `HashList` | the linked leaves of `list.c` on a heap | implements `HashMap` (`MapSpec`) |
| `Interval` | the three interval fields and every atomic access to them | |
| `SocketTable` | TCP listener, workers, timeout thread, descriptors, websockets | |
| `Broadcast` | `send_`, `broadcast`, and the opening and closing of the connections they write to | |
| `Arguments`, `Uri`, `Block` | `parseArguments`, `parseUri` and the growable buffer as functions | no variables |
| `Request` | from the command line to the reply of a connection | extends the three above |
| `Rps`, `Geoip` | the counters of requests; the table of locations, its loader and its search | |
| `Server` | `main` and the threads it starts | composes `Rps` and `Geoip` |
| `TorrentStoreProofs`, `TrackerProofs`, `HashListProofs`, `SocketTableProofs`, `BroadcastProofs`, `RequestProofs`, `ServerProofs` | theorems about the module of that name | each extends it |
| `IntervalQueueProofs` | theorems about `Interval` and about `UdpQueue` | extends both, which share nothing |
| `MCTorrentStore`, `MCTracker`, `MCHashList`, `MCSocketTable`, `MCServer`, `MCRequest` | values of constants for TLC | |

Definitions carry the names of the C functions where they model one. An
operator whose comment starts with "Mutant:" is a deliberately wrong variant of
the definition after it; no specification uses it. `PROJECT.json` pairs each
checked property with a mutant that breaks it.

### TorrentData and TorrentStore

A torrent is a record of the three counters, the list of peers (a function from
peer ids, `NoPeer` for ids that are not listed) and the level of its hash
table. Addresses, ports and protocol bits are dropped: with
`DATA_SEPARATE_TCP_AND_UDP_CLIENTS` 0 nothing branches on them. The clock is
`now`; `time(NULL)` and the `limitTime` of a collector's pass may lag behind it.
Which peers a reply lists when it is cut is left open (it is decided by the
order of ids), how many is not.

The event a peer announces is one of `Events`. HTTP yields completed, started,
stopped, paused or continue (any unknown text); UDP passes the number of the
packet through, 0 included.

### Tracker

One step per access to shared data: waiting for the semaphore of the leaf,
finding or creating the torrent, changing the peer, copying the counters,
walking the peers, posting. The scrape takes the leaves of its hashes one after
the other. The collector follows `mapList`: it looks at `firstItem` *without*
the semaphore, skips empty leaves, and reads the next pointer before it calls
back. A pointer is the hash it was found under, 0 is `NULL`. The history
variable `committed` is what `torrents` was after the last finished announce or
visit; it is the refinement mapping to `TorrentStore`.

### HashList

The peer list of one torrent, as its users see it one at a time: the loop of
`setHash` and `getHash` turn by turn, insertion and `deleteItem` as the pointer
assignments they are, `mapList` with a callback that keeps, deletes or breaks,
and `reInitList`, which walks the old list, inserts into the new one and deletes
the item it stands on. Addresses of items and of their data come from finite
sets and are reused after `c_free`. `HashMap` says that a call begins with
a hash and ends with what the map has for that hash: an insertion or a deletion is of
the hash of the call alone, a walk calls back for hashes it has left. The refinement
mapping is `Contents`, the data of each stored hash, and `Pending`, the call that is
under way in `seek` or `walk`. `Tracker` and `SocketTable` take the order
of a leaf and the saved next pointer from here and add the semaphores.

### UdpQueue

One step per assignment to the list and per lock operation.
`pthread_cond_wait` releases the mutex and joins the sleepers in one step, may
wake spuriously, and returns with the mutex. Serving a request is one step.

### Interval

Every load and store of the three atomic fields is a step: `stepInterval`
compares with two loads and increments with one atomic read-modify-write,
`updateInterval` loads once and stores twice, `forceUpdateInterval` stores three
times. The load average is nondeterministic. Sleeps are left out: any thread
may be slow.

### SocketTable

Connections have numbers of their own and descriptors are reused, so that the
properties can say which connection a descriptor was meant for. `equeue` and
`ready` model an edge-triggered event queue (`EPOLLET`, `EV_CLEAR`). Each list
has a semaphore for the whole list (held by its worker during a loop, and by
the timeout thread during a walk) and one per leaf.

### Broadcast

One call of `send` is one step: it takes what fits into the room left in the
socket, and the client may read, or hang up, between two calls. `send[t]` holds
the locals of `send_`; its callers go on in `Return`. `replyPart` and
`framePart` remember which message a client has only a part of: a request
number stands for the message it caused. The semaphore of a worker's own socket
list is implicit: `pc[w]` is whoever holds it, the worker or the timeout thread.
A worker closes a live connection, websocket or not, without a reply when the second
`recv` does not read what the first one peeked at (`hungUp`), and with the reply 413
when a request is too long (`oversize`).

### Request, Arguments, Uri, Block

The first half is the command line, option by option; `Numbers` is what `atoi`
makes of the values. The second is one connection: a client sends a request in
fragments and waits for the reply before the next one. A request is a record of
its route, its query and what the headers ask for; `Message` writes the query out
as characters and `parseUri` reads it back, so `ParsedAsWritten` compares the two.
What depends on the file system, on the authorisation or on the websocket key is
the field `sees`. A buffer is its two sizes, and the body of a reply a length.
`recvFailed` stands for the three ways a `recv` ends a connection without a reply. The
length of the header Content-Type, which depends on the charset of the command line, is
the constant `ContentType`, up to the 1000 bytes reserved for it (`socket.c:107`); a longer
charset would be written before `checkSizeBlock` looks, and is outside the model.

### Rps, Geoip, Server

Every access to an atomic variable of `rps.c` is a step, and so is every cell the
loader stores; the search, over lines that do not change any more, is one step.
`atoi` makes a negative `int` of an address in the upper half, and the unsigned field of
the table turns it back (`Unsigned`).
`calls` and `late` in `Rps` are history variables. `Server` is `main` in its
order, with the listeners that bind in threads of their own; an exit stops
all threads.

## 3. Runs

Every run finishes within minutes; all parameters are in the `.cfg` files.

| Run | Properties | What it shows |
|---|---|---|
| `store` | `TypeOK`, `SumIsPeers`, `ReplyConsistent`, `FreshPeersKept` | with every event of an HTTP announce the sum of the counters is the number of peers, which is what the hash-table test relies on; replies respect `-m` and their own counters; the collector removes nobody who announced in time |
| `store_udp_none` (violation) | `SumIsPeers` | finding 1 |
| `tracker_leaf` | `FreedListEmpty`, `CommittedCountersExact`, `StoreSpec` | two workers and the collector on one torrent: announces, scrapes and collections are atomic, with completed, started and stopped the counters are exact whenever the leaf is free, the process is never ended by `EXIT_CODE_LIST_NOT_EMPTY` |
| `tracker_walk` | `PointersValid`, `RequestsAnswered`, `StalePeersCollected`, `EmptyTorrentsFreed` | two torrents in one leaf: the walk survives what is freed and inserted around it; liveness |
| `udp_queue` | `FifoSpec`, `SignalDrains`, `ServedOrAllAsleep` | the linked list is a FIFO queue; requests are only ever held up by all workers being asleep; no deadlock |
| `udp_lost_signal` (violation) | `EveryRequestServed` | finding 2 |
| `interval` | `WithinOneSecond`, `OneStepApart`, `CollectorRunsForever` | two `/api/set` against all other accesses: the range is left by one second at most, and the collector is never locked out |
| `hash_list` | `LinkedInOrder`, `DataOwned`, `WalkVisitsAll`, `MapSpec`, `CallsEnd` | every sequence of calls on three hashes: the leaves stay sorted and linked both ways, each call returns, inserts or deletes what it was called for, walks that delete visit everything once, `reInitList` loses, leaks and doubles nothing |
| `socket_table` | `EventsNameListedSockets`, `ListedSocketsOpen`, `OpenSocketsListed`, `IdleClosed`, `ListsReleased`, `InputSeen` | two workers, a reused descriptor and idle timeouts: no event or close hits another connection, no descriptor leaks, nobody stays in a list for ever, idle sockets are closed as long as the timeout thread is let into the lists, input is looked at, no deadlock |
| `broadcast` | `FramesInOrder`, `CutsCounted`, `EntriesAccountedFor`, `WorkersReturn` | slow and vanishing clients: frames are not mixed, cut messages are counted, foreign entries of the websockets exist only inside one window, workers return; no deadlock |
| `server` | `CallsCounted`, `FoundIsLoaded`, `LocationsLoaded` | every request counts once in the period it read; a search during the load finds loaded lines only, and after it every address |
| `request` | `ConfigUsable`, `ConnectionHeaderTruth`, `RepliesFit`, `ParsedAsWritten`, `RequestPending` | every branch of `processRead` after every short command line and query |

The type invariants of `Tracker`, `HashList`, `SocketTable`, `Broadcast` and
`UdpQueue` are not among the runs; they are proved (`TypeCorrect`,
`QueueTypeCorrect`, section 5).

Bounds, and why they are enough for the cases at hand:

- `store` and its variant: three peers, with `PeersForLevel0Limit` 1 and `MaxPeersPerResponse`
  1, are one more than every limit, so both sides of each test are reached;
  `MaxTime` leaves room for a peer to be seen, to grow stale and to be visited
  with an old limit; `UIntMax` 7 keeps a wrapped counter apart from a true one.
  One torrent is enough, as operations touch one hash. Peers are symmetric. Both
  IP versions, which only narrow what a reply lists, are in `tracker_walk`.
- `tracker_leaf`: two workers and two peers let an announce meet another
  announce of the same or of the other peer and any point of the walk.
  `tracker_walk` uses two torrents in one leaf (the next pointer of the walk) and
  a scrape of both in the order opposite to the walk; one worker, since the
  liveness graph with two is large and two workers are in `tracker_leaf`.
- `hash_list`: three hashes give a leaf a head, a middle and an end; two of them
  share a leaf of the hash table and the order of the leaves is not that of the
  hashes (the byte is the last one for big-endian lists); one address more than
  hashes, for the item that `reInitList` has in both lists.
- `udp_queue`: three datagrams are needed for a list with a middle element, two
  workers for one to sleep while the other works.
- `interval`: a range of five seconds with a step of two and a third of the
  unsigned range above it; requests below, inside and above the range; two
  setters that may overlap.
- `socket_table`: three connections on one descriptor force its reuse while two
  workers are busy, and either worker may get it; with one second of timeout and
  a clock of three seconds a connection is idle, overdue and closed. With two
  descriptors the safety invariants were checked as well (530 000 states, not
  among the runs).
- `broadcast`: messages of two bytes into buffers of three, so that a message
  goes out whole, in two parts, or not at all; two tries of `send_`; two
  descriptors, three requests, a TCP and a UDP worker that broadcast. The
  million retries of `send_` differ from two only in number.
- `server`: four lines over five addresses in every possible cut, a file that is
  too short and no file; the search takes all its step sizes down to one. One
  worker and one kind of request meet the status thread at every step;
  `CallsCountedCorrect` carries this to any number of both.
- `request`: two options, since each clamp compares two fields; numbers below,
  at and above the width of a field and on both sides of the clamps; values one
  longer than `URI_PARAM_VALUE_LENGTH`; two requests in two fragments, so that a
  reply can depend on the request before; bodies that do and do not fit into a
  new buffer; a Content-Type that fills the room reserved for it. The system stops after the last request, and after an
  exit, so deadlock is not checked here or in `server`.

The model bounds are the constants `MaxTime`, `MaxDownloads`, `MaxRequests`,
`MaxSets`, `MaxConnections`, `MaxOptions`; each appears in the guard of one action.

The bound of `ReplyConsistent` is checked for `numwant` from 1 on, and `OneStepApart`
from an `-i` in the range on; see the observations below for what happens otherwise.

## 4. Fairness

- Threads keep running: weak fairness of the steps that need no lock.
- Locks that are mostly free: strong fairness of taking a leaf, the list of requests,
  the mutex, the websockets, and of a worker taking its own list. The code uses POSIX
  or dispatch semaphores, which keep no order among waiters; what makes these waits end
  is that whoever competes goes off to do something else for a while: the collector and the timeout
  thread sleep between two rounds, a worker waits for its next request.
- Not so the timeout thread. A worker holds the semaphore of its list while it waits
  for events, posts it and takes it again at once (`thread_client_tcp.c:500`, `:459`); only on
  macOS does it yield in between, to increase the chances of the other, as the comment
  at `:490-495` says. So `GcLocks` has weak fairness only, and with it a worker may win for ever.
  `IdleClosed` therefore has the premise `GarbageRuns`: as long as the thread gets out
  of its wait again and again, idle connections are closed. Without the premise TLC
  finds the starvation. `ListsReleased` and `InputSeen` need nothing of the kind.
- In `server`: `main`, its first search and the loader go on.
- Nothing obliges a client to connect, to read what it is sent, to send or to announce again, the kernel
  to wake a thread without a signal, or the clock to advance.

`StoreSpec`, `FifoSpec` and `MapSpec` are safety refinements; liveness is stated on the
detailed modules.

## 5. What is proved

All theorems hold for every value of the constants that satisfies the named
assumptions of the module (any number of hashes, peers, workers, any bounds).
`PROJECT.json` lists them; `Invariance` in a module is the theorem that its
inductive invariant holds in every reachable state.

`TorrentStoreProofs`:

- `TypeCorrect`: the type invariant, the width of the counters included.
- `SumCorrect`: if no announce carries event 0, complete + incomplete as
  unsigned integers is the number of listed peers (`SumIsPeers`).
- `LevelCorrect`: under the same condition a list without a hash table never
  holds more than `PeersForLevel0Limit` + 1 peers (`Level0OneMore`), one more than the
  comment of the constant says (section 6).
- `CountersCorrect`: if no announce carries `continue` either, each counter by
  itself is exact (`CountersExact`).
- `ReplyCorrect`: without event 0 and `numwant` 0 a reply lists no more peers
  than `-m` and than its own counters count (`ReplyConsistent`).
- `FreshPeersKeptCorrect`: in every step, a peer that announced in time leaves
  the list by its own `stopped` only (`FreshPeersKept`).

The inductive invariant `SumInv` adds to `SumIsPeers` and `Level0OneMore` that
no listed peer is remembered with event 0. Without it `SumIsPeers` is not
inductive: the next announce of such a peer would be counted as a new peer.
Individual counters may be wrong (first observation of section 6), but every
branch of `changeTorrentStatsL` moves the sum exactly as the list moves, wrapping
or not; the lemmas `AddUStep` and `AddUSubU` carry this through unsigned
arithmetic, and the collector, which removes many peers at once, subtracts as
many as the list loses (`collectSum`). `ExactInv` is its counterpart for the two
counters: an announce moves one peer between the seeds, the leeches and nowhere,
and each counter as the size of its set (`StatsMoved`, `MovedCardinality`), so
none wraps. The assumption that a list has at most `UIntMax` peers
(`UIntAssumption`) is about memory: every peer is an allocated item.

`TrackerProofs`, for finitely many workers (`WorkersAssumption`):

- `TypeCorrect`, `ExclusionCorrect`: a semaphore of a leaf is 0 or 1, and between
  its wait and its post there is one thread.
- `SemaphoresCorrect`: a semaphore is taken only while a thread is between its wait
  and its post, and there it waits for nothing: no request, whatever branch it
  takes, leaves a leaf locked, and a waiting thread is behind one that goes on. That
  it then gets its turn is `RequestsAnswered`, which TLC checks.
- `PointersCorrect`, `FreedCorrect`: no pointer to a freed item is followed
  (`PointersValid`), and `freeList` never meets a list that is not empty
  (`FreedListEmpty`).
- `Refinement`: every step is a step of `TorrentStore` on `committed`, or none
  (`StoreSpec`, whose initial states and steps are shown one by one).
- `CountersCorrect`: with the events that `TorrentStore` counts exactly, the
  counters of every torrent whose leaf is free are exact
  (`CommittedCountersExact`). It is `TorrentStoreProofs!CountersCorrect` carried
  through the refinement.

`IInv` says what each thread has in hand at each point of its loop (`Control`,
`GcControl`), that the semaphores exclude (`Exclusion`), that a torrent differs
from its committed value only where a thread is half way (`Clean`), and how far
that thread has come: a worker by one assignment after another (`Working`), the
collector by the peers it has passed (`GcWorking`). The exclusion alone is
inductive; that pointers stay valid needs `Clean`, as the collector frees a torrent
because of the peers it counted. `DownloadsLeft` keeps the bound of the model
on `downloaded` out of reach of completions that are still under way.

`HashListProofs`:

- `LinkedCorrect`, `DataCorrect`, `WalkCorrect`: `LinkedInOrder`, `DataOwned` and
  `WalkVisitsAll` for any hashes, addresses and leaves, across `setHash`,
  `deleteItem`, `mapList` and `reInitList`; `TypeCorrect`.
- `Refinement`: every call returns what the map of `HashMap` has for its hash, and
  changes nothing else (`MapSpec`). `RefineSeek` and `RefineWalk` show it turn by turn:
  the loop of a call may end only at the item of its hash, or where the order of the
  leaf proves that there is none; a walk ends when no hash is left (`WalkEnd`).

The leaves are described without recursion: `Sorted` says that each item's
neighbours are the next smaller and the next greater hash of its leaf, from
which lists of any length follow. `Placed` and `Unique` give a hash one item in
its leaf, `reInitList` half way included, where what was moved is in the new
leaves. `Seeking` says that the loop of `setHash` stands between the smaller
and the greater hashes, `Walking` that a walk has exactly the smaller hashes
behind it: this is what the saved next pointer needs.

`SocketTableProofs`:

- `ExclusionCorrect`, `TypeCorrect`: a worker and the timeout thread are never in
  the same list, and no semaphore is posted above 1.
- `SemaphoresCorrect`, `NobodyWaitsInside`: both levels of semaphores are taken only
  while a thread is at work behind them, and a thread that has the semaphore of a
  list and asks for a leaf finds all its leaves free. So the order of the two levels
  cannot deadlock, and between a worker and the timeout thread the inner semaphores
  never decide anything: only the listener needs them (it takes one for a single
  update, one step of the model, and no other).
- `EventsCorrect`, `ListedCorrect`, `OpenCorrect`: `EventsNameListedSockets`,
  `ListedSocketsOpen` and `OpenSocketsListed`, for any number of workers and any
  reuse of descriptors.

The heart of `IInv` is the notion of a *live* item: one that nobody has closed
yet. A live item's descriptor is the connection it was listed for (`LiveOpen`), a
descriptor is live in one list (`OneList`), queues and batches name live items
only (`Watched`, `NamedLive`), and an open descriptor is live or with the
listener (`OpenLive`). None of them is inductive without the others, nor
without the semaphores (`Exclusion`) and what each thread is about to touch
(`WorkerControl`, `GcControl`, `ListenerControl`).

`BroadcastProofs`, for any sizes of messages and buffers:

- `FramesCorrect`: frames of different threads do not mix (`FramesInOrder`);
  `TypeCorrect`, which includes that `send` never takes more than there is room
  for.
- `EntriesCorrect`: an entry of the websockets is of an upgraded connection, or
  its worker is about to delete it (`EntriesAccountedFor`); `OwnerCorrect`: a
  connection is answered and closed by one thread.
- `CutsCorrect`: only messages that `send_skips` counts are cut (`CutsCounted`).

`IInv` rests on the semaphore of the websockets being held from the wait to the
post (`Holding`) and on the owner of a connection (`Owning`), which also keeps
an entry that the timeout thread deleted from coming back (`EntryDeleted`).
`CutsCorrect` needs `CutInv` on top: a request under way has a number of its own
(`Numbered`), a client does not get the frame of its own announce (`NoEcho`), so
the parts a connection has of a reply and of a frame are of different requests
(`Apart`), and the end of one message is never taken for that of another.
`CutStep` then shows that each step leaves the set of cut messages as it is or
smaller, but the one that gives up, which adds one and counts it.

`IntervalQueueProofs`, for a starting interval in the configured range:

- `WithinOneSecondCorrect`: with any number of `/api/set` requests on any number
  of workers the interval leaves the range by one second at most.
- `OneStepApartCorrect`: until the first `/api/set`, `interval` and
  `requireInterval` are never more than a step apart, if the step is not larger
  than the minimum and fits above the maximum (60 s against 239 s and 2^32).

`RangeInv` says that all values any thread is about to store are in the range,
and that a value the changer compared is still current or was replaced by one
in the range (`ChangerInv`): this bounds the lost race to a single second.
`AloneInv` says that before `/api/set` each field has one writer, so what the
collector compared stays equal until it asks for the next interval.

The same module, for any number of UDP workers and datagrams:

- `QueueInvariance`, `QueueTypeCorrect`: `QueueInv` and the types.
- `QueueRefinement`: the linked list implements the queue (`FifoSpec`): each
  datagram goes to one worker, in the order of arrival, although
  `addUdpRequest` and `pullUdpRequest` change the list in two steps each.

`QueueInv` says that each lock has one holder (`OneInList`, `OneInMutex`), that
the list links the requests from the first to the last one added, with
`lastRequest` behind by one between the two steps of `addUdpRequest`
(`Listed`), and that a worker's request is the first one while it takes it off
(`Pulled`). The refinement maps the list to `Chain`, whatever one meets along
`next`; `ChainIs` shows that this is one sequence, the consecutive numbers from
`firstRequest` to the last one linked, by the least place where another reading
could differ (`<` on the naturals is well-founded).
The link is `Put` (`LinkPuts`), the move of `firstRequest` is `Take`
(`AdvanceTakes`), the end of the service `Finish` (`ServeFinishes`), and
nothing else is seen (`OthersStutter`).

`ServerProofs`, for finitely many workers and any kinds of requests:

- `CallsCountedCorrect`: a counter, but for one that is being zeroed, is the
  number of calls that chose it in its period, less the calls about to
  increment it, and more only by calls delayed for a whole period.

`RpsInv` extends the account to the values the status thread has already
zeroed, for which pending calls count as late; `RpsInvRead`, `RpsInvIncrement`,
`RpsInvZero` and `RpsInvChange` show how each step moves both sides, with the
cardinality of the pending workers.

- `FoundCorrect`: whenever a search answers, it has the first line or a line
  that covers the address and whose cells are stored (`FoundIsLoaded`).

`GeoipInv` says which cell the loader has come to and that the table is the
file up to there (`Lines`): the mark of the last line, which a search tests,
is stored after every other line.

- `SearchFinds`: the loop of `findGeoip` finds the line of every address in every
  complete file, and no turn reads outside the table. `ParametersSuffice`: the
  constants of the code satisfy its assumption. `AllFoundCorrect`: so, in the
  server, every address is found from the lat of the last line on.

`SearchAssumption` only says that `GEOIP_FILE_LINES` is zero after `n` halvings
and that the loop may take `2n` turns (22 halvings and 51 turns in the code).
`Narrowing` is the invariant of the loop: in its first `n` turns the line that
is looked for is at most the step and the turns so far away, since each floor of
a half loses less than one line, and both ends of the table are at least a step away; after
that the distance sinks by one each turn. The turns are a recursive function on
numbers; that it satisfies its equations (`TurnsAre`, `HalvedIs`) and each
induction over turns or lines go by the least counterexample (`LeastNumber`).

`RequestProofs`:

- `ConfigUsableCorrect`: for every command line and all numbers, what `main`
  goes on with has its intervals within the defaults and in order, no zero
  where the code divides or waits by it, and a protocol. This is what the
  assumptions of `Interval` about the range rest on. `ConfigInv` is the type of
  the fields while options are read.
- `RepliesFitCorrect`: `FitInv` says that every buffer holds its content and a
  `\0` and that `Content-Length` is the length of the content; every branch of
  `processRead` keeps it because it asks `reAllocBlock` for at least what it
  writes (`AddedFits`).
- `ConnectionCorrect`: the header `Connection` of every reply is what becomes of
  the connection (`ConnectionHeaderTruth`): each branch of `processRead` reads
  `keepAlive` once for both (`BranchAnswers`, `RenderTells`).
- `RequestPendingCorrect`: an open connection with a complete request that was
  not answered has an event (`RequestPending`).
- `ParsedAsWrittenCorrect`: in every query with any number of fields and values of any
  length, each parameter gets the last value written for it, `/scrape` gets every
  `info_hash` in order, values are decoded and cut, and `-x` takes the last
  address of the header.

`RequestsAssumption` is what a client that keeps to the encoding writes: no name
and no plain character of a value ends a name or a value, and two addresses have a
separator between them (section 6 says what the parser does with other queries).
The parser is a fold; `FoldSteps` turns either fold into its states after each
character, `ParseConcat` and `ParsePieces` parse a text part by part, and each
induction is by the least counterexample (`LeastNumber`). A character in its code
or not is read as one (`CharRead`), so a value grows by what `Cut` says
(`ValueRead`); a parameter ends in a state that knows its name and its value
(`ParameterRead`), and the next separator stores both (`NextFieldRead`).
`FieldsRead` says what the parser knows after `k` fields: the query lags one
behind (`LastStored`), which the blank at the end makes good (`MessageRead`).
`LastAddress` does the same for the header.

Only model-checked:

- liveness under fairness (`RequestsAnswered`, `StalePeersCollected`,
  `EmptyTorrentsFreed`, `SignalDrains`, `ServedOrAllAsleep`,
  `CollectorRunsForever`, `CallsEnd`, `IdleClosed`, `InputSeen`, `WorkersReturn`,
  `LocationsLoaded`), which is beyond the prover.

tlapm's translation of `Len` to SMT is too strong for values that are not
sequences. The leaves whose obligations contain `Len` (in `TrackerProofs`,
`RequestProofs`, `ServerProofs` and `IntervalQueueProofs`) were therefore checked again by Z3 with that
axiom restricted to sequences; all of them hold, so no result rests on it.

## 6. Findings

1. *UDP event 0* (`data.c:458`): a regular UDP announce (event 0, "none") leaves 0 as
   the event of its peer, and the next announce of that peer, which is in the list,
   takes the branch for new peers and counts it again. In the run one peer announces
   event 0 twice: `incomplete` is 2 and one peer is listed. (An event 0 after another
   event takes the branch for removed peers instead, `data.c:466`, and counts one too few.)
2. *Lost signal* (`thread_client_udp.c:54`): a worker that saw an empty list
   does not look again under the mutex of the signal; a datagram queued in
   between waits for the next datagram.

Observations made while modelling, without a run of their own:

- An announce without a known event (`data.c:441`) stores `continue` over the
  event but leaves the counters: the tracker forgets that the peer was counted as
  a seed; `incomplete` is decremented for it later and wraps. The sum stays right.
- A worker closes the descriptor of a websocket before it deletes its entry
  (`thread_client_tcp.c:46-49`). In between the descriptor may be accepted
  again for another worker, which then ignores the request of the new
  connection. `EntriesAccountedFor` shows that no other window exists; the timeout thread
  has the safe order (`thread_garbage.c:153-155`).
- A socket becomes a websocket before its reply 101 is sent
  (`thread_client_tcp.c:291`, `:416`): a frame may come before the handshake.
- When `send_` gives up in the middle of a message, a connection that is kept
  alive goes on with the next one; only `send_skips` tells. The tail of a frame whose
  descriptor was reused goes to the new connection.
- `max` of `rps.c` may fall: the value is loaded again before it is stored, and a
  slower worker overwrites a higher one or the reset.
- The lengths that callers give for two messages of failures differ from the
  messages (25 for 32 and 27 bytes, `thread_client_tcp.c:202`, `:206`): the
  bencoded prefix is wrong, `Content-Length` is right. A method other than GET is sent back
  up to its first zero byte (`:411`).
- A second request that arrives together with the first is read and dropped
  (`:136`).
- A parameter without `=` gets the value of the one before, and a percent sign
  at the end of a value is carried into the next (`uri.c:51-84`). An invalid
  IPv6 address in the header of `-x` gives the zero address (`uri.c:179-186`).
- `-w` may be negative (`argument.c:150` refuses zero only).
- The file of locations must have exactly `GEOIP_FILE_LINES` lines: with fewer
  it is never used, more do not fit the table (`geoip.c:72-99`); a first range that
  ends at 0 counts as not loaded.
- `setLocale` runs while the loader reads numbers (`server.c:102`, `:109`, with
  the comment that it affects `atof`).
- `numwant=0` wraps in `data.c:141` and lists peers up to the packet size, more
  than `-m` ("Max peers per announce response", `argument.c:258`).
- The limit for lists without a hash table is tested before the insertion and
  with `>`, so such a list reaches one peer more (257) than the maximum that
  `data_structure.h:7` states ("Максимальное кол-во пиров, на структуру peerList с
  level=0"). The code differs from the comment; `LevelCorrect` proves that it is never
  more than the one.
- `-i` is not clamped (`argument.c:143-146` clamps the bounds only). Below 60 the
  first low-load update wraps in `interval.c:29` and asks for the *maximum*
  interval. The theorems therefore assume `-i` in the range.
- An HTTP announce without `event` is given `started` in
  `thread_client_tcp.c:191`, while `uri.h:16` describes `continue` for it.

## 7. Plan

Done: all components but statistics and helpers, and theorems about all of them:
every safety invariant of a passing run is a theorem, and so
are the three refinements, of `TorrentStore`, `HashMap` and `UdpFifo`. Next:

1. `Server`: the order of `main` against its threads as an invariant.

## 8. Not modelled

- The bytes of replies: bencode, compact addresses, JSON, web pages, sha1 and
  base64 of the websocket key. Names of parameters and addresses are single
  characters in `Uri`, and two of the settings of `/api/set`
  (`max_peers_response`, `socket_timeout`), which no branch of the model depends
  on, are left out.
- The full scrape and random hashes, which are compiled out
  (`DATA_FULL_SCRAPE_ENABLE` 0, `URI_RANDOM_DATA_*` 0).
- The UDP connect reply and the tests of packet sizes are one step (`serve`).
- `stats.c`: counters that are printed and that no code branches on.
- `alloc.c`, `basic.c`, `string.c`, `time.c`, `thread.c`, `exit_code.c`: helpers; an
  allocation that fails ends the process. Limits and the locale in `server.c`.
- `client.c`, `test.c` and the tests: not part of the server.
