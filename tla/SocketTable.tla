---------------------------- MODULE SocketTable ----------------------------
(***************************************************************************)
(* The TCP connections and the threads that share them: the listener       *)
(* (socket_tcp.c), which hands every connection to the next worker; the    *)
(* workers (thread_client_tcp.c), each with an event queue and a list of   *)
(* its sockets (socket_garbage.c); and the thread that closes idle sockets *)
(* (thread_garbage.c).  A list has one semaphore for the whole list and    *)
(* one for each leaf.  The websockets are one list for all the workers.    *)
(*                                                                         *)
(* Everything in the code is keyed by the file descriptor, which the       *)
(* kernel gives to another connection once it is closed.  Here connections *)
(* have numbers of their own; 0 is no connection, or no descriptor.  What  *)
(* the server answers is left out (module Tracker has the announces): of a *)
(* request only what it does to the connection is kept.  A section under   *)
(* a semaphore that takes no other one and changes one variable is a       *)
(* single step.                                                            *)
(***************************************************************************)
EXTENDS Integers, FiniteSets

CONSTANTS
    workers,            \* number of workers (-w)
    Fds,                \* file descriptors
    LastLeaf, LeafOf,   \* leaves are 1..LastLeaf; getLeaf of a descriptor
    EventsEachLoop,     \* EQUEUE_EVENTS_EACH_LOOP
    socketTimeout,      \* --socket-timeout
    Browsers,           \* connections that may ask for /api/websocket
    MaxConnections,     \* bound: connections that are accepted
    MaxTime,            \* bound: the last value of the clock
    NoItem              \* the descriptor is not in the list

Workers == 0 .. workers - 1
Leaves == 1 .. LastLeaf
Connections == 1 .. MaxConnections
Times == 0 .. MaxTime
Item == [connection: Connections, time: Times]

ASSUME WorkersAssumption == workers \in Nat \ {0} /\ EventsEachLoop \in Nat \ {0}
ASSUME FdsAssumption ==
    Fds \subseteq Nat \ {0} /\ LastLeaf \in Nat /\ LeafOf \in [Fds -> Leaves]
ASSUME BoundsAssumption ==
    socketTimeout \in Nat \ {0} /\ MaxConnections \in Nat /\ MaxTime \in Nat
ASSUME BrowsersAssumption == Browsers \subseteq Connections
ASSUME NoItemAssumption == NoItem \notin Item

VARIABLES
    file,           \* kernel: the connection each descriptor is open for, or 0
    accepted,       \* connections accepted so far
    ready,          \* kernel: connections with input that no event reported yet
    equeue,         \* kernel: the connections each worker's event queue watches
    socketLists,    \* each worker's list
    global, leaf,   \* the semaphores of the lists and of their leaves
    websockets,     \* descriptors in the list of websockets
    listener,       \* pc, descriptor and currentThread of the listener
    worker,         \* pc, events left, current descriptor, deleteSocketList
    gc,             \* pc, worker, maxTimeAllow, leaf and descriptor
    now             \* time(NULL)

kernel == <<file, accepted, ready, equeue>>
lists == <<socketLists, websockets>>
semaphores == <<global, leaf>>
vars == <<kernel, lists, semaphores, listener, worker, gc, now>>

First(S) == IF S = {} THEN 0 ELSE CHOOSE x \in S : \A y \in S : x <= y
After(S, x) == First({y \in S : y > x})

InLeaf(w, l) == {fd \in Fds : LeafOf[fd] = l /\ socketLists[w][fd] # NoItem}
FdOf(c) == CHOOSE fd \in Fds : file[fd] = c

Init ==
    /\ file = [fd \in Fds |-> 0]
    /\ accepted = 0 /\ ready = {}
    /\ equeue = [w \in Workers |-> {}]
    /\ socketLists = [w \in Workers |-> [fd \in Fds |-> NoItem]]
    /\ websockets = {}
    /\ global = [w \in Workers |-> 1]
    /\ leaf = [w \in Workers |-> [l \in Leaves |-> 1]]
    /\ listener = [pc |-> "accept", fd |-> 0, currentThread |-> 0]
    /\ worker = [w \in Workers |->
                    [pc |-> "wait", events |-> {}, fd |-> 0, websocket |-> FALSE, delete |-> {}]]
    /\ gc = [pc |-> "wait", worker |-> 0, maxTimeAllow |-> 0, leaf |-> 0, fd |-> 0]
    /\ now = 0

-----------------------------------------------------------------------------
(* The kernel *)

(* Data or the end of the stream arrives: an edge for the event queue. *)
Input(c) ==
    /\ \E fd \in Fds : file[fd] = c
    /\ ready' = ready \cup {c}
    /\ UNCHANGED <<file, accepted, equeue, lists, semaphores, listener, worker, gc, now>>

(* deleteClientEqueue and close of deleteSocketItemL *)
CloseFd(w, fd) ==
    /\ file' = [file EXCEPT ![fd] = 0]
    /\ equeue' = [equeue EXCEPT ![w] = @ \ {file[fd]}]
    /\ ready' = ready \ {file[fd]}
    /\ UNCHANGED accepted

deleteItem(w, fd) == socketLists' = [socketLists EXCEPT ![w][fd] = NoItem]

TakeLeaf(w, l) == leaf[w][l] = 1 /\ leaf' = [leaf EXCEPT ![w][l] = 0]
PostLeaf(w, l) == leaf' = [leaf EXCEPT ![w][l] = @ + 1]

Tick ==
    /\ now < MaxTime
    /\ now' = now + 1
    /\ UNCHANGED <<kernel, lists, semaphores, listener, worker, gc>>

-----------------------------------------------------------------------------
(* The listener: serverTcpHandler *)
listenerOnly == UNCHANGED <<worker, gc, now>>

accept(fd) ==
    /\ listener.pc = "accept"
    /\ accepted < MaxConnections /\ file[fd] = 0
    /\ accepted' = accepted + 1
    /\ file' = [file EXCEPT ![fd] = accepted']
    /\ listener' = [pc |-> "update", fd |-> fd,
                    currentThread |-> IF listener.currentThread + 1 = workers THEN 0
                                      ELSE listener.currentThread + 1]
    /\ UNCHANGED <<ready, equeue, lists, semaphores>> /\ listenerOnly

(* updateSocketL with its semaphore *)
acceptUpdate ==
    /\ listener.pc = "update"
    /\ leaf[listener.currentThread][LeafOf[listener.fd]] = 1
    /\ socketLists' = [socketLists EXCEPT ![listener.currentThread][listener.fd] =
                        [connection |-> accepted, time |-> now]]
    /\ listener' = [listener EXCEPT !.pc = "add"]
    /\ UNCHANGED <<kernel, websockets, semaphores>> /\ listenerOnly

(* Mutant: the event queue never hears of the socket. *)
addClientEqueueNot ==
    /\ listener.pc = "add"
    /\ listener' = [listener EXCEPT !.pc = "accept", !.fd = 0]
    /\ UNCHANGED <<kernel, lists, semaphores>> /\ listenerOnly

(* addClientEqueue, which fails when the idle socket was closed meanwhile *)
addClientEqueue ==
    /\ listener.pc = "add"
    /\ equeue' = IF file[listener.fd] = 0 THEN equeue
                 ELSE [equeue EXCEPT ![listener.currentThread] = @ \cup {file[listener.fd]}]
    /\ listener' = [listener EXCEPT !.pc = "accept", !.fd = 0]
    /\ UNCHANGED <<file, accepted, ready, lists, semaphores>> /\ listenerOnly

Listen == acceptUpdate \/ addClientEqueue

-----------------------------------------------------------------------------
(* A worker: clientTcpHandler *)
workerOnly == UNCHANGED <<listener, gc, now>>
Goto(w, label) == worker' = [worker EXCEPT ![w].pc = label]

waitGlobal(w) ==
    /\ worker[w].pc = "wait"
    /\ global[w] = 1
    /\ global' = [global EXCEPT ![w] = 0]
    /\ Goto(w, "check")
    /\ UNCHANGED <<kernel, lists, leaf>> /\ workerOnly

(* checkEqueue takes all the events there are, or EventsEachLoop of them. *)
checkEqueue(w) ==
    /\ worker[w].pc = "check"
    /\ LET all == equeue[w] \cap ready IN
        \E S \in SUBSET all :
            /\ S = all \/ Cardinality(S) = EventsEachLoop
            /\ Cardinality(S) <= EventsEachLoop
            /\ ready' = ready \ S
            /\ worker' = [worker EXCEPT ![w].pc = "next", ![w].events = {FdOf(c) : c \in S}]
    /\ UNCHANGED <<file, accepted, equeue, lists, semaphores>> /\ workerOnly

(* The socket of an event is looked up with the semaphore of its leaf. *)
waitEvent(w, fd) ==
    /\ worker[w].pc = "next" /\ fd \in worker[w].events
    /\ TakeLeaf(w, LeafOf[fd])
    /\ worker' = [worker EXCEPT ![w].pc = IF socketLists[w][fd] = NoItem THEN "done" ELSE "read",
                                ![w].fd = fd, ![w].events = @ \ {fd}]
    /\ UNCHANGED <<kernel, lists, global>> /\ workerOnly

(* deleteSocketList gets the socket when the request is too large, the     *)
(* stream ended, recv failed, or the answer is not kept alive.             *)
Doomed(w) == [worker[w] EXCEPT !.pc = "done", !.delete = @ \cup {worker[w].fd}]

recvFailed(w) ==
    /\ worker[w].pc = "read"
    /\ worker' = [worker EXCEPT ![w] = Doomed(w)]
    /\ UNCHANGED <<kernel, lists, semaphores>> /\ workerOnly

(* A request that is not complete is left in the socket. *)
lookupWebsocket(w, complete) ==
    /\ worker[w].pc = "read"
    /\ worker' = [worker EXCEPT
            ![w].websocket = worker[w].fd \in websockets,
            ![w].pc = IF complete \/ worker[w].fd \in websockets THEN "request" ELSE "done"]
    /\ UNCHANGED <<kernel, lists, semaphores>> /\ workerOnly

(* updateSocketL without its semaphore, which the worker already holds *)
updateSocketL(w) ==
    socketLists' = [socketLists EXCEPT ![w][worker[w].fd] =
                     [connection |-> IF @ = NoItem THEN file[worker[w].fd] ELSE @.connection,
                      time |-> now]]

(* What comes from a websocket only keeps it alive. *)
websocketMessage(w) ==
    /\ worker[w].pc = "request" /\ worker[w].websocket
    /\ updateSocketL(w)
    /\ Goto(w, "done")
    /\ UNCHANGED <<kernel, websockets, semaphores>> /\ workerOnly

answerKeepAlive(w) ==
    /\ worker[w].pc = "request" /\ ~worker[w].websocket
    /\ updateSocketL(w)
    /\ Goto(w, "done")
    /\ UNCHANGED <<kernel, websockets, semaphores>> /\ workerOnly

(* Connection: Close, or a second recv that differs from the first *)
answerClose(w) ==
    /\ worker[w].pc = "request"
    /\ updateSocketL(w)
    /\ worker' = [worker EXCEPT ![w] = Doomed(w)]
    /\ UNCHANGED <<kernel, websockets, semaphores>> /\ workerOnly

answerWebsocket(w) ==
    /\ worker[w].pc = "request" /\ ~worker[w].websocket
    /\ file[worker[w].fd] \in Browsers
    /\ updateSocketL(w)
    /\ websockets' = websockets \cup {worker[w].fd}
    /\ Goto(w, "done")
    /\ UNCHANGED <<kernel, semaphores>> /\ workerOnly

(* Mutant: the leaf stays locked after an event. *)
postEventNot(w) ==
    /\ worker[w].pc = "done"
    /\ worker' = [worker EXCEPT ![w].pc = "next", ![w].fd = 0, ![w].websocket = FALSE]
    /\ UNCHANGED <<kernel, lists, semaphores>> /\ workerOnly

postEvent(w) ==
    /\ worker[w].pc = "done"
    /\ PostLeaf(w, LeafOf[worker[w].fd])
    /\ worker' = [worker EXCEPT ![w].pc = "next", ![w].fd = 0, ![w].websocket = FALSE]
    /\ UNCHANGED <<kernel, lists, global>> /\ workerOnly

(* deleteSocketListCallback: deleteSocketL closes the socket and forgets   *)
(* it, deleteWebsocket follows.                                            *)
waitDelete(w) ==
    /\ worker[w].pc = "next" /\ worker[w].events = {} /\ worker[w].delete # {}
    /\ LET fd == First(worker[w].delete) IN
        /\ TakeLeaf(w, LeafOf[fd])
        /\ worker' = [worker EXCEPT ![w].fd = fd, ![w].delete = @ \ {fd},
                                    ![w].pc = IF socketLists[w][fd] = NoItem THEN "forget" ELSE "close"]
    /\ UNCHANGED <<kernel, lists, global>> /\ workerOnly

(* Mutant: the socket is forgotten and stays open. *)
closeSocketNot(w) ==
    /\ worker[w].pc = "close"
    /\ Goto(w, "forget")
    /\ UNCHANGED <<kernel, lists, semaphores>> /\ workerOnly

closeSocket(w) ==
    /\ worker[w].pc = "close"
    /\ CloseFd(w, worker[w].fd)
    /\ Goto(w, "forget")
    /\ UNCHANGED <<lists, semaphores>> /\ workerOnly

(* Mutant: the closed socket stays in the list. *)
forgetSocketNot(w) ==
    /\ worker[w].pc = "forget"
    /\ PostLeaf(w, LeafOf[worker[w].fd])
    /\ Goto(w, "websocket")
    /\ UNCHANGED <<kernel, lists, global>> /\ workerOnly

(* The item is deleted (if there is one) and the leaf released. *)
forgetSocket(w) ==
    /\ worker[w].pc = "forget"
    /\ deleteItem(w, worker[w].fd)
    /\ PostLeaf(w, LeafOf[worker[w].fd])
    /\ Goto(w, "websocket")
    /\ UNCHANGED <<kernel, websockets, global>> /\ workerOnly

deleteWebsocket(w) ==
    /\ worker[w].pc = "websocket"
    /\ websockets' = websockets \ {worker[w].fd}
    /\ worker' = [worker EXCEPT ![w].pc = "next", ![w].fd = 0]
    /\ UNCHANGED <<kernel, socketLists, semaphores>> /\ workerOnly

postGlobal(w) ==
    /\ worker[w].pc = "next" /\ worker[w].events = {} /\ worker[w].delete = {}
    /\ global' = [global EXCEPT ![w] = @ + 1]
    /\ Goto(w, "wait")
    /\ UNCHANGED <<kernel, lists, leaf>> /\ workerOnly

processRead(w) ==
    \/ recvFailed(w) \/ \E complete \in BOOLEAN : lookupWebsocket(w, complete)
    \/ websocketMessage(w) \/ answerKeepAlive(w) \/ answerClose(w) \/ answerWebsocket(w)

WorkerLocks(w) == waitGlobal(w) \/ waitDelete(w) \/ \E fd \in Fds : waitEvent(w, fd)

WorkerRuns(w) ==
    \/ checkEqueue(w) \/ processRead(w) \/ postEvent(w) \/ closeSocket(w)
    \/ forgetSocket(w) \/ deleteWebsocket(w) \/ postGlobal(w)

-----------------------------------------------------------------------------
(* The thread that closes idle sockets: garbageSocketTimeoutHandler *)
gcOnly == UNCHANGED <<listener, worker, now>>

(* Mutant: the list is walked while its worker is between two events. *)
gcWaitGlobalNot ==
    /\ gc.pc = "wait"
    /\ gc' = [gc EXCEPT !.pc = "leaf", !.leaf = 1, !.maxTimeAllow = now - socketTimeout - 1]
    /\ UNCHANGED <<kernel, lists, semaphores>> /\ gcOnly

gcWaitGlobal ==
    /\ gc.pc = "wait"
    /\ global[gc.worker] = 1
    /\ global' = [global EXCEPT ![gc.worker] = 0]
    /\ gc' = [gc EXCEPT !.pc = "leaf", !.leaf = 1, !.maxTimeAllow = now - socketTimeout - 1]
    /\ UNCHANGED <<kernel, lists, leaf>> /\ gcOnly

(* Mutant: the last leaf is left out. *)
gcLeafOffByOne ==
    /\ gc.pc = "leaf"
    /\ gc' = IF gc.leaf >= LastLeaf THEN [gc EXCEPT !.pc = "post", !.leaf = 0, !.maxTimeAllow = 0]
             ELSE IF InLeaf(gc.worker, gc.leaf) = {} THEN [gc EXCEPT !.leaf = @ + 1]
             ELSE [gc EXCEPT !.pc = "waitLeaf"]
    /\ UNCHANGED <<kernel, lists, semaphores>> /\ gcOnly

(* mapList: an empty leaf is skipped, after the last one the list is left. *)
gcLeaf ==
    /\ gc.pc = "leaf"
    /\ gc' = IF gc.leaf > LastLeaf THEN [gc EXCEPT !.pc = "post", !.leaf = 0, !.maxTimeAllow = 0]
             ELSE IF InLeaf(gc.worker, gc.leaf) = {} THEN [gc EXCEPT !.leaf = @ + 1]
             ELSE [gc EXCEPT !.pc = "waitLeaf"]
    /\ UNCHANGED <<kernel, lists, semaphores>> /\ gcOnly

gcWaitLeaf ==
    /\ gc.pc = "waitLeaf"
    /\ TakeLeaf(gc.worker, gc.leaf)
    /\ gc' = [gc EXCEPT !.pc = "item", !.fd = First(InLeaf(gc.worker, gc.leaf))]
    /\ UNCHANGED <<kernel, lists, global>> /\ gcOnly

gcNext == [gc EXCEPT !.pc = "item", !.fd = After(InLeaf(gc.worker, gc.leaf), gc.fd)]

(* garbageSocketTimeoutCallback *)
gcItem ==
    /\ gc.pc = "item" /\ gc.fd # 0
    /\ gc' = IF socketLists[gc.worker][gc.fd].time < gc.maxTimeAllow
             THEN [gc EXCEPT !.pc = "websocket"] ELSE gcNext
    /\ UNCHANGED <<kernel, lists, semaphores>> /\ gcOnly

gcDeleteWebsocket ==
    /\ gc.pc = "websocket"
    /\ websockets' = websockets \ {gc.fd}
    /\ gc' = [gc EXCEPT !.pc = "close"]
    /\ UNCHANGED <<kernel, socketLists, semaphores>> /\ gcOnly

gcClose ==
    /\ gc.pc = "close"
    /\ CloseFd(gc.worker, gc.fd)
    /\ gc' = [gc EXCEPT !.pc = "forget"]
    /\ UNCHANGED <<lists, semaphores>> /\ gcOnly

gcForget ==
    /\ gc.pc = "forget"
    /\ deleteItem(gc.worker, gc.fd)
    /\ gc' = gcNext
    /\ UNCHANGED <<kernel, websockets, semaphores>> /\ gcOnly

gcPostLeaf ==
    /\ gc.pc = "item" /\ gc.fd = 0
    /\ PostLeaf(gc.worker, gc.leaf)
    /\ gc' = [gc EXCEPT !.pc = "leaf", !.leaf = @ + 1]
    /\ UNCHANGED <<kernel, lists, global>> /\ gcOnly

(* The next worker's list; after the last one the thread sleeps a second. *)
gcPostGlobal ==
    /\ gc.pc = "post"
    /\ global' = [global EXCEPT ![gc.worker] = @ + 1]
    /\ gc' = [gc EXCEPT !.pc = "wait",
                        !.worker = IF gc.worker + 1 = workers THEN 0 ELSE gc.worker + 1]
    /\ UNCHANGED <<kernel, lists, leaf>> /\ gcOnly

GcLocks == gcWaitGlobal \/ gcWaitLeaf
GcRuns ==
    gcLeaf \/ gcItem \/ gcDeleteWebsocket \/ gcClose \/ gcForget \/ gcPostLeaf \/ gcPostGlobal

-----------------------------------------------------------------------------
Next ==
    \/ \E c \in Connections : Input(c)
    \/ Tick
    \/ \E fd \in Fds : accept(fd)
    \/ Listen
    \/ \E w \in Workers : WorkerLocks(w) \/ WorkerRuns(w)
    \/ GcLocks \/ GcRuns

(* Threads keep running.  A worker gets the semaphore of its list in the   *)
(* end: the garbage thread, which competes for it, sleeps for a second     *)
(* after every round of the lists.  The garbage thread is promised nothing *)
(* of the kind: a worker takes the semaphore again as soon as it has       *)
(* posted it (thread_client_tcp.c:459, 500), and sem_wait keeps no order.  *)
(* Nobody has to connect or to send.                                       *)
Fairness ==
    /\ SF_vars(Listen)
    /\ \A w \in Workers : SF_vars(WorkerLocks(w)) /\ WF_vars(WorkerRuns(w))
    /\ WF_vars(GcLocks) /\ WF_vars(GcRuns)

Spec == Init /\ [][Next]_vars /\ Fairness

-----------------------------------------------------------------------------
TypeOK ==
    /\ file \in [Fds -> Connections \cup {0}]
    /\ accepted \in 0 .. MaxConnections
    /\ ready \subseteq Connections
    /\ equeue \in [Workers -> SUBSET Connections]
    /\ socketLists \in [Workers -> [Fds -> Item \cup {NoItem}]]
    /\ websockets \subseteq Fds
    /\ global \in [Workers -> {0, 1}]
    /\ leaf \in [Workers -> [Leaves -> {0, 1}]]
    /\ listener \in [pc: {"accept", "update", "add"}, fd: Fds \cup {0}, currentThread: Workers]
    /\ worker \in [Workers -> [pc: {"wait", "check", "next", "read", "request", "done", "close",
                                    "forget", "websocket"},
                               events: SUBSET Fds, fd: Fds \cup {0}, websocket: BOOLEAN,
                               delete: SUBSET Fds]]
    /\ gc \in [pc: {"wait", "leaf", "waitLeaf", "item", "websocket", "close", "forget", "post"},
               worker: Workers, maxTimeAllow: (-1 - socketTimeout) .. MaxTime,
               leaf: 0 .. LastLeaf + 1, fd: Fds \cup {0}]
    /\ now \in Times

(* The worker never reports "socketItem not found" (thread_client_tcp.c:474) *)
(* nor "socketData not found" (socket_garbage.c:37): a socket stays open and *)
(* listed from the event that names it to the end of the loop, whatever the  *)
(* garbage thread and the listener do in between.                            *)
EventsNameListedSockets ==
    \A w \in Workers : \A fd \in worker[w].events \cup worker[w].delete :
        /\ socketLists[w][fd] # NoItem
        /\ file[fd] = socketLists[w][fd].connection
        /\ file[fd] \in equeue[w]

(* While its leaf is free, a listed socket is open for the connection it   *)
(* was listed for: nobody closes the descriptor of a later connection.     *)
ListedSocketsOpen ==
    \A w \in Workers, fd \in Fds :
        leaf[w][LeafOf[fd]] = 1 /\ socketLists[w][fd] # NoItem =>
            file[fd] = socketLists[w][fd].connection

(* No descriptor leaks: an open connection is in some list, where the      *)
(* garbage thread finds it, unless the listener has just accepted it.      *)
OpenSocketsListed ==
    \A fd \in Fds : file[fd] # 0 =>
        \/ \E w \in Workers :
            socketLists[w][fd] # NoItem /\ socketLists[w][fd].connection = file[fd]
        \/ listener.pc = "update" /\ listener.fd = fd

Overdue(c) ==
    \E w \in Workers, fd \in Fds :
        /\ socketLists[w][fd] # NoItem
        /\ socketLists[w][fd].connection = c
        /\ socketLists[w][fd].time < now - socketTimeout - 1

(* As long as the garbage thread is let into the lists again and again, a  *)
(* connection that is idle for longer than the timeout is closed, unless a *)
(* request comes first: the thread passes over no list and no leaf, and    *)
(* its look at a leaf without the semaphore costs one round at most.       *)
(* Whether it is let in is not the program's to promise (see Fairness).    *)
GarbageRuns == []<>(gc.pc # "wait")
IdleClosed == GarbageRuns => \A c \in Connections : Overdue(c) ~> ~Overdue(c)

(* Whoever holds a list leaves it: neither a worker between two events nor *)
(* the garbage thread in the middle of a walk waits for ever for a leaf of *)
(* it, which the listener, too, wants for a new connection.                *)
ListsReleased == \A w \in Workers : global[w] = 0 ~> global[w] = 1

(* Input of a connection is looked at, or the connection is closed. *)
InputSeen == \A c \in Connections : c \in ready ~> c \notin ready
=============================================================================
