------------------------- MODULE SocketTableProofs -------------------------
(***************************************************************************)
(* Theorems about SocketTable, for every number of workers, descriptors,   *)
(* leaves and connections: the semaphores exclude, an event always finds   *)
(* its socket, nobody closes the descriptor of a later connection, and no  *)
(* descriptor leaks.                                                       *)
(***************************************************************************)
EXTENDS SocketTable, WellFoundedInduction, TLAPS

-----------------------------------------------------------------------------
(* First and After *)

(* First is the least descriptor, or 0 for no descriptor. *)
LEMMA FirstIs ==
    ASSUME NEW S \in SUBSET Nat
    PROVE  /\ S = {} => First(S) = 0
           /\ S # {} => First(S) \in S
  <1>1. ASSUME S # {}
        PROVE  \E x \in S : \A y \in S : x <= y
    <2>1. PICK x \in S : \A y \in S : <<y, x>> \notin OpToRel(<, Nat)
      BY <1>1, NatLessThanWellFounded, WFMin
    <2>2. \A y \in S : ~(y < x)
      BY <2>1 DEF OpToRel
    <2> QED  BY <2>2
  <1> QED  BY <1>1 DEF First

(* The walk over a leaf goes from an item of the leaf to another, or ends. *)
LEMMA WalkIs ==
    ASSUME NEW w \in Workers, NEW l \in Leaves, NEW fd
    PROVE  /\ First(InLeaf(w, l)) \in InLeaf(w, l) \cup {0}
           /\ After(InLeaf(w, l), fd) \in (InLeaf(w, l) \ {fd}) \cup {0}
  <1> DEFINE S == InLeaf(w, l)
             R == {y \in S : y > fd}
  <1>1. S \in SUBSET Nat /\ R \in SUBSET Nat
    BY FdsAssumption DEF InLeaf
  <1>2. First(S) \in S \cup {0} /\ First(R) \in R \cup {0}
    <2> HIDE DEF S, R
    <2> QED  BY <1>1, FirstIs
  <1>3. fd \notin R
    <2>1. ASSUME fd \in R PROVE FALSE
      <3>1. fd \in Nat /\ fd > fd
        BY <1>1, <2>1
      <3> QED  BY <3>1
    <2> QED  BY <2>1
  <1> QED  BY <1>2, <1>3 DEF After

-----------------------------------------------------------------------------
(* The inductive invariant *)

Busy(w) == worker[w].pc # "wait"
GcBusy(w) == gc.worker = w /\ gc.pc # "wait"
Holds(w) == worker[w].pc \in {"read", "request", "done", "close", "forget"}
GcHolds == gc.pc \in {"item", "websocket", "close", "forget"}

(* One thread at a time works on a list, and it holds the leaf it is in. *)
Exclusion ==
    \A w \in Workers :
        /\ Busy(w) \/ GcBusy(w) => global[w] = 0
        /\ ~(Busy(w) /\ GcBusy(w))
        /\ Holds(w) => worker[w].fd \in Fds /\ leaf[w][LeafOf[worker[w].fd]] = 0
        /\ GcBusy(w) /\ GcHolds => gc.leaf \in Leaves /\ leaf[w][gc.leaf] = 0

(* What a worker has in hand at each point of its loop. *)
WorkerControl(w) ==
    /\ worker[w].pc \in {"wait", "check"} => worker[w].events = {} /\ worker[w].delete = {}
    /\ worker[w].pc \in {"close", "forget", "websocket"} =>
        worker[w].events = {} /\ worker[w].fd \in Fds \ worker[w].delete

Listed(w, fd) == socketLists[w][fd] # NoItem

(* What the garbage thread has in hand at each point of its loops. *)
GcControl ==
    /\ gc.pc \in {"leaf", "waitLeaf"} => gc.leaf # 0
    /\ gc.pc = "waitLeaf" => gc.leaf \in Leaves
    /\ gc.pc \in {"websocket", "close", "forget"} => gc.fd # 0
    /\ gc.pc \in {"wait", "leaf", "waitLeaf", "post"} => gc.fd = 0
    /\ gc.fd # 0 => LeafOf[gc.fd] = gc.leaf /\ Listed(gc.worker, gc.fd)

(* Between the close of a socket and the end of its item, the item is dead. *)
Forgetting(w, fd) ==
    \/ worker[w].pc = "forget" /\ worker[w].fd = fd
    \/ gc.pc = "forget" /\ gc.worker = w /\ gc.fd = fd
Live(w, fd) == Listed(w, fd) /\ ~Forgetting(w, fd)

(* A connection has one descriptor. *)
Files ==
    \A fd \in Fds : file[fd] # 0 =>
        /\ file[fd] <= accepted
        /\ \A other \in Fds \ {fd} : file[other] # file[fd]

(* A live item is about the connection that its descriptor is open for. *)
LiveOpen == \A w \in Workers, fd \in Fds : Live(w, fd) => file[fd] = socketLists[w][fd].connection

(* A descriptor has one live item, in the list of one worker. *)
OneList == \A v, w \in Workers, fd \in Fds : Live(v, fd) /\ Live(w, fd) => v = w

(* The listener puts a descriptor in a list that no list has; the garbage   *)
(* thread may have closed it before it is watched.                          *)
ListenerControl ==
    /\ listener.pc # "accept" => listener.fd \in Fds
    /\ listener.pc = "update" =>
        file[listener.fd] = accepted /\ accepted # 0 /\ \A w \in Workers : ~Live(w, listener.fd)
    /\ listener.pc = "add" /\ file[listener.fd] # 0 => Live(listener.currentThread, listener.fd)

(* An event queue watches sockets of its worker's list. *)
Watched == \A w \in Workers : \A c \in equeue[w] : \E fd \in Fds : file[fd] = c /\ Live(w, fd)

(* The descriptors a worker is going to look up are live. *)
Named(w) ==
    worker[w].events \cup worker[w].delete \cup
        IF worker[w].pc \in {"read", "request", "close"} THEN {worker[w].fd} ELSE {}
NamedLive == \A w \in Workers : \A fd \in Named(w) : Live(w, fd) /\ file[fd] \in equeue[w]

(* An open descriptor is live, or on its way to a list. *)
OpenLive ==
    \A fd \in Fds : file[fd] # 0 =>
        (\E w \in Workers : Live(w, fd)) \/ (listener.pc = "update" /\ listener.fd = fd)

Sockets == Files /\ LiveOpen /\ OneList /\ ListenerControl /\ Watched /\ NamedLive /\ OpenLive

IInv == TypeOK /\ Exclusion /\ (\A w \in Workers : WorkerControl(w)) /\ GcControl /\ Sockets

(* The initial state satisfies the invariant. *)
LEMMA IInvInit ==
    ASSUME Init
    PROVE  IInv
  <1> USE DEF Init
  <1>0. /\ 0 \in Workers /\ 0 \in 0 .. MaxConnections /\ 0 \in Times /\ 0 \in 0 .. LastLeaf + 1
        /\ 0 \in (-1 - socketTimeout) .. MaxTime
    BY WorkersAssumption, FdsAssumption, BoundsAssumption DEF Workers, Times
  <1>1. TypeOK
    BY <1>0 DEF TypeOK
  <1>2. Exclusion /\ (\A w \in Workers : WorkerControl(w)) /\ GcControl
    BY DEF Exclusion, WorkerControl, GcControl, Busy, GcBusy, Holds, GcHolds
  <1>3. \A w \in Workers, fd \in Fds : ~Live(w, fd)
    BY DEF Live, Listed
  <1>4. \A w \in Workers : Named(w) = {} /\ equeue[w] = {}
    BY DEF Named
  <1>5. Sockets
    BY <1>3, <1>4 DEF Sockets, Files, LiveOpen, OneList, ListenerControl, Watched, NamedLive, OpenLive
  <1> QED  BY <1>1, <1>2, <1>5 DEF IInv

-----------------------------------------------------------------------------
(* What each thread leaves alone *)

WorkerStep(w) == WorkerLocks(w) \/ WorkerRuns(w)
GcStep == GcLocks \/ GcRuns
ListenerStep == (\E fd \in Fds : accept(fd)) \/ Listen

(* A worker's step changes nothing of the other threads and lists. *)
LEMMA WorkerFrame ==
    ASSUME TypeOK, NEW w \in Workers, WorkerStep(w)
    PROVE  /\ UNCHANGED <<accepted, listener, gc, now>>
           /\ \A v \in Workers \ {w} :
                /\ worker'[v] = worker[v] /\ global'[v] = global[v] /\ leaf'[v] = leaf[v]
                /\ socketLists'[v] = socketLists[v] /\ equeue'[v] = equeue[v]
  <1> USE DEF TypeOK
  <1>1. CASE WorkerLocks(w)
    BY <1>1 DEF WorkerLocks, waitGlobal, waitDelete, waitEvent, workerOnly, kernel, lists, Goto,
                TakeLeaf
  <1>2. CASE checkEqueue(w) \/ postEvent(w) \/ closeSocket(w)
             \/ forgetSocket(w) \/ deleteWebsocket(w) \/ postGlobal(w)
    BY <1>2 DEF checkEqueue, postEvent, closeSocket, forgetSocket, deleteWebsocket, postGlobal,
                workerOnly, kernel, lists, semaphores, Goto, PostLeaf, CloseFd, deleteItem
  <1>3. CASE processRead(w)
    BY <1>3 DEF processRead, recvFailed, lookupWebsocket, websocketMessage, answerKeepAlive,
                answerClose, answerWebsocket, updateSocketL, workerOnly, kernel, lists,
                semaphores, Goto
  <1> QED  BY <1>1, <1>2, <1>3 DEF WorkerStep, WorkerRuns

(* Nor does a step of the garbage thread. *)
LEMMA GcFrame ==
    ASSUME TypeOK, GcStep
    PROVE  /\ UNCHANGED <<accepted, listener, worker, now>>
           /\ \A v \in Workers \ {gc.worker} :
                /\ global'[v] = global[v] /\ leaf'[v] = leaf[v]
                /\ socketLists'[v] = socketLists[v] /\ equeue'[v] = equeue[v]
  BY DEF TypeOK, GcStep, GcLocks, GcRuns, gcWaitGlobal, gcWaitLeaf, gcLeaf, gcItem,
         gcDeleteWebsocket, gcClose, gcForget, gcPostLeaf, gcPostGlobal, gcOnly, kernel, lists,
         semaphores, TakeLeaf, PostLeaf, CloseFd, deleteItem

(* The listener has neither semaphores nor anything of the other threads. *)
LEMMA ListenerFrame ==
    ASSUME ListenerStep
    PROVE  UNCHANGED <<ready, websockets, semaphores, worker, gc, now>>
  BY DEF ListenerStep, Listen, accept, acceptUpdate, addClientEqueue, listenerOnly, kernel, lists,
         semaphores

(* A worker works on its list while the garbage thread is elsewhere. *)
LEMMA Apart ==
    ASSUME IInv
    PROVE  /\ \A w \in Workers : WorkerStep(w) => ~GcBusy(w)
           /\ GcStep => ~Busy(gc.worker)
  <1>1. ASSUME NEW w \in Workers, WorkerStep(w), GcBusy(w)
        PROVE  FALSE
    <2>1. ~Busy(w) /\ global[w] = 0
      BY <1>1 DEF IInv, Exclusion
    <2>2. CASE WorkerLocks(w)
      <3>1. CASE waitGlobal(w)
        BY <2>1, <3>1 DEF Busy, waitGlobal
      <3>2. CASE waitDelete(w)
        BY <2>1, <3>2 DEF Busy, waitDelete
      <3>3. CASE \E fd \in Fds : waitEvent(w, fd)
        BY <2>1, <3>3 DEF Busy, waitEvent
      <3> QED  BY <2>2, <3>1, <3>2, <3>3 DEF WorkerLocks
    <2>3. CASE processRead(w)
      BY <2>1, <2>3 DEF Busy, processRead, recvFailed, lookupWebsocket, websocketMessage,
                answerKeepAlive, answerClose, answerWebsocket
    <2>4. CASE checkEqueue(w) \/ postEvent(w) \/ closeSocket(w) \/ forgetSocket(w)
               \/ deleteWebsocket(w) \/ postGlobal(w)
      BY <2>1, <2>4 DEF Busy, checkEqueue, postEvent, closeSocket, forgetSocket, deleteWebsocket,
                postGlobal
    <2> QED  BY <1>1, <2>2, <2>3, <2>4 DEF WorkerStep, WorkerRuns
  <1>2. ASSUME GcStep, Busy(gc.worker)
        PROVE  FALSE
    <2>1. ~GcBusy(gc.worker) /\ global[gc.worker] = 0
      BY <1>2 DEF IInv, TypeOK, Exclusion
    <2> QED  BY <1>2, <2>1 DEF GcBusy, GcStep, GcLocks, GcRuns, gcWaitGlobal, gcWaitLeaf, gcLeaf,
                gcItem, gcDeleteWebsocket, gcClose, gcForget, gcPostLeaf, gcPostGlobal
  <1> QED  BY <1>1, <1>2

(* The descriptor of an event is the one its connection was listed for. *)
LEMMA FdOfIs ==
    ASSUME IInv, NEW w \in Workers, NEW c \in equeue[w]
    PROVE  FdOf(c) \in Fds /\ file[FdOf(c)] = c /\ Live(w, FdOf(c))
  <1>1. PICK fd \in Fds : file[fd] = c /\ Live(w, fd)
    BY DEF IInv, Sockets, Watched
  <1>2. c # 0
    BY BoundsAssumption DEF IInv, TypeOK, Connections
  <1>3. \A other \in Fds : file[other] = c => other = fd
    BY <1>1, <1>2 DEF IInv, Sockets, Files
  <1> QED  BY <1>1, <1>3 DEF FdOf

-----------------------------------------------------------------------------
(* The threads: types, semaphores, and what a thread has in hand *)

WorkerState ==
    [pc: {"wait", "check", "next", "read", "request", "done", "close", "forget", "websocket"},
     events: SUBSET Fds, fd: Fds \cup {0}, websocket: BOOLEAN, delete: SUBSET Fds]

(* The semaphores of its list that a worker's step takes or posts. *)
WorkerGlobal(w) ==
    \/ UNCHANGED global /\ Busy(w) /\ Busy(w)'
    \/ global[w] = 1 /\ Busy(w)' /\ global' = [global EXCEPT ![w] = 0]
    \/ Busy(w) /\ ~Busy(w)' /\ global' = [global EXCEPT ![w] = @ + 1]

WorkerLeaf(w) ==
    \/ UNCHANGED leaf /\ (Holds(w)' <=> Holds(w)) /\ (Holds(w) => worker'[w].fd = worker[w].fd)
    \/ worker'[w].fd \in Fds /\ Holds(w)' /\ ~Holds(w)
       /\ leaf' = [leaf EXCEPT ![w][LeafOf[worker'[w].fd]] = 0]
    \/ Holds(w) /\ ~Holds(w)' /\ leaf' = [leaf EXCEPT ![w][LeafOf[worker[w].fd]] = @ + 1]

(* A worker's step keeps its state well-formed. *)
LEMMA WorkerOwn ==
    ASSUME IInv, NEW w \in Workers, WorkerStep(w)
    PROVE  worker' \in [Workers -> WorkerState] /\ WorkerControl(w)'
  <1>0. worker \in [Workers -> WorkerState] /\ WorkerControl(w) /\ websockets \subseteq Fds
    BY DEF IInv, TypeOK, WorkerState
  <1> USE <1>0 DEF WorkerState, WorkerControl
  <1>1. CASE waitGlobal(w)
    BY <1>1 DEF waitGlobal, Goto
  <1>2. CASE checkEqueue(w)
    <2>1. PICK S \in SUBSET (equeue[w] \cap ready) :
            worker' = [worker EXCEPT ![w].pc = "next", ![w].events = {FdOf(c) : c \in S}]
      BY <1>2 DEF checkEqueue
    <2>2. {FdOf(c) : c \in S} \subseteq Fds
      BY FdOfIs
    <2>3. PICK E \in SUBSET Fds : worker' = [worker EXCEPT ![w].pc = "next", ![w].events = E]
      BY <2>1, <2>2
    <2> HIDE DEF WorkerControl
    <2>4. [worker[w] EXCEPT !.pc = "next", !.events = E] \in WorkerState
      <3>1. worker[w] \in WorkerState
        BY <1>0
      <3> QED  BY <3>1
    <2> HIDE DEF WorkerState
    <2>5. worker' = [worker EXCEPT ![w] = [worker[w] EXCEPT !.pc = "next", !.events = E]]
      BY <2>3
    <2>6. worker' \in [Workers -> WorkerState] /\ worker'[w].pc = "next"
      BY <1>0, <2>4, <2>5
    <2> QED  BY <2>6 DEF WorkerControl
  <1>3. ASSUME NEW fd \in Fds, waitEvent(w, fd)
        PROVE  worker' \in [Workers -> WorkerState] /\ WorkerControl(w)'
    BY <1>3 DEF waitEvent
  <1>14. worker[w].pc \in {"read", "request"} => worker[w].fd \in Fds
    BY DEF IInv, Exclusion, Holds
  <1>4. CASE recvFailed(w)
    BY ZenonT(60), <1>4, <1>14 DEF recvFailed, Doomed
  <1>5. ASSUME NEW complete \in BOOLEAN, lookupWebsocket(w, complete)
        PROVE  worker' \in [Workers -> WorkerState] /\ WorkerControl(w)'
    BY <1>5 DEF lookupWebsocket
  <1>6. CASE websocketMessage(w) \/ answerKeepAlive(w) \/ answerWebsocket(w)
    BY <1>6 DEF websocketMessage, answerKeepAlive, answerWebsocket, Goto
  <1>7. CASE answerClose(w)
    BY ZenonT(60), <1>7, <1>14 DEF answerClose, Doomed
  <1>8. CASE postEvent(w)
    <2>1. worker' = [worker EXCEPT ![w] = [worker[w] EXCEPT !.pc = "next", !.fd = 0, !.websocket = FALSE]]
      BY <1>8 DEF postEvent
    <2>2. [worker[w] EXCEPT !.pc = "next", !.fd = 0, !.websocket = FALSE] \in WorkerState
      OBVIOUS
    <2>3. worker'[w].pc = "next"
      BY <2>1
    <2> QED  BY <2>1, <2>2, <2>3
  <1>9. CASE waitDelete(w)
    BY <1>9 DEF waitDelete
  <1>10. CASE closeSocket(w)
    BY <1>10 DEF closeSocket, Goto
  <1>11. CASE forgetSocket(w)
    BY <1>11 DEF forgetSocket, Goto
  <1>12. CASE deleteWebsocket(w)
    BY ZenonT(60), <1>12 DEF deleteWebsocket
  <1>13. CASE postGlobal(w)
    BY <1>13 DEF postGlobal, Goto
  <1> QED  BY <1>1, <1>2, <1>3, <1>4, <1>5, <1>6, <1>7, <1>8, <1>9, <1>10, <1>11, <1>12, <1>13
           DEF WorkerStep, WorkerLocks, WorkerRuns, processRead

(* A worker's step takes a free semaphore of its list, posts one it took,   *)
(* or leaves them alone.                                                    *)
LEMMA WorkerSemaphores ==
    ASSUME IInv, NEW w \in Workers, WorkerStep(w)
    PROVE  WorkerGlobal(w) /\ WorkerLeaf(w)
  <1>0. worker \in [Workers -> WorkerState]
    BY DEF IInv, TypeOK, WorkerState
  <1> USE <1>0 DEF WorkerState, WorkerGlobal, WorkerLeaf, Busy, Holds
  <1>1. CASE waitGlobal(w)
    BY <1>1 DEF waitGlobal, Goto
  <1>2. CASE checkEqueue(w)
    BY <1>2 DEF checkEqueue, semaphores
  <1>3. ASSUME NEW fd \in Fds, waitEvent(w, fd)
        PROVE  WorkerGlobal(w) /\ WorkerLeaf(w)
    BY <1>3 DEF waitEvent, TakeLeaf
  <1>4. CASE processRead(w)
    <2>1. UNCHANGED <<global, leaf>> /\ worker[w].pc \in {"read", "request"}
      BY <1>4 DEF processRead, recvFailed, lookupWebsocket, websocketMessage, answerKeepAlive,
                  answerClose, answerWebsocket, semaphores
    <2>2. worker'[w].pc \in {"request", "done"} /\ worker'[w].fd = worker[w].fd
      <3>1. CASE recvFailed(w) \/ answerClose(w)
        BY <3>1 DEF recvFailed, answerClose, Doomed
      <3>2. CASE \E complete \in BOOLEAN : lookupWebsocket(w, complete)
        BY <3>2 DEF lookupWebsocket
      <3>3. CASE websocketMessage(w) \/ answerKeepAlive(w) \/ answerWebsocket(w)
        BY <3>3 DEF websocketMessage, answerKeepAlive, answerWebsocket, Goto
      <3> QED  BY <1>4, <3>1, <3>2, <3>3 DEF processRead
    <2> QED  BY <2>1, <2>2
  <1>5. CASE postEvent(w)
    BY <1>5 DEF postEvent, PostLeaf
  <1>6. CASE waitDelete(w)
    <2> DEFINE fd == First(worker[w].delete)
    <2>1. /\ worker[w].pc = "next" /\ TakeLeaf(w, LeafOf[fd]) /\ UNCHANGED global
          /\ worker'[w].fd = fd /\ worker'[w].pc \in {"forget", "close"}
      BY <1>6 DEF waitDelete
    <2>2. worker'[w].fd \in Fds
      <3>1. WorkerControl(w)'
        BY <1>6, WorkerOwn DEF WorkerStep, WorkerLocks
      <3> QED  BY <2>1, <3>1 DEF WorkerControl
    <2> QED  BY <2>1, <2>2 DEF TakeLeaf
  <1>7. CASE closeSocket(w) \/ deleteWebsocket(w)
    BY <1>7 DEF closeSocket, deleteWebsocket, Goto, semaphores
  <1>8. CASE forgetSocket(w)
    BY <1>8 DEF forgetSocket, PostLeaf, Goto
  <1>9. CASE postGlobal(w)
    BY <1>9 DEF postGlobal, Goto
  <1> QED  BY <1>1, <1>2, <1>3, <1>4, <1>5, <1>6, <1>7, <1>8, <1>9
           DEF WorkerStep, WorkerLocks, WorkerRuns

(* The same for the garbage thread. *)
GcGlobal ==
    \/ UNCHANGED global /\ gc.pc # "wait" /\ gc'.pc # "wait" /\ gc'.worker = gc.worker
    \/ /\ gc.pc = "wait" /\ global[gc.worker] = 1 /\ global' = [global EXCEPT ![gc.worker] = 0]
       /\ gc'.worker = gc.worker /\ gc'.pc = "leaf"
    \/ gc'.pc = "wait" /\ gc.pc = "post" /\ global' = [global EXCEPT ![gc.worker] = @ + 1]

GcLeaf ==
    \/ UNCHANGED leaf /\ (GcHolds' <=> GcHolds) /\ (GcHolds => gc'.leaf = gc.leaf)
    \/ gc.leaf \in Leaves /\ gc'.leaf = gc.leaf /\ GcHolds' /\ ~GcHolds
       /\ leaf' = [leaf EXCEPT ![gc.worker][gc.leaf] = 0]
    \/ GcHolds /\ ~GcHolds' /\ leaf' = [leaf EXCEPT ![gc.worker][gc.leaf] = @ + 1]

LEMMA GcSemaphores ==
    ASSUME IInv, GcStep
    PROVE  GcGlobal /\ GcLeaf
  <1>0. TypeOK /\ GcControl
    BY DEF IInv
  <1> USE <1>0 DEF TypeOK, GcControl, GcGlobal, GcLeaf, GcHolds
  <1>1. CASE gcWaitGlobal
    BY <1>1 DEF gcWaitGlobal
  <1>2. CASE gcLeaf
    BY <1>2 DEF gcLeaf, semaphores
  <1>3. CASE gcWaitLeaf
    BY <1>3 DEF gcWaitLeaf, TakeLeaf
  <1>4. CASE gcItem
    BY <1>4 DEF gcItem, gcNext, semaphores
  <1>5. CASE gcDeleteWebsocket \/ gcClose \/ gcForget
    BY <1>5 DEF gcDeleteWebsocket, gcClose, gcForget, gcNext, semaphores
  <1>6. CASE gcPostLeaf
    BY <1>6 DEF gcPostLeaf, PostLeaf
  <1>7. CASE gcPostGlobal
    BY <1>7 DEF gcPostGlobal
  <1> QED  BY <1>1, <1>2, <1>3, <1>4, <1>5, <1>6, <1>7 DEF GcStep, GcLocks, GcRuns

(* A step preserves the mutual exclusion, and the semaphores are 0 or 1. *)
LEMMA ExclusionStep ==
    ASSUME IInv, [Next]_vars
    PROVE  /\ Exclusion' 
           /\ global' \in [Workers -> {0, 1}] /\ leaf' \in [Workers -> [Leaves -> {0, 1}]]
  <1>0. /\ TypeOK /\ Exclusion
        /\ \A w \in Workers : ~(Busy(w) /\ GcBusy(w))
        /\ LeafOf \in [Fds -> Leaves]
    BY FdsAssumption DEF IInv, Exclusion
  <1>1. ASSUME NEW w \in Workers, WorkerStep(w)
        PROVE  /\ Exclusion' 
               /\ global' \in [Workers -> {0, 1}] /\ leaf' \in [Workers -> [Leaves -> {0, 1}]]
    <2>1. /\ \A v \in Workers \ {w} :
                /\ (Busy(v)' <=> Busy(v)) /\ (Holds(v)' <=> Holds(v))
                /\ worker'[v] = worker[v] /\ global'[v] = global[v] /\ leaf'[v] = leaf[v]
          /\ \A v \in Workers : GcBusy(v)' <=> GcBusy(v)
          /\ ~GcBusy(w) /\ gc' = gc /\ (GcHolds' <=> GcHolds)
      BY <1>0, <1>1, WorkerFrame, Apart DEF Busy, Holds, GcBusy, GcHolds
    <2>2. Holds(w) => worker[w].fd \in Fds /\ leaf[w][LeafOf[worker[w].fd]] = 0
      BY <1>0 DEF Exclusion
    <2>3. WorkerGlobal(w) /\ WorkerLeaf(w)
      BY <1>1, WorkerSemaphores
    <2>4. /\ global' \in [Workers -> {0, 1}] /\ (Busy(w)' => global'[w] = 0)
      <3>1. /\ global \in [Workers -> {0, 1}] /\ (Busy(w) => global[w] = 0)
            /\ WorkerGlobal(w)
        BY <1>0, <2>3 DEF TypeOK, Exclusion
      <3> QED  BY <3>1 DEF WorkerGlobal
    <2>5. /\ leaf' \in [Workers -> [Leaves -> {0, 1}]]
          /\ Holds(w)' => worker'[w].fd \in Fds /\ leaf'[w][LeafOf[worker'[w].fd]] = 0
      <3>1. CASE /\ UNCHANGED leaf
                 /\ (Holds(w)' <=> Holds(w)) /\ (Holds(w) => worker'[w].fd = worker[w].fd)
        BY <1>0, <2>2, <3>1 DEF TypeOK
      <3>2. CASE worker'[w].fd \in Fds /\ leaf' = [leaf EXCEPT ![w][LeafOf[worker'[w].fd]] = 0]
        BY <1>0, <3>2 DEF TypeOK
      <3>3. CASE Holds(w) /\ ~Holds(w)' /\ leaf' = [leaf EXCEPT ![w][LeafOf[worker[w].fd]] = @ + 1]
        BY <1>0, <2>2, <3>3 DEF TypeOK
      <3> QED  BY <2>3, <3>1, <3>2, <3>3 DEF WorkerLeaf
    <2>6. \A v \in Workers \ {w} : 
            /\ (Busy(v) \/ GcBusy(v) => global[v] = 0)
            /\ (Holds(v) => worker[v].fd \in Fds /\ leaf[v][LeafOf[worker[v].fd]] = 0)
            /\ (GcBusy(v) /\ GcHolds => gc.leaf \in Leaves /\ leaf[v][gc.leaf] = 0)
      BY <1>0 DEF Exclusion
    <2>7. Exclusion'
      BY <1>0, <2>1, <2>4, <2>5, <2>6 DEF Exclusion
    <2> QED  BY <2>4, <2>5, <2>7
  <1>2. ASSUME GcStep
        PROVE  /\ Exclusion' 
               /\ global' \in [Workers -> {0, 1}] /\ leaf' \in [Workers -> [Leaves -> {0, 1}]]
    <2>1. /\ \A v \in Workers :
                /\ (Busy(v)' <=> Busy(v)) /\ (Holds(v)' <=> Holds(v)) /\ worker'[v] = worker[v]
          /\ \A v \in Workers \ {gc.worker} : global'[v] = global[v] /\ leaf'[v] = leaf[v]
          /\ ~Busy(gc.worker) /\ gc.worker \in Workers
      BY <1>0, <1>2, GcFrame, Apart DEF Busy, Holds, TypeOK
    <2>2. ~Holds(gc.worker)
      BY <2>1 DEF Busy, Holds
    <2>3. GcGlobal /\ GcLeaf
      BY <1>2, GcSemaphores
    <2>4. /\ global' \in [Workers -> {0, 1}] 
          /\ gc'.pc # "wait" => gc'.worker = gc.worker /\ global'[gc.worker] = 0
      BY <1>0, <2>1, <2>3 DEF GcGlobal, TypeOK, Exclusion, GcBusy
    <2>5. GcHolds => GcBusy(gc.worker) /\ gc.leaf \in Leaves /\ leaf[gc.worker][gc.leaf] = 0
      BY <1>0, <2>1 DEF Exclusion, GcHolds, GcBusy
    <2>6. /\ leaf' \in [Workers -> [Leaves -> {0, 1}]]
          /\ GcHolds' => gc'.leaf \in Leaves /\ leaf'[gc.worker][gc'.leaf] = 0
      <3>1. /\ leaf \in [Workers -> [Leaves -> {0, 1}]] /\ gc.worker \in Workers
            /\ GcHolds => gc.leaf \in Leaves /\ leaf[gc.worker][gc.leaf] = 0
        BY <1>0, <2>1, <2>5 DEF TypeOK
      <3>2. CASE UNCHANGED leaf /\ (GcHolds' <=> GcHolds) /\ (GcHolds => gc'.leaf = gc.leaf)
        BY <3>1, <3>2
      <3>3. CASE /\ gc.leaf \in Leaves /\ gc'.leaf = gc.leaf
                 /\ leaf' = [leaf EXCEPT ![gc.worker][gc.leaf] = 0]
        BY <3>1, <3>3
      <3>4. CASE GcHolds /\ ~GcHolds' /\ leaf' = [leaf EXCEPT ![gc.worker][gc.leaf] = @ + 1]
        BY <3>1, <3>4
      <3> QED  BY <2>3, <3>2, <3>3, <3>4 DEF GcLeaf
    <2>7. ASSUME NEW v \in Workers
          PROVE  /\ Busy(v)' \/ GcBusy(v)' => global'[v] = 0
                 /\ ~(Busy(v)' /\ GcBusy(v)')
                 /\ Holds(v)' => worker'[v].fd \in Fds /\ leaf'[v][LeafOf[worker'[v].fd]] = 0
                 /\ GcBusy(v)' /\ GcHolds' => gc'.leaf \in Leaves /\ leaf'[v][gc'.leaf] = 0
      <3>1. GcBusy(v)' => v = gc.worker
        BY <2>4 DEF GcBusy
      <3>2. CASE v = gc.worker
        BY <2>1, <2>2, <2>4, <2>6, <3>2 DEF GcBusy
      <3>3. CASE v # gc.worker
        BY <1>0, <2>1, <3>1, <3>3 DEF Exclusion
      <3> QED  BY <3>2, <3>3
    <2> QED  BY <2>4, <2>6, <2>7 DEF Exclusion
  <1>3. CASE UNCHANGED <<semaphores, worker, gc>>
    BY <1>0, <1>3 DEF Exclusion, Busy, GcBusy, Holds, GcHolds, TypeOK, semaphores
  <1> QED  BY <1>1, <1>2, <1>3, ListenerFrame
           DEF Next, WorkerStep, GcStep, ListenerStep, Tick, Input, vars

-----------------------------------------------------------------------------
(* The types *)

GcState ==
    [pc: {"wait", "leaf", "waitLeaf", "item", "websocket", "close", "forget", "post"},
     worker: Workers, maxTimeAllow: (-1 - socketTimeout) .. MaxTime,
     leaf: 0 .. LastLeaf + 1, fd: Fds \cup {0}]

Data ==
    /\ file \in [Fds -> Connections \cup {0}]
    /\ ready \subseteq Connections
    /\ equeue \in [Workers -> SUBSET Connections]
    /\ socketLists \in [Workers -> [Fds -> Item \cup {NoItem}]]
    /\ websockets \subseteq Fds

(* The connection of a descriptor that a worker handles is in its list. *)
LEMMA NamedIs ==
    ASSUME IInv, NEW w \in Workers, NEW fd \in Named(w)
    PROVE  fd \in Fds /\ Live(w, fd) /\ socketLists[w][fd] \in Item /\ file[fd] \in Connections
  <1>1. fd \in Fds
    BY DEF IInv, TypeOK, Named, Exclusion, Holds
  <1>2. Live(w, fd)
    BY DEF IInv, Sockets, NamedLive
  <1>3. socketLists[w][fd] \in Item
    BY <1>1, <1>2 DEF Live, Listed, IInv, TypeOK
  <1> QED  BY <1>1, <1>2, <1>3 DEF IInv, Sockets, LiveOpen, Item

(* A worker's step keeps the types of what the threads share. *)
LEMMA WorkerData ==
    ASSUME IInv, NEW w \in Workers, WorkerStep(w)
    PROVE  Data'
  <1>0. Data /\ worker \in [Workers -> WorkerState] /\ now \in Times
    BY DEF IInv, TypeOK, Data, WorkerState
  <1>1. CASE waitGlobal(w) \/ waitDelete(w) \/ (\E fd \in Fds : waitEvent(w, fd))
    BY <1>0, <1>1 DEF waitGlobal, waitDelete, waitEvent, kernel, lists, Data
  <1>2. CASE checkEqueue(w)
    BY <1>0, <1>2 DEF checkEqueue, lists, Data
  <1>3. CASE recvFailed(w) \/ (\E complete \in BOOLEAN : lookupWebsocket(w, complete))
    BY <1>0, <1>3 DEF recvFailed, lookupWebsocket, kernel, lists, Data
  <1>4. ASSUME websocketMessage(w) \/ answerKeepAlive(w) \/ answerClose(w) \/ answerWebsocket(w)
        PROVE  Data'
    <2>1. updateSocketL(w) /\ UNCHANGED kernel /\ worker[w].pc = "request"
          /\ websockets' \in {websockets, websockets \cup {worker[w].fd}}
      BY <1>4 DEF websocketMessage, answerKeepAlive, answerClose, answerWebsocket
    <2>2. worker[w].fd \in Fds /\ socketLists[w][worker[w].fd] \in Item
      BY <2>1, NamedIs DEF Named
    <2>3. [connection |-> socketLists[w][worker[w].fd].connection, time |-> now] \in Item
      BY <1>0, <2>2 DEF Item
    <2>4. socketLists' \in [Workers -> [Fds -> Item \cup {NoItem}]]
      BY <1>0, <2>1, <2>2, <2>3, NoItemAssumption DEF updateSocketL, Data
    <2> QED  BY <1>0, <2>1, <2>2, <2>4 DEF kernel, Data
  <1>5. CASE postEvent(w) \/ postGlobal(w)
    BY <1>0, <1>5 DEF postEvent, postGlobal, kernel, lists, Data
  <1>6. CASE closeSocket(w)
    BY <1>0, <1>6 DEF closeSocket, CloseFd, lists, Data
  <1>7. CASE forgetSocket(w)
    BY <1>0, <1>7 DEF forgetSocket, deleteItem, kernel, Data
  <1>8. CASE deleteWebsocket(w)
    BY <1>0, <1>8 DEF deleteWebsocket, kernel, Data
  <1> QED  BY <1>1, <1>2, <1>3, <1>4, <1>5, <1>6, <1>7, <1>8
           DEF WorkerStep, WorkerLocks, WorkerRuns, processRead

(* So does a step of the garbage thread. *)
LEMMA GcData ==
    ASSUME IInv, GcStep
    PROVE  Data'
  <1>0. Data /\ gc \in GcState
    BY DEF IInv, TypeOK, Data, GcState
  <1>1. CASE gcWaitGlobal \/ gcWaitLeaf \/ gcLeaf \/ gcItem \/ gcPostLeaf \/ gcPostGlobal
    BY <1>0, <1>1 DEF gcWaitGlobal, gcWaitLeaf, gcLeaf, gcItem, gcPostLeaf, gcPostGlobal, kernel,
                lists, Data
  <1>2. CASE gcDeleteWebsocket
    BY <1>0, <1>2 DEF gcDeleteWebsocket, kernel, Data
  <1>3. CASE gcClose
    BY <1>0, <1>3 DEF gcClose, CloseFd, lists, Data
  <1>4. CASE gcForget
    BY <1>0, <1>4 DEF gcForget, deleteItem, kernel, Data
  <1> QED  BY <1>1, <1>2, <1>3, <1>4 DEF GcStep, GcLocks, GcRuns

(* And a step of the listener, which keeps its own state well-formed. *)
LEMMA ListenerTypes ==
    ASSUME IInv, ListenerStep
    PROVE  /\ Data' /\ accepted' \in 0 .. MaxConnections
           /\ listener' \in [pc: {"accept", "update", "add"}, fd: Fds \cup {0},
                             currentThread: Workers]
  <1>0. TypeOK /\ ListenerControl
    BY DEF IInv, Sockets
  <1> USE <1>0 DEF TypeOK, Data
  <1>1. ASSUME NEW fd \in Fds, accept(fd)
        PROVE  /\ Data' /\ accepted' \in 0 .. MaxConnections
               /\ listener' \in [pc: {"accept", "update", "add"}, fd: Fds \cup {0},
                                 currentThread: Workers]
    <2>1. accepted' \in Connections /\ accepted' \in 0 .. MaxConnections
      BY <1>1, BoundsAssumption DEF accept, Connections
    <2>2. (IF listener.currentThread + 1 = workers THEN 0 ELSE listener.currentThread + 1)
            \in Workers
      BY WorkersAssumption DEF Workers
    <2> QED  BY <1>1, <2>1, <2>2 DEF accept, lists
  <1>2. CASE acceptUpdate
    <2>1. listener.fd \in Fds /\ accepted \in Connections
      BY <1>2, BoundsAssumption DEF acceptUpdate, ListenerControl, Connections
    <2>2. [connection |-> accepted, time |-> now] \in Item
      BY <2>1 DEF Item
    <2> QED  BY <1>2, <2>1, <2>2 DEF acceptUpdate, kernel
  <1>3. CASE addClientEqueue
    <2>1. listener.fd \in Fds /\ (file[listener.fd] # 0 => file[listener.fd] \in Connections)
      BY <1>3 DEF addClientEqueue, ListenerControl
    <2> QED  BY <1>3, <2>1 DEF addClientEqueue, lists
  <1> QED  BY <1>1, <1>2, <1>3 DEF ListenerStep, Listen

(* The garbage thread stays on items of the leaf that it walks. *)
LEMMA GcOwn ==
    ASSUME IInv, GcStep
    PROVE  gc' \in GcState /\ GcControl'
  <1>0. /\ gc \in GcState /\ GcControl /\ now \in Times /\ 0 \notin Fds
        /\ gc.pc # "wait" /\ GcHolds => gc.leaf \in Leaves
    BY FdsAssumption DEF IInv, TypeOK, GcState, Exclusion, GcBusy
  <1> USE <1>0 DEF GcState, GcControl, Listed
  <1>1. CASE gcWaitGlobal
    <2> DEFINE limit == now - socketTimeout - 1
    <2>1. limit \in (-1 - socketTimeout) .. MaxTime
      BY BoundsAssumption DEF Times
    <2>2. 1 \in 0 .. LastLeaf + 1
      BY FdsAssumption
    <2>3. /\ gc.pc = "wait" /\ UNCHANGED socketLists
          /\ gc' = [gc EXCEPT !.pc = "leaf", !.leaf = 1, !.maxTimeAllow = limit]
      BY <1>1 DEF gcWaitGlobal, lists
    <2> HIDE DEF limit
    <2>4. gc' \in GcState
      BY <2>1, <2>2, <2>3
    <2>5. gc'.pc = "leaf" /\ gc'.leaf = 1 /\ gc'.fd = 0
      BY <2>3
    <2> QED  BY <2>4, <2>5
  <1>2. CASE gcLeaf
    <2>1. 0 \in (-1 - socketTimeout) .. MaxTime /\ 0 \in 0 .. LastLeaf + 1
      BY BoundsAssumption, FdsAssumption
    <2>2. gc.leaf # 0 /\ gc.leaf \in 0 .. LastLeaf + 1
      BY <1>2 DEF gcLeaf
    <2>3. ~(gc.leaf > LastLeaf) => gc.leaf \in Leaves /\ gc.leaf + 1 \in (0 .. LastLeaf + 1) \ {0}
      BY <2>2, FdsAssumption DEF Leaves
    <2>4. UNCHANGED socketLists /\ gc.pc = "leaf" /\ gc.fd = 0
      BY <1>2 DEF gcLeaf, lists
    <2>5. CASE gc.leaf > LastLeaf
      BY <1>2, <2>1, <2>4, <2>5 DEF gcLeaf
    <2>6. CASE ~(gc.leaf > LastLeaf) /\ gc' = [gc EXCEPT !.leaf = @ + 1]
      BY <2>3, <2>4, <2>6
    <2>7. CASE ~(gc.leaf > LastLeaf) /\ gc' = [gc EXCEPT !.pc = "waitLeaf"]
      BY <2>3, <2>4, <2>7
    <2> QED  BY <1>2, <2>5, <2>6, <2>7 DEF gcLeaf
  <1>3. CASE gcWaitLeaf
    <2> DEFINE first == First(InLeaf(gc.worker, gc.leaf))
    <2>1. gc.leaf \in Leaves /\ UNCHANGED socketLists
      BY <1>3 DEF gcWaitLeaf, lists
    <2>2. first \in InLeaf(gc.worker, gc.leaf) \cup {0}
      BY <2>1, WalkIs
    <2>3. gc' = [gc EXCEPT !.pc = "item", !.fd = first]
      BY <1>3 DEF gcWaitLeaf
    <2> HIDE DEF first
    <2> QED  BY <2>1, <2>2, <2>3 DEF InLeaf
  <1>4. CASE gcItem
    <2>1. gc.leaf \in Leaves /\ UNCHANGED socketLists /\ gc.pc = "item" /\ gc.fd # 0
      BY <1>4 DEF gcItem, lists, GcHolds
    <2>2. CASE gc' = [gc EXCEPT !.pc = "websocket"]
      BY <2>1, <2>2
    <2>3. CASE gc' = gcNext
      <3> DEFINE next == After(InLeaf(gc.worker, gc.leaf), gc.fd)
      <3>1. next \in InLeaf(gc.worker, gc.leaf) \cup {0}
        BY <2>1, WalkIs
      <3>2. gc' = [gc EXCEPT !.pc = "item", !.fd = next]
        BY <2>3 DEF gcNext
      <3> HIDE DEF next
      <3> QED  BY <2>1, <3>1, <3>2 DEF InLeaf
    <2> QED  BY <1>4, <2>2, <2>3 DEF gcItem
  <1>5. CASE gcDeleteWebsocket
    BY <1>5 DEF gcDeleteWebsocket
  <1>6. CASE gcClose
    BY <1>6 DEF gcClose, lists
  <1>7. CASE gcForget
    <2> DEFINE next == After(InLeaf(gc.worker, gc.leaf), gc.fd)
    <2>1. gc.leaf \in Leaves /\ deleteItem(gc.worker, gc.fd)
      BY <1>7 DEF gcForget, GcHolds
    <2>2. next \in (InLeaf(gc.worker, gc.leaf) \ {gc.fd}) \cup {0}
      BY <2>1, WalkIs
    <2>3. gc' = [gc EXCEPT !.pc = "item", !.fd = next]
      BY <1>7 DEF gcForget, gcNext
    <2>4. \A fd \in Fds \ {gc.fd} : socketLists'[gc.worker][fd] = socketLists[gc.worker][fd]
      BY <2>1 DEF deleteItem, IInv, TypeOK
    <2> HIDE DEF next
    <2> QED  BY <2>1, <2>2, <2>3, <2>4 DEF InLeaf
  <1>8. CASE gcPostLeaf
    <2>1. gc.leaf \in Leaves
      BY <1>8 DEF gcPostLeaf, GcHolds
    <2>2. gc.leaf + 1 \in (0 .. LastLeaf + 1) \ {0}
      BY <2>1, FdsAssumption DEF Leaves
    <2> QED  BY <1>8, <2>2 DEF gcPostLeaf
  <1>9. CASE gcPostGlobal
    <2>1. (IF gc.worker + 1 = workers THEN 0 ELSE gc.worker + 1) \in Workers
      BY WorkersAssumption DEF Workers
    <2> QED  BY <1>9, <2>1 DEF gcPostGlobal
  <1> QED  BY <1>1, <1>2, <1>3, <1>4, <1>5, <1>6, <1>7, <1>8, <1>9 DEF GcStep, GcLocks, GcRuns

(* A step preserves the types. *)
LEMMA TypeStep ==
    ASSUME IInv, [Next]_vars
    PROVE  TypeOK'
  <1>0. TypeOK
    BY DEF IInv
  <1>1. global' \in [Workers -> {0, 1}] /\ leaf' \in [Workers -> [Leaves -> {0, 1}]]
    BY ExclusionStep
  <1>2. ASSUME NEW w \in Workers, WorkerStep(w)
        PROVE  TypeOK'
    <2>1. Data' /\ worker' \in [Workers -> WorkerState]
      BY <1>2, WorkerData, WorkerOwn
    <2>2. UNCHANGED <<accepted, listener, gc, now>>
      BY <1>0, <1>2, WorkerFrame
    <2> QED  BY <1>0, <1>1, <2>1, <2>2 DEF TypeOK, Data, WorkerState
  <1>3. CASE GcStep
    <2>1. Data' /\ gc' \in GcState
      BY <1>3, GcData, GcOwn
    <2>2. UNCHANGED <<accepted, listener, worker, now>>
      BY <1>0, <1>3, GcFrame
    <2> QED  BY <1>0, <1>1, <2>1, <2>2 DEF TypeOK, Data, GcState
  <1>4. CASE ListenerStep
    <2>1. /\ Data' /\ accepted' \in 0 .. MaxConnections
          /\ listener' \in [pc: {"accept", "update", "add"}, fd: Fds \cup {0},
                            currentThread: Workers]
      BY <1>4, ListenerTypes
    <2>2. UNCHANGED <<worker, gc, now>>
      BY <1>4, ListenerFrame
    <2> QED  BY <1>0, <1>1, <2>1, <2>2 DEF TypeOK, Data
  <1>5. CASE \E c \in Connections : Input(c)
    BY <1>0, <1>1, <1>5 DEF Input, lists, TypeOK
  <1>6. CASE Tick
    <2>1. now' \in Times
      BY <1>0, <1>6, BoundsAssumption DEF Tick, TypeOK, Times
    <2> QED  BY <1>0, <1>1, <1>6, <2>1 DEF Tick, kernel, lists, TypeOK
  <1>7. CASE UNCHANGED vars
    BY <1>0, <1>1, <1>7 DEF vars, kernel, lists, TypeOK
  <1> QED  BY <1>2, <1>3, <1>4, <1>5, <1>6, <1>7 DEF Next, WorkerStep, GcStep, ListenerStep

(* The listener only adds items. *)
LEMMA ListenerAdds ==
    ASSUME IInv, ListenerStep, NEW w \in Workers, NEW fd \in Fds, Listed(w, fd)
    PROVE  Listed(w, fd)'
  <1>1. TypeOK /\ ListenerControl
    BY DEF IInv, Sockets
  <1>2. CASE acceptUpdate
    <2>1. accepted \in Connections /\ now \in Times
      BY <1>1, <1>2, BoundsAssumption DEF acceptUpdate, ListenerControl, TypeOK, Connections
    <2>2. [connection |-> accepted, time |-> now] # NoItem
      BY <2>1, NoItemAssumption DEF Item
    <2> QED  BY <1>1, <1>2, <2>2 DEF acceptUpdate, Listed, TypeOK
  <1>3. CASE ~acceptUpdate
    BY <1>3 DEF ListenerStep, Listen, accept, addClientEqueue, lists, Listed
  <1> QED  BY <1>2, <1>3

(* A step preserves what the threads have in hand. *)
LEMMA ControlStep ==
    ASSUME IInv, [Next]_vars
    PROVE  (\A w \in Workers : WorkerControl(w)') /\ GcControl'
  <1>0. TypeOK /\ (\A w \in Workers : WorkerControl(w)) /\ GcControl
    BY DEF IInv
  <1>1. ASSUME NEW w \in Workers, WorkerStep(w)
        PROVE  (\A v \in Workers : WorkerControl(v)') /\ GcControl'
    <2>1. \A v \in Workers \ {w} : worker'[v] = worker[v] /\ socketLists'[v] = socketLists[v]
      BY <1>0, <1>1, WorkerFrame
    <2>2. gc' = gc /\ (gc.fd # 0 => gc.worker \in Workers \ {w})
      BY <1>0, <1>1, WorkerFrame, Apart DEF GcBusy, GcControl, TypeOK
    <2>3. WorkerControl(w)'
      BY <1>1, WorkerOwn
    <2> QED  BY <1>0, <2>1, <2>2, <2>3 DEF WorkerControl, GcControl, Listed
  <1>2. CASE GcStep
    <2>1. UNCHANGED worker
      BY <1>0, <1>2, GcFrame
    <2> QED  BY <1>0, <1>2, <2>1, GcOwn DEF WorkerControl
  <1>3. CASE ListenerStep
    <2>1. UNCHANGED <<worker, gc>>
      BY <1>3, ListenerFrame
    <2>2. gc.fd # 0 => Listed(gc.worker, gc.fd)'
      BY <1>0, <1>3, <2>1, ListenerAdds DEF GcControl, TypeOK
    <2>3. \A w \in Workers : WorkerControl(w)'
      BY <1>0, <2>1 DEF WorkerControl
    <2>4. GcControl'
      BY <1>0, <2>1, <2>2 DEF GcControl
    <2> QED  BY <2>3, <2>4
  <1>4. CASE UNCHANGED <<worker, gc, socketLists>>
    BY <1>0, <1>4 DEF WorkerControl, GcControl, Listed
  <1> QED  BY <1>1, <1>2, <1>3, <1>4
           DEF Next, WorkerStep, GcStep, ListenerStep, Tick, Input, vars, lists

-----------------------------------------------------------------------------
(* The sockets *)

(* A step that opens, closes and lists nothing, and looks up only what is   *)
(* live.                                                                    *)
Quiet ==
    /\ UNCHANGED <<file, accepted, equeue, listener>>
    /\ \A w \in Workers, fd \in Fds :
        /\ Live(w, fd)' <=> Live(w, fd)
        /\ Live(w, fd) => socketLists'[w][fd].connection = socketLists[w][fd].connection
    /\ \A w \in Workers : Named(w)' \subseteq
            Named(w) \cup {fd \in Fds : Live(w, fd) /\ file[fd] \in equeue[w]}

(* The socket of a descriptor is closed; its item is dead from now on. *)
Closed(w, fd) ==
    /\ fd \in Fds /\ Live(w, fd) /\ CloseFd(w, fd)
    /\ UNCHANGED <<listener, socketLists>>
    /\ \A v \in Workers, other \in Fds :
        Live(v, other)' <=> Live(v, other) /\ ~(v = w /\ other = fd)
    /\ \A v \in Workers : Named(v)' \subseteq Named(v)
    /\ fd \notin Named(w)'

(* What a worker looks up is a descriptor. *)
LEMMA NamedFds ==
    ASSUME IInv, NEW w \in Workers
    PROVE  Named(w) \subseteq Fds
  BY NamedIs

(* Such a step preserves the invariant of the sockets. *)
LEMMA QuietStep ==
    ASSUME IInv, Quiet
    PROVE  Sockets'
  <1>0. /\ TypeOK /\ Files /\ LiveOpen /\ OneList /\ ListenerControl /\ Watched /\ NamedLive
        /\ OpenLive
    BY DEF IInv, Sockets
  <1>1. listener.currentThread \in Workers
    BY <1>0 DEF TypeOK
  <1>2. Files'
    BY <1>0 DEF Quiet, Files
  <1>3. LiveOpen'
    BY <1>0 DEF Quiet, LiveOpen
  <1>4. OneList'
    BY <1>0 DEF Quiet, OneList
  <1>5. \A w \in Workers, fd \in Fds : Live(w, fd)' <=> Live(w, fd)
    BY DEF Quiet
  <1>6. ListenerControl'
    <2>1. UNCHANGED <<file, accepted, listener>>
      BY DEF Quiet
    <2>2. \A w \in Workers : listener.fd \in Fds => (Live(w, listener.fd)' <=> Live(w, listener.fd))
      BY <1>5, <2>1 DEF Live, Listed, Forgetting
    <2>3. listener.fd \in Fds =>
            (Live(listener.currentThread, listener.fd)' <=> Live(listener.currentThread, listener.fd))
      BY <1>1, <1>5, <2>1 DEF Live, Listed, Forgetting
    <2> QED  BY <1>0, <2>1, <2>2, <2>3 DEF ListenerControl
  <1>7. Watched'
    BY <1>0, <1>5 DEF Quiet, Watched
  <1>8. NamedLive'
    BY <1>0, <1>5, NamedFds DEF Quiet, NamedLive
  <1>9. OpenLive'
    BY <1>0, <1>5 DEF Quiet, OpenLive
  <1> QED  BY <1>2, <1>3, <1>4, <1>6, <1>7, <1>8, <1>9 DEF Sockets

(* So does the close of a live socket. *)
LEMMA ClosedStep ==
    ASSUME IInv, NEW w \in Workers, NEW fd, Closed(w, fd)
    PROVE  Sockets'
  <1>0. /\ TypeOK /\ Files /\ LiveOpen /\ OneList /\ ListenerControl /\ Watched /\ NamedLive
        /\ OpenLive
    BY DEF IInv, Sockets
  <1>1. /\ fd \in Fds /\ Live(w, fd) /\ UNCHANGED <<listener, socketLists, accepted>>
        /\ file' = [file EXCEPT ![fd] = 0]
        /\ equeue' = [equeue EXCEPT ![w] = @ \ {file[fd]}]
    BY DEF Closed, CloseFd
  <1>2. /\ file'[fd] = 0 /\ \A other \in Fds \ {fd} : file'[other] = file[other]
        /\ equeue'[w] = equeue[w] \ {file[fd]} /\ \A v \in Workers \ {w} : equeue'[v] = equeue[v]
    BY <1>0, <1>1 DEF TypeOK
  <1>3. /\ \A v \in Workers : Live(v, fd) => v = w
        /\ \A v \in Workers : ~Live(v, fd)'
        /\ \A v \in Workers, other \in Fds \ {fd} : Live(v, other)' <=> Live(v, other)
    BY <1>0, <1>1 DEF OneList, Closed
  <1>4. /\ file[fd] # 0
        /\ \A v \in Workers, other \in Fds : Live(v, other) => file[other] # 0
    <2>1. ASSUME NEW v \in Workers, NEW other \in Fds, Live(v, other)
          PROVE  file[other] # 0
      <3>1. socketLists[v][other] \in Item
        BY <1>0, <2>1 DEF Live, Listed, TypeOK
      <3> QED  BY <1>0, <2>1, <3>1, BoundsAssumption DEF LiveOpen, Item, Connections
    <2> QED  BY <1>1, <2>1
  <1>5. \A other \in Fds \ {fd} : file[other] # file[fd]
    BY <1>0, <1>1, <1>4 DEF Files
  <1>6. Files'
    BY <1>0, <1>1, <1>2 DEF Files
  <1>7. LiveOpen'
    BY <1>0, <1>1, <1>2, <1>3 DEF LiveOpen
  <1>8. OneList'
    BY <1>0, <1>3 DEF OneList
  <1>9. ListenerControl'
    <2>1. listener.currentThread \in Workers
      BY <1>0 DEF TypeOK
    <2>2. listener.pc = "update" => listener.fd # fd
      BY <1>0, <1>1 DEF ListenerControl
    <2>4. listener.fd \in Fds /\ listener.fd # fd =>
            \A v \in Workers : Live(v, listener.fd)' <=> Live(v, listener.fd)
      BY <1>1, <1>3 DEF Live, Listed, Forgetting
    <2>5. listener.fd \in Fds /\ listener.fd # fd =>
            (Live(listener.currentThread, listener.fd)' <=> Live(listener.currentThread, listener.fd))
      BY <1>1, <1>3, <2>1 DEF Live, Listed, Forgetting
    <2> QED  BY <1>0, <1>1, <1>2, <2>2, <2>4, <2>5 DEF ListenerControl
  <1>10. Watched'
    <2>1. ASSUME NEW v \in Workers, NEW c \in equeue'[v]
          PROVE  \E other \in Fds : file'[other] = c /\ Live(v, other)'
      <3>1. c \in equeue[v] /\ (v = w => c # file[fd])
        BY <1>2, <2>1
      <3>2. PICK other \in Fds : file[other] = c /\ Live(v, other)
        BY <1>0, <3>1 DEF Watched
      <3>3. other # fd
        BY <1>3, <3>1, <3>2
      <3> QED  BY <1>2, <1>3, <3>2, <3>3
    <2> QED  BY <2>1 DEF Watched
  <1>11. NamedLive'
    <2>1. ASSUME NEW v \in Workers, NEW other \in Named(v)'
          PROVE  Live(v, other)' /\ file'[other] \in equeue'[v]
      <3>1. other \in Named(v) /\ other \in Fds /\ (v = w => other # fd)
        BY <2>1, NamedFds DEF Closed
      <3>2. Live(v, other) /\ file[other] \in equeue[v]
        BY <1>0, <3>1 DEF NamedLive
      <3>3. other # fd
        BY <1>3, <3>1, <3>2
      <3> QED  BY <1>2, <1>3, <1>5, <3>1, <3>2, <3>3
    <2> QED  BY <2>1 DEF NamedLive
  <1>12. OpenLive'
    BY <1>0, <1>1, <1>2, <1>3 DEF OpenLive
  <1> QED  BY <1>6, <1>7, <1>8, <1>9, <1>10, <1>11, <1>12 DEF Sockets

(* So do the three steps of the listener: a new connection has a descriptor *)
(* that no list and no event queue knows,                                   *)
LEMMA AcceptStep ==
    ASSUME IInv, NEW fd \in Fds, accept(fd)
    PROVE  Sockets'
  <1>0. /\ TypeOK /\ Files /\ LiveOpen /\ OneList /\ ListenerControl /\ Watched /\ NamedLive
        /\ OpenLive
    BY DEF IInv, Sockets
  <1>1. /\ listener.pc = "accept" /\ file[fd] = 0 /\ accepted \in Nat /\ accepted' = accepted + 1
        /\ file' = [file EXCEPT ![fd] = accepted']
        /\ listener'.pc = "update" /\ listener'.fd = fd
        /\ UNCHANGED <<equeue, socketLists, worker, gc>>
    BY <1>0, BoundsAssumption DEF accept, TypeOK, lists, listenerOnly
  <1>2. file'[fd] = accepted' /\ \A other \in Fds \ {fd} : file'[other] = file[other]
    BY <1>0, <1>1 DEF TypeOK
  <1>3. \A w \in Workers, other \in Fds : Live(w, other)' <=> Live(w, other)
    BY <1>1 DEF Live, Listed, Forgetting
  <1>4. \A w \in Workers, other \in Fds : Live(w, other) => file[other] # 0
    <2>1. ASSUME NEW w \in Workers, NEW other \in Fds, Live(w, other)
          PROVE  file[other] # 0
      <3>1. socketLists[w][other] \in Item
        BY <1>0, <2>1 DEF Live, Listed, TypeOK
      <3> QED  BY <1>0, <2>1, <3>1, BoundsAssumption DEF LiveOpen, Item, Connections
    <2> QED  BY <2>1
  <1>5. \A w \in Workers : ~Live(w, fd)
    BY <1>1, <1>4
  <1>6. Files'
    <2>1. \A other \in Fds \ {fd} : file[other] # 0 => file[other] \in Nat /\ file[other] <= accepted
      BY <1>0, BoundsAssumption DEF Files, TypeOK, Connections
    <2>2. \A other \in Fds \ {fd} : file[other] # 0 =>
            file'[other] <= accepted' /\ file'[other] # file'[fd]
      BY <1>1, <1>2, <2>1
    <2>3. accepted' # 0 /\ accepted' <= accepted'
      BY <1>1
    <2>4. ASSUME NEW other \in Fds, file'[other] # 0
          PROVE  file'[other] <= accepted' /\ \A third \in Fds \ {other} : file'[third] # file'[other]
      <3>1. CASE other = fd
        BY <1>2, <2>2, <2>3, <3>1
      <3>2. CASE other # fd
        BY <1>0, <1>2, <2>2, <2>4, <3>2 DEF Files
      <3> QED  BY <3>1, <3>2
    <2> QED  BY <2>4 DEF Files
  <1>7. LiveOpen' /\ OneList'
    BY <1>0, <1>1, <1>2, <1>3, <1>5 DEF LiveOpen, OneList
  <1>8. ListenerControl'
    <2>1. \A w \in Workers : ~Live(w, listener.fd)'
      BY <1>1, <1>5 DEF Live, Listed, Forgetting
    <2> QED  BY <1>1, <1>2, <2>1 DEF ListenerControl
  <1>9. Watched'
    BY <1>0, <1>1, <1>2, <1>3, <1>5 DEF Watched
  <1>10. NamedLive'
    <2>1. \A w \in Workers : Named(w)' = Named(w)
      BY <1>1 DEF Named
    <2> QED  BY <1>0, <1>1, <1>2, <1>3, <1>5, <2>1, NamedFds DEF NamedLive
  <1>11. OpenLive'
    BY <1>0, <1>1, <1>2, <1>3 DEF OpenLive
  <1> QED  BY <1>6, <1>7, <1>8, <1>9, <1>10, <1>11 DEF Sockets

(* it is listed while its leaf is free, so that nobody is deleting an older *)
(* item of the same descriptor,                                             *)
LEMMA AcceptUpdateStep ==
    ASSUME IInv, acceptUpdate
    PROVE  Sockets'
  <1>0. /\ TypeOK /\ Files /\ LiveOpen /\ OneList /\ ListenerControl /\ Watched /\ NamedLive
        /\ OpenLive /\ Exclusion /\ GcControl
    BY DEF IInv, Sockets
  <1> DEFINE fd == listener.fd
             home == listener.currentThread
  <1>1. /\ listener.pc = "update" /\ fd \in Fds /\ home \in Workers
        /\ file[fd] = accepted /\ accepted \in Connections /\ now \in Times
        /\ \A w \in Workers : ~Live(w, fd)
    BY <1>0, BoundsAssumption DEF acceptUpdate, ListenerControl, TypeOK, Connections
  <1>2. /\ leaf[home][LeafOf[fd]] = 1
        /\ socketLists' = [socketLists EXCEPT ![home][fd] = [connection |-> accepted, time |-> now]]
        /\ UNCHANGED <<file, accepted, equeue, worker, gc>>
        /\ listener'.pc = "add" /\ listener'.fd = fd /\ listener'.currentThread = home
    BY <1>0 DEF acceptUpdate, kernel, listenerOnly, TypeOK
  <1> HIDE DEF fd, home
  <1>3. [connection |-> accepted, time |-> now] # NoItem
    BY <1>1, NoItemAssumption DEF Item
  <1>4. /\ socketLists'[home][fd] # NoItem /\ socketLists'[home][fd].connection = accepted
        /\ \A w \in Workers, other \in Fds : ~(w = home /\ other = fd) =>
            socketLists'[w][other] = socketLists[w][other]
    BY <1>0, <1>1, <1>2, <1>3 DEF TypeOK
  <1>5. ~Forgetting(home, fd)
    <2>1. worker[home].pc = "forget" => worker[home].fd # fd
      BY <1>0, <1>1, <1>2 DEF Exclusion, Holds
    <2>2. gc.pc = "forget" /\ gc.worker = home => gc.fd # fd
      <3>1. ASSUME gc.pc = "forget", gc.worker = home, gc.fd = fd
            PROVE  FALSE
        <4>1. leaf[home][gc.leaf] = 0
          BY <1>0, <1>1, <3>1 DEF Exclusion, GcBusy, GcHolds
        <4>2. gc.leaf = LeafOf[fd]
          BY <1>0, <3>1 DEF GcControl
        <4> QED  BY <1>2, <4>1, <4>2
      <3> QED  BY <3>1
    <2> QED  BY <2>1, <2>2 DEF Forgetting
  <1>6. \A w \in Workers, other \in Fds :
            Live(w, other)' <=> Live(w, other) \/ (w = home /\ other = fd)
    BY <1>2, <1>4, <1>5 DEF Live, Listed, Forgetting
  <1>7. Files'
    BY <1>0, <1>2 DEF Files
  <1>8. LiveOpen'
    BY <1>0, <1>1, <1>2, <1>4, <1>6 DEF LiveOpen
  <1>9. OneList'
    BY <1>0, <1>1, <1>6 DEF OneList
  <1>10. ListenerControl'
    <2>1. Live(listener.currentThread, listener.fd)'
      BY <1>1, <1>2, <1>4, <1>5 DEF Live, Listed, Forgetting
    <2> QED  BY <1>1, <1>2, <2>1 DEF ListenerControl
  <1>11. Watched'
    BY <1>0, <1>2, <1>6 DEF Watched
  <1>12. NamedLive'
    <2>1. \A w \in Workers : Named(w)' = Named(w)
      BY <1>2 DEF Named
    <2> QED  BY <1>0, <1>2, <1>6, <2>1, NamedFds DEF NamedLive
  <1>13. OpenLive'
    <2>1. listener.fd = fd
      BY DEF fd
    <2> QED  BY <1>0, <1>1, <1>2, <1>6, <2>1 DEF OpenLive
  <1> QED  BY <1>7, <1>8, <1>9, <1>10, <1>11, <1>12, <1>13 DEF Sockets

(* and it is watched by the worker in whose list it is, if it is open.      *)
LEMMA AddStep ==
    ASSUME IInv, addClientEqueue
    PROVE  Sockets'
  <1>0. /\ TypeOK /\ Files /\ LiveOpen /\ OneList /\ ListenerControl /\ Watched /\ NamedLive
        /\ OpenLive
    BY DEF IInv, Sockets
  <1> DEFINE fd == listener.fd
             home == listener.currentThread
  <1>1. /\ fd \in Fds /\ home \in Workers /\ listener.pc = "add" /\ listener'.pc = "accept"
        /\ file[fd] # 0 => Live(home, fd)
        /\ equeue' = IF file[fd] = 0 THEN equeue ELSE [equeue EXCEPT ![home] = @ \cup {file[fd]}]
        /\ UNCHANGED <<file, accepted, socketLists, worker, gc>>
    BY <1>0 DEF addClientEqueue, ListenerControl, TypeOK, lists, listenerOnly
  <1>2. \A w \in Workers, other \in Fds : Live(w, other)' <=> Live(w, other)
    BY <1>1 DEF Live, Listed, Forgetting
  <1> HIDE DEF fd, home
  <1>3. \A w \in Workers : equeue[w] \subseteq equeue'[w]
    BY <1>0, <1>1 DEF TypeOK
  <1>4. \A w \in Workers : \A c \in equeue'[w] :
            c \in equeue[w] \/ (w = home /\ c = file[fd] /\ file[fd] # 0)
    BY <1>0, <1>1 DEF TypeOK
  <1>5. Files' /\ LiveOpen' /\ OneList'
    BY <1>0, <1>1, <1>2 DEF Files, LiveOpen, OneList
  <1>6. ListenerControl'
    BY <1>1 DEF ListenerControl
  <1>7. Watched'
    BY <1>0, <1>1, <1>2, <1>4 DEF Watched
  <1>8. NamedLive'
    <2>1. \A w \in Workers : Named(w)' = Named(w)
      BY <1>1 DEF Named
    <2> QED  BY <1>0, <1>1, <1>2, <1>3, <2>1, NamedFds DEF NamedLive
  <1>9. OpenLive'
    BY <1>0, <1>1, <1>2 DEF OpenLive
  <1> QED  BY <1>5, <1>6, <1>7, <1>8, <1>9 DEF Sockets

(* While a worker works on its list, the other forgets nothing of it.       *)
LEMMA WorkerForgetting ==
    ASSUME IInv, NEW w \in Workers, WorkerStep(w)
    PROVE  /\ \A fd : Forgetting(w, fd) <=> worker[w].pc = "forget" /\ worker[w].fd = fd
           /\ \A fd : Forgetting(w, fd)' <=> worker'[w].pc = "forget" /\ worker'[w].fd = fd
           /\ \A v \in Workers \ {w} : \A fd : Live(v, fd)' <=> Live(v, fd)
           /\ \A v \in Workers \ {w} : Named(v)' = Named(v) /\ socketLists'[v] = socketLists[v]
  <1>1. TypeOK /\ ~GcBusy(w)
    BY Apart DEF IInv
  <1>2. /\ gc' = gc
        /\ \A v \in Workers \ {w} : worker'[v] = worker[v] /\ socketLists'[v] = socketLists[v]
    BY <1>1, WorkerFrame
  <1> QED  BY <1>1, <1>2 DEF Forgetting, Live, Listed, Named, GcBusy

(* A worker's step is quiet, or it closes a socket.                         *)
LEMMA WorkerSockets ==
    ASSUME IInv, NEW w \in Workers, WorkerStep(w)
    PROVE  Quiet \/ \E fd : Closed(w, fd)
  <1>0. /\ TypeOK /\ WorkerControl(w) /\ worker \in [Workers -> WorkerState]
        /\ worker' \in [Workers -> WorkerState] /\ NamedLive
    BY WorkerOwn DEF IInv, TypeOK, WorkerState, Sockets
  <1>1. UNCHANGED <<accepted, listener>>
    BY <1>0, WorkerFrame
  <1>2. ASSUME UNCHANGED <<file, equeue, socketLists>>,
               worker'[w].pc = "forget" <=> worker[w].pc = "forget", worker[w].pc # "forget",
               Named(w)' \subseteq
                 Named(w) \cup {fd \in Fds : Live(w, fd) /\ file[fd] \in equeue[w]}
        PROVE  Quiet
    <2>1. \A fd : Live(w, fd)' <=> Live(w, fd)
      BY <1>2, WorkerForgetting DEF Live, Listed
    <2>2. \A v \in Workers, fd \in Fds : Live(v, fd)' <=> Live(v, fd)
      BY <2>1, WorkerForgetting
    <2>3. \A v \in Workers : Named(v)' \subseteq
            Named(v) \cup {fd \in Fds : Live(v, fd) /\ file[fd] \in equeue[v]}
      BY <1>2, WorkerForgetting
    <2> QED  BY <1>1, <1>2, <2>2, <2>3 DEF Quiet
  <1>3. CASE waitGlobal(w)
    BY <1>0, <1>2, <1>3 DEF waitGlobal, kernel, lists, Goto, WorkerState, Named
  <1>4. CASE checkEqueue(w)
    <2>1. PICK S \in SUBSET (equeue[w] \cap ready) :
            worker' = [worker EXCEPT ![w].pc = "next", ![w].events = {FdOf(c) : c \in S}]
      BY <1>4 DEF checkEqueue
    <2>2. \A c \in S : FdOf(c) \in Fds /\ Live(w, FdOf(c)) /\ file[FdOf(c)] \in equeue[w]
      BY FdOfIs
    <2>3. /\ worker'[w].events = {FdOf(c) : c \in S} /\ worker'[w].pc = "next"
          /\ worker'[w].delete = worker[w].delete
      BY ZenonT(60), <1>0, <2>1 DEF WorkerState
    <2>4. worker[w].pc = "check" /\ UNCHANGED <<file, equeue, socketLists>>
      BY <1>4 DEF checkEqueue, lists
    <2> QED  BY <1>2, <2>2, <2>3, <2>4 DEF Named
  <1>5. ASSUME NEW fd \in Fds, waitEvent(w, fd)
        PROVE  Quiet
    BY <1>0, <1>2, <1>5 DEF waitEvent, kernel, lists, WorkerState, Named
  <1>6. CASE recvFailed(w)
    BY <1>0, <1>2, <1>6 DEF recvFailed, Doomed, kernel, lists, WorkerState, Named
  <1>7. CASE \E complete \in BOOLEAN : lookupWebsocket(w, complete)
    BY <1>0, <1>2, <1>7 DEF lookupWebsocket, kernel, lists, WorkerState, Named
  <1>8. ASSUME websocketMessage(w) \/ answerKeepAlive(w) \/ answerClose(w) \/ answerWebsocket(w)
        PROVE  Quiet
    <2> DEFINE fd == worker[w].fd
    <2>1. /\ updateSocketL(w) /\ UNCHANGED <<file, equeue>> /\ worker[w].pc = "request"
          /\ worker'[w].pc = "done" /\ worker'[w].events = worker[w].events
          /\ worker'[w].delete \in {worker[w].delete, worker[w].delete \cup {fd}}
      <3>1. CASE websocketMessage(w) \/ answerKeepAlive(w) \/ answerWebsocket(w)
        BY <1>0, <3>1 DEF websocketMessage, answerKeepAlive, answerWebsocket, Goto, kernel, WorkerState
      <3>2. CASE answerClose(w)
        BY <1>0, <3>2 DEF answerClose, Doomed, kernel, WorkerState
      <3> QED  BY <1>8, <3>1, <3>2
    <2>2. fd \in Named(w)
      BY <2>1 DEF Named
    <2>3. fd \in Fds /\ socketLists[w][fd] \in Item
      BY <2>2, NamedIs
    <2> HIDE DEF fd
    <2>4. /\ socketLists'[w][fd] # NoItem
          /\ socketLists'[w][fd].connection = socketLists[w][fd].connection
          /\ \A other \in Fds \ {fd} : socketLists'[w][other] = socketLists[w][other]
      <3>1. socketLists[w][fd] # NoItem /\ socketLists \in [Workers -> [Fds -> Item \cup {NoItem}]]
        BY <1>0, <2>3, NoItemAssumption DEF TypeOK
      <3> DEFINE item == [connection |-> socketLists[w][fd].connection, time |-> now]
      <3>2. item \in Item
        BY <1>0, <2>3 DEF Item, TypeOK
      <3>3. socketLists' = [socketLists EXCEPT ![w][fd] = item]
        BY <2>1, <3>1 DEF updateSocketL, fd
      <3>4. socketLists'[w][fd] = item
        BY <2>3, <3>1, <3>3
      <3> QED  BY <2>3, <3>1, <3>2, <3>3, <3>4, NoItemAssumption
    <2>5. \A other \in Fds :
            /\ Live(w, other)' <=> Live(w, other)
            /\ Live(w, other) => socketLists'[w][other].connection = socketLists[w][other].connection
      <3>1. \A other \in Fds : Listed(w, other)' <=> Listed(w, other)
        BY <2>3, <2>4, NoItemAssumption DEF Listed
      <3>2. \A other : ~Forgetting(w, other) /\ ~Forgetting(w, other)'
        BY <2>1, WorkerForgetting
      <3> QED  BY <2>4, <3>1, <3>2 DEF Live
    <2>6. Named(w)' \subseteq Named(w)
      BY <2>1, <2>2 DEF Named
    <2> QED  BY <1>1, <2>1, <2>5, <2>6, WorkerForgetting DEF Quiet
  <1>9. CASE postEvent(w)
    BY <1>0, <1>2, <1>9 DEF postEvent, kernel, lists, WorkerState, Named
  <1>10. CASE waitDelete(w)
    <2> DEFINE fd == First(worker[w].delete)
    <2>1. worker[w].delete \in SUBSET Nat /\ worker[w].delete # {}
      BY <1>0, <1>10, FdsAssumption DEF waitDelete, WorkerState
    <2>2. fd \in worker[w].delete
      BY <2>1, FirstIs
    <2>3. fd \in Named(w)
      BY <2>2 DEF Named
    <2>4. socketLists[w][fd] # NoItem
      BY <2>3, NamedIs DEF Live, Listed
    <2>5. /\ worker' = [worker EXCEPT ![w].fd = fd, ![w].delete = @ \ {fd}, ![w].pc = "close"]
          /\ worker[w].pc = "next" /\ UNCHANGED <<file, equeue, socketLists>>
      BY <1>10, <2>4 DEF waitDelete, kernel, lists
    <2> HIDE DEF fd
    <2> QED  BY <1>0, <1>2, <2>3, <2>5 DEF WorkerState, Named
  <1>11. ASSUME closeSocket(w)
         PROVE  Closed(w, worker[w].fd)
    <2> DEFINE fd == worker[w].fd
    <2>1. /\ worker[w].pc = "close" /\ CloseFd(w, fd) /\ UNCHANGED socketLists
          /\ worker' = [worker EXCEPT ![w].pc = "forget"]
      BY <1>11 DEF closeSocket, lists, Goto
    <2>2. fd \in Named(w)
      BY <2>1 DEF Named
    <2>3. fd \in Fds /\ Live(w, fd)
      BY <2>2, NamedIs
    <2>4. /\ worker'[w].pc = "forget" /\ worker'[w].fd = fd /\ worker'[w].events = worker[w].events
          /\ worker'[w].delete = worker[w].delete
      BY <1>0, <2>1 DEF WorkerState
    <2>5. worker[w].events = {} /\ fd \notin worker[w].delete
      BY <1>0, <2>1 DEF WorkerControl
    <2>6. Named(w)' \subseteq Named(w) /\ fd \notin Named(w)'
      BY <2>4, <2>5 DEF Named
    <2>7. \A other : Live(w, other)' <=> Live(w, other) /\ other # fd
      BY <2>1, <2>4, WorkerForgetting DEF Live, Listed
    <2> QED  BY <1>1, <2>1, <2>3, <2>6, <2>7, WorkerForgetting DEF Closed
  <1>12. ASSUME forgetSocket(w)
         PROVE  Quiet
    <2> DEFINE fd == worker[w].fd
    <2>1. /\ worker[w].pc = "forget" /\ deleteItem(w, fd) /\ UNCHANGED <<file, equeue>>
          /\ worker' = [worker EXCEPT ![w].pc = "websocket"] /\ fd \in Fds
      BY <1>0, <1>12 DEF forgetSocket, kernel, Goto, WorkerControl
    <2>2. /\ socketLists'[w][fd] = NoItem
          /\ \A other \in Fds \ {fd} : socketLists'[w][other] = socketLists[w][other]
      BY <1>0, <2>1 DEF deleteItem, TypeOK
    <2>3. worker'[w].pc = "websocket" /\ Named(w)' \subseteq Named(w)
      BY <1>0, <2>1 DEF WorkerState, Named
    <2>4. ~Live(w, fd) /\ ~Live(w, fd)'
      BY <2>1, <2>2, WorkerForgetting DEF Live, Listed
    <2>5. \A other \in Fds : Live(w, other)' <=> Live(w, other)
      <3>1. ASSUME NEW other \in Fds, other # fd
            PROVE  Live(w, other)' <=> Live(w, other)
        BY <2>1, <2>2, <2>3, <3>1, WorkerForgetting DEF Live, Listed
      <3> HIDE DEF fd
      <3>2. ASSUME NEW other \in Fds, other = fd
            PROVE  Live(w, other)' <=> Live(w, other)
        <4>1. ~Live(w, other)
          BY <2>4, <3>2
        <4>2. ~Listed(w, other)'
          BY <2>2, <3>2 DEF Listed
        <4> QED  BY <4>1, <4>2 DEF Live
      <3> QED  BY <3>1, <3>2
    <2>6. \A other \in Fds : Live(w, other) =>
            socketLists'[w][other].connection = socketLists[w][other].connection
      BY <2>2, <2>4
    <2> QED  BY <1>1, <2>1, <2>3, <2>5, <2>6, WorkerForgetting DEF Quiet
  <1>13. CASE deleteWebsocket(w)
    BY <1>0, <1>2, <1>13 DEF deleteWebsocket, kernel, lists, WorkerState, Named
  <1>14. CASE postGlobal(w)
    BY <1>0, <1>2, <1>14 DEF postGlobal, kernel, lists, Goto, WorkerState, Named
  <1> QED  BY <1>3, <1>4, <1>5, <1>6, <1>7, <1>8, <1>9, <1>10, <1>11, <1>12, <1>13, <1>14
           DEF WorkerStep, WorkerLocks, WorkerRuns, processRead

(* The worker whose list the garbage thread is in names nothing and forgets *)
(* nothing.                                                                 *)
LEMMA GcForgetting ==
    ASSUME IInv, GcStep
    PROVE  /\ gc.worker \in Workers /\ UNCHANGED <<accepted, listener>>
           /\ \A v \in Workers : Named(v)' = Named(v)
           /\ Named(gc.worker) = {}
           /\ \A fd : Forgetting(gc.worker, fd) <=> gc.pc = "forget" /\ gc.fd = fd
           /\ \A v \in Workers \ {gc.worker} : \A fd : Live(v, fd)' <=> Live(v, fd)
           /\ \A v \in Workers \ {gc.worker} : socketLists'[v] = socketLists[v]
  <1>1. TypeOK /\ ~Busy(gc.worker) /\ gc.worker \in Workers
    BY Apart DEF IInv, TypeOK
  <1>2. /\ UNCHANGED <<accepted, listener, worker>>
        /\ \A v \in Workers \ {gc.worker} : socketLists'[v] = socketLists[v]
    BY <1>1, GcFrame
  <1>3. gc'.pc = "forget" => gc'.worker = gc.worker
    BY GcSemaphores DEF GcGlobal
  <1>4. worker[gc.worker].pc = "wait" /\ Named(gc.worker) = {}
    <2>1. WorkerControl(gc.worker)
      BY <1>1 DEF IInv
    <2> QED  BY <1>1, <2>1 DEF Busy, WorkerControl, Named
  <1>5. \A v \in Workers : Named(v)' = Named(v)
    BY <1>2 DEF Named
  <1>6. \A v \in Workers \ {gc.worker} : \A fd : Live(v, fd)' <=> Live(v, fd)
    BY <1>2, <1>3 DEF Live, Listed, Forgetting
  <1> QED  BY <1>1, <1>2, <1>4, <1>5, <1>6 DEF Forgetting

(* A step of the garbage thread is quiet, or it closes a socket.            *)
LEMMA GcSockets ==
    ASSUME IInv, GcStep
    PROVE  Quiet \/ Closed(gc.worker, gc.fd)
  <1>0. TypeOK /\ GcControl /\ gc \in GcState
    BY DEF IInv, TypeOK, GcState
  <1>1. ASSUME UNCHANGED <<file, equeue, socketLists>>, gc.pc # "forget", gc'.pc # "forget"
        PROVE  Quiet
    <2>1. \A v \in Workers, fd \in Fds : Live(v, fd)' <=> Live(v, fd)
      <3>1. ASSUME NEW v \in Workers, NEW fd \in Fds
            PROVE  Live(v, fd)' <=> Live(v, fd)
        <4>1. CASE v = gc.worker
          <5>1. ~Forgetting(v, fd) /\ ~Forgetting(gc.worker, fd)
            BY <1>1, <4>1, GcForgetting
          <5>2. ~Forgetting(v, fd)'
            BY <1>0, <1>1, <4>1, <5>1, GcFrame DEF Forgetting
          <5> QED  BY <1>1, <5>1, <5>2 DEF Live, Listed
        <4>2. CASE v # gc.worker
          BY <4>2, GcForgetting
        <4> QED  BY <4>1, <4>2
      <3> QED  BY <3>1
    <2> QED  BY <1>1, <2>1, GcForgetting DEF Quiet
  <1>2. CASE gcWaitGlobal \/ gcWaitLeaf \/ gcPostLeaf \/ gcPostGlobal
    BY <1>0, <1>1, <1>2 DEF gcWaitGlobal, gcWaitLeaf, gcPostLeaf, gcPostGlobal, kernel, lists, GcState
  <1>3. CASE gcLeaf
    BY <1>0, <1>1, <1>3 DEF gcLeaf, kernel, lists, GcState
  <1>4. CASE gcItem
    BY <1>0, <1>1, <1>4 DEF gcItem, gcNext, kernel, lists, GcState
  <1>5. CASE gcDeleteWebsocket
    BY <1>0, <1>1, <1>5 DEF gcDeleteWebsocket, kernel, lists, GcState
  <1>6. ASSUME gcClose
        PROVE  Closed(gc.worker, gc.fd)
    <2>1. /\ gc.pc = "close" /\ CloseFd(gc.worker, gc.fd) /\ UNCHANGED socketLists
          /\ gc'.pc = "forget" /\ gc'.fd = gc.fd /\ gc'.worker = gc.worker
      BY <1>0, <1>6 DEF gcClose, lists, GcState
    <2>2. gc.fd \in Fds /\ Listed(gc.worker, gc.fd)
      BY <1>0, <2>1 DEF GcControl, GcState
    <2>3. Live(gc.worker, gc.fd)
      BY <2>1, <2>2, GcForgetting DEF Live
    <2>4. \A v \in Workers, other \in Fds :
            Live(v, other)' <=> Live(v, other) /\ ~(v = gc.worker /\ other = gc.fd)
      <3>1. ASSUME NEW v \in Workers, NEW other \in Fds
            PROVE  Live(v, other)' <=> Live(v, other) /\ ~(v = gc.worker /\ other = gc.fd)
        <4>1. CASE v = gc.worker
          <5>1. ~Forgetting(v, other)
            BY <2>1, <4>1, GcForgetting
          <5>2. worker'[v].pc = "forget" /\ worker'[v].fd = other => FALSE
            BY <1>0, <4>1, <5>1, GcFrame DEF Forgetting
          <5>3. Forgetting(v, other)' <=> other = gc.fd
            BY <2>1, <4>1, <5>2 DEF Forgetting
          <5>4. Listed(v, other)' <=> Listed(v, other)
            BY <2>1 DEF Listed
          <5> QED  BY <4>1, <5>1, <5>3, <5>4 DEF Live
        <4>2. CASE v # gc.worker
          BY <4>2, GcForgetting
        <4> QED  BY <4>1, <4>2
      <3> QED  BY <3>1
    <2>5. gc.fd \notin Named(gc.worker)'
      <3>1. Named(gc.worker) = {} /\ UNCHANGED worker /\ gc'.worker = gc.worker
        BY <1>0, <2>1, GcForgetting, GcFrame
      <3> QED  BY <3>1 DEF Named
    <2> QED  BY <2>1, <2>2, <2>3, <2>4, <2>5, GcForgetting DEF Closed
  <1>7. ASSUME gcForget
        PROVE  Quiet
    <2>1. /\ gc.pc = "forget" /\ deleteItem(gc.worker, gc.fd) /\ UNCHANGED <<file, equeue>>
          /\ gc'.pc = "item" /\ gc.fd \in Fds
      BY <1>0, <1>7 DEF gcForget, gcNext, kernel, GcState, GcControl
    <2>2. /\ socketLists'[gc.worker][gc.fd] = NoItem
          /\ \A fd \in Fds \ {gc.fd} : socketLists'[gc.worker][fd] = socketLists[gc.worker][fd]
          /\ gc.worker \in Workers
      BY <1>0, <2>1 DEF deleteItem, TypeOK
    <2>3. ~Live(gc.worker, gc.fd)
      BY <2>1, GcForgetting DEF Live
    <2>4. ASSUME NEW v \in Workers, NEW fd \in Fds
          PROVE  /\ Live(v, fd)' <=> Live(v, fd)
                 /\ Live(v, fd) => socketLists'[v][fd].connection = socketLists[v][fd].connection
      <3>1. CASE v # gc.worker
        BY <3>1, GcForgetting
      <3>2. CASE v = gc.worker /\ fd = gc.fd
        <4>1. ~Listed(v, fd)'
          BY <2>2, <3>2 DEF Listed
        <4> QED  BY <2>3, <3>2, <4>1 DEF Live
      <3>3. CASE v = gc.worker /\ fd # gc.fd
        <4>1. socketLists'[v][fd] = socketLists[v][fd]
          BY <2>2, <3>3
        <4>2. ~Forgetting(v, fd)
          BY <3>3, GcForgetting
        <4>3. ~Forgetting(v, fd)'
          BY <1>0, <2>1, <3>3, <4>2, GcFrame DEF Forgetting
        <4> QED  BY <4>1, <4>2, <4>3 DEF Live, Listed
      <3> QED  BY <3>1, <3>2, <3>3
    <2> QED  BY <2>1, <2>4, GcForgetting DEF Quiet
  <1> QED  BY <1>2, <1>3, <1>4, <1>5, <1>6, <1>7 DEF GcStep, GcLocks, GcRuns

(* A step preserves the invariant of the sockets.                           *)
LEMMA SocketsStep ==
    ASSUME IInv, [Next]_vars
    PROVE  Sockets'
  <1>1. ASSUME NEW w \in Workers, WorkerStep(w)
        PROVE  Sockets'
    BY <1>1, WorkerSockets, QuietStep, ClosedStep
  <1>2. CASE GcStep
    <2>1. gc.worker \in Workers
      BY DEF IInv, TypeOK
    <2> QED  BY <1>2, <2>1, GcSockets, QuietStep, ClosedStep
  <1>3. CASE ListenerStep
    BY <1>3, AcceptStep, AcceptUpdateStep, AddStep DEF ListenerStep, Listen
  <1>4. CASE UNCHANGED <<file, accepted, equeue, socketLists, listener, worker, gc>>
    <2>1. Quiet
      BY <1>4 DEF Quiet, Live, Listed, Forgetting, Named
    <2> QED  BY <2>1, QuietStep
  <1> QED  BY <1>1, <1>2, <1>3, <1>4
           DEF Next, WorkerStep, GcStep, ListenerStep, Tick, Input, vars, kernel, lists

-----------------------------------------------------------------------------
(* The theorems *)

(* The invariant holds in every reachable state. *)
THEOREM Invariance == Spec => []IInv
  <1>1. Init => IInv
    BY IInvInit
  <1>2. ASSUME IInv, [Next]_vars
        PROVE  IInv'
    BY <1>2, ExclusionStep, TypeStep, ControlStep, SocketsStep DEF IInv
  <1> QED  BY <1>1, <1>2, PTL DEF Spec

(* Every variable keeps its type: in particular a semaphore of a list or of *)
(* a leaf is never posted above 1.                                          *)
THEOREM TypeCorrect == Spec => []TypeOK
  <1>1. IInv => TypeOK
    BY DEF IInv
  <1> QED  BY <1>1, Invariance, PTL

(* The semaphores exclude (thread_client_tcp.c:490-495, socket_garbage.c):  *)
(* a worker between two waits and the garbage thread are never in the same  *)
(* list, and whoever works on an item holds its leaf.                       *)
THEOREM ExclusionCorrect == Spec => []Exclusion
  <1>1. IInv => Exclusion
    BY DEF IInv
  <1> QED  BY <1>1, Invariance, PTL

(* A worker finds the socket of every event it took and of every socket it  *)
(* is going to delete: "socketItem not found" (thread_client_tcp.c:474) and *)
(* "socketData not found" (socket_garbage.c:37) are never reached.          *)
THEOREM EventsCorrect == Spec => []EventsNameListedSockets
  <1>1. IInv => EventsNameListedSockets
    <2>1. ASSUME IInv, NEW w \in Workers, NEW fd \in worker[w].events \cup worker[w].delete
          PROVE  /\ socketLists[w][fd] # NoItem
                 /\ file[fd] = socketLists[w][fd].connection
                 /\ file[fd] \in equeue[w]
      <3>1. fd \in Named(w)
        BY DEF Named
      <3>2. fd \in Fds /\ Live(w, fd) /\ file[fd] \in equeue[w]
        BY <2>1, <3>1, NamedIs DEF IInv, Sockets, NamedLive
      <3> QED  BY <2>1, <3>2 DEF IInv, Sockets, LiveOpen, Live, Listed
    <2> QED  BY <2>1 DEF EventsNameListedSockets
  <1> QED  BY <1>1, Invariance, PTL

(* A listed socket whose leaf is free is open for the connection it was     *)
(* listed for: nobody closes the descriptor of a later connection.          *)
THEOREM ListedCorrect == Spec => []ListedSocketsOpen
  <1>1. IInv => ListedSocketsOpen
    <2>1. ASSUME IInv, NEW w \in Workers, NEW fd \in Fds,
                 leaf[w][LeafOf[fd]] = 1, socketLists[w][fd] # NoItem
          PROVE  file[fd] = socketLists[w][fd].connection
      <3>1. ~(worker[w].pc = "forget" /\ worker[w].fd = fd)
        BY <2>1 DEF IInv, Exclusion, Holds
      <3>2. ASSUME gc.pc = "forget", gc.worker = w, gc.fd = fd
            PROVE  FALSE
        <4>1. leaf[w][gc.leaf] = 0
          BY <2>1, <3>2 DEF IInv, Exclusion, GcBusy, GcHolds
        <4>2. gc.leaf = LeafOf[fd]
          BY <2>1, <3>2 DEF IInv, GcControl
        <4> QED  BY <2>1, <4>1, <4>2
      <3>3. Live(w, fd)
        BY <2>1, <3>1, <3>2 DEF Live, Listed, Forgetting
      <3> QED  BY <2>1, <3>3 DEF IInv, Sockets, LiveOpen
    <2> QED  BY <2>1 DEF ListedSocketsOpen
  <1> QED  BY <1>1, Invariance, PTL

(* No descriptor leaks: an open connection is in the list of a worker, or   *)
(* the listener is about to put it there.                                   *)
THEOREM OpenCorrect == Spec => []OpenSocketsListed
  <1>1. IInv => OpenSocketsListed
    BY DEF IInv, Sockets, OpenLive, LiveOpen, Live, Listed, OpenSocketsListed
  <1> QED  BY <1>1, Invariance, PTL

(* The semaphores of the lists and of the leaves are taken just while a     *)
(* thread is between its wait and its post.                                 *)
GlobalHeld == \A w \in Workers : global[w] = 0 <=> Busy(w) \/ GcBusy(w)
LeafHeld(w, l) ==
    \/ Holds(w) /\ LeafOf[worker[w].fd] = l
    \/ GcBusy(w) /\ GcHolds /\ gc.leaf = l
LeavesHeld == \A w \in Workers, l \in Leaves : leaf[w][l] = 0 <=> LeafHeld(w, l)

(* A step preserves that a taken semaphore has a holder. *)
LEMMA HeldStep ==
    ASSUME IInv, IInv', GlobalHeld, LeavesHeld, [Next]_vars
    PROVE  GlobalHeld' /\ LeavesHeld'
  <1>0. /\ TypeOK /\ TypeOK' /\ Exclusion /\ Exclusion'
        /\ LeafOf \in [Fds -> Leaves]
    BY FdsAssumption DEF IInv
  <1> SUFFICES ASSUME NEW v \in Workers
               PROVE  /\ global'[v] = 0 => Busy(v)' \/ GcBusy(v)'
                      /\ \A l \in Leaves : leaf'[v][l] = 0 => LeafHeld(v, l)'
    <2>1. \A w \in Workers : Busy(w)' \/ GcBusy(w)' => global'[w] = 0
      BY <1>0 DEF Exclusion
    <2>2. \A w \in Workers, k \in Leaves : LeafHeld(w, k)' => leaf'[w][k] = 0
      BY <1>0 DEF Exclusion, LeafHeld
    <2> QED  BY <2>1, <2>2 DEF GlobalHeld, LeavesHeld
  <1>1. /\ global[v] = 0 => Busy(v) \/ GcBusy(v)
        /\ \A l \in Leaves : leaf[v][l] = 0 => LeafHeld(v, l)
    BY DEF GlobalHeld, LeavesHeld
  <1>2. ASSUME NEW w \in Workers, WorkerStep(w)
        PROVE  /\ global'[v] = 0 => Busy(v)' \/ GcBusy(v)'
               /\ \A l \in Leaves : leaf'[v][l] = 0 => LeafHeld(v, l)'
    <2>1. /\ gc' = gc /\ (GcHolds' <=> GcHolds) /\ (GcBusy(v)' <=> GcBusy(v))
          /\ v # w => /\ (Busy(v)' <=> Busy(v)) /\ (Holds(v)' <=> Holds(v))
                      /\ worker'[v] = worker[v] /\ global'[v] = global[v] /\ leaf'[v] = leaf[v]
      BY <1>0, <1>2, WorkerFrame DEF Busy, Holds, GcBusy, GcHolds
    <2>2. CASE v # w
      BY <1>1, <2>1, <2>2 DEF LeafHeld
    <2>3. CASE v = w
      <3>1. WorkerGlobal(w) /\ WorkerLeaf(w) /\ ~GcBusy(w)
        BY <1>2, WorkerSemaphores, Apart
      <3>2. Holds(w) => worker[w].fd \in Fds /\ leaf[w][LeafOf[worker[w].fd]] = 0
        BY <1>0 DEF Exclusion
      <3>3. global'[w] = 0 => Busy(w)'
        <4>1. global \in [Workers -> {0, 1}] /\ (Busy(w) => global[w] = 0)
          BY <1>0 DEF TypeOK, Exclusion
        <4> QED  BY <3>1, <4>1 DEF WorkerGlobal
      <3>4. leaf \in [Workers -> [Leaves -> {0, 1}]]
        BY <1>0 DEF TypeOK
      <3>5. ASSUME NEW l \in Leaves, leaf'[w][l] = 0
            PROVE  Holds(w)' /\ LeafOf[worker'[w].fd] = l
        <4>1. leaf[w][l] = 0 => Holds(w) /\ LeafOf[worker[w].fd] = l
          BY <1>1, <2>3, <3>1 DEF LeafHeld
        <4>2. CASE /\ UNCHANGED leaf
                   /\ (Holds(w)' <=> Holds(w)) /\ (Holds(w) => worker'[w].fd = worker[w].fd)
          BY <3>5, <4>1, <4>2
        <4>3. CASE /\ worker'[w].fd \in Fds /\ Holds(w)' /\ ~Holds(w)
                   /\ leaf' = [leaf EXCEPT ![w][LeafOf[worker'[w].fd]] = 0]
          BY <1>0, <3>4, <3>5, <4>1, <4>3
        <4>4. CASE Holds(w) /\ ~Holds(w)' /\ leaf' = [leaf EXCEPT ![w][LeafOf[worker[w].fd]] = @ + 1]
          BY <1>0, <3>2, <3>4, <3>5, <4>1, <4>4
        <4> QED  BY <3>1, <4>2, <4>3, <4>4 DEF WorkerLeaf
      <3> QED  BY <2>3, <3>3, <3>5 DEF LeafHeld
    <2> QED  BY <2>2, <2>3
  <1>3. ASSUME GcStep
        PROVE  /\ global'[v] = 0 => Busy(v)' \/ GcBusy(v)'
               /\ \A l \in Leaves : leaf'[v][l] = 0 => LeafHeld(v, l)'
    <2>1. /\ (Busy(v)' <=> Busy(v)) /\ (Holds(v)' <=> Holds(v)) /\ worker'[v] = worker[v]
          /\ v # gc.worker => global'[v] = global[v] /\ leaf'[v] = leaf[v]
          /\ ~Busy(gc.worker) /\ ~Holds(gc.worker) /\ gc.worker \in Workers
      BY <1>0, <1>3, GcFrame, Apart DEF Busy, Holds, TypeOK
    <2>2. GcGlobal /\ GcLeaf
      BY <1>3, GcSemaphores
    <2>3. CASE v # gc.worker
      BY <1>1, <2>1, <2>3 DEF LeafHeld, GcBusy
    <2>4. CASE v = gc.worker
      <3>1. global \in [Workers -> {0, 1}] /\ leaf \in [Workers -> [Leaves -> {0, 1}]]
        BY <1>0 DEF TypeOK
      <3>2. global'[v] = 0 => GcBusy(v)'
        <4>1. gc.pc = "post" => global[v] = 0
          BY <1>0, <2>4 DEF Exclusion, GcBusy
        <4> QED  BY <2>1, <2>2, <2>4, <3>1, <4>1 DEF GcGlobal, GcBusy
      <3>3. GcHolds => gc.leaf \in Leaves /\ leaf[v][gc.leaf] = 0
        BY <1>0, <2>4 DEF Exclusion, GcHolds, GcBusy
      <3>4. GcHolds' => GcBusy(v)'
        BY <2>2, <2>4 DEF GcGlobal, GcHolds, GcBusy
      <3>5. ASSUME NEW l \in Leaves, leaf'[v][l] = 0
            PROVE  GcHolds' /\ gc'.leaf = l
        <4>1. leaf[v][l] = 0 => GcHolds /\ gc.leaf = l
          BY <1>1, <2>1, <2>4 DEF LeafHeld
        <4>2. CASE UNCHANGED leaf /\ (GcHolds' <=> GcHolds) /\ (GcHolds => gc'.leaf = gc.leaf)
          BY <3>5, <4>1, <4>2
        <4>3. CASE /\ gc.leaf \in Leaves /\ gc'.leaf = gc.leaf /\ GcHolds' /\ ~GcHolds
                   /\ leaf' = [leaf EXCEPT ![gc.worker][gc.leaf] = 0]
          BY <2>4, <3>1, <3>5, <4>1, <4>3
        <4>4. CASE GcHolds /\ ~GcHolds' /\ leaf' = [leaf EXCEPT ![gc.worker][gc.leaf] = @ + 1]
          BY <2>4, <3>1, <3>3, <3>5, <4>1, <4>4
        <4> QED  BY <2>2, <4>2, <4>3, <4>4 DEF GcLeaf
      <3> QED  BY <3>2, <3>4, <3>5 DEF LeafHeld
    <2> QED  BY <2>3, <2>4
  <1>4. CASE UNCHANGED <<semaphores, worker, gc>>
    BY <1>1, <1>4 DEF LeafHeld, Busy, GcBusy, Holds, GcHolds, semaphores
  <1> QED  BY <1>2, <1>3, <1>4, ListenerFrame
           DEF Next, WorkerStep, GcStep, ListenerStep, Tick, Input, vars

(* No semaphore is lost: that of a list is taken just while its worker or   *)
(* the garbage thread is in the list, that of a leaf just while one of them *)
(* has a socket of the leaf in hand.                                        *)
THEOREM SemaphoresCorrect == Spec => [](GlobalHeld /\ LeavesHeld)
  <1>1. Init => GlobalHeld /\ LeavesHeld
    BY DEF Init, GlobalHeld, LeavesHeld, LeafHeld, Busy, GcBusy, Holds, GcHolds
  <1>2. IInv /\ IInv' /\ GlobalHeld /\ LeavesHeld /\ [Next]_vars => GlobalHeld' /\ LeavesHeld'
    BY HeldStep
  <1> QED  BY <1>1, <1>2, Invariance, PTL DEF Spec

(* The semaphores of two levels do not deadlock: a thread that waits for a  *)
(* leaf has the semaphore of the list, and then nobody holds a leaf of it   *)
(* (the listener takes one for its update only and waits for no other).     *)
LeavesFree ==
    \A w \in Workers :
        worker[w].pc = "next" \/ (gc.worker = w /\ gc.pc = "waitLeaf") =>
            \A l \in Leaves : leaf[w][l] = 1

(* In the list of a worker, only one of the worker and the garbage thread   *)
(* moves, so neither ever finds a leaf taken by the other.                  *)
THEOREM NobodyWaitsInside == Spec => []LeavesFree
  <1>1. IInv /\ LeavesHeld => LeavesFree
    <2>1. ASSUME IInv, LeavesHeld, NEW w \in Workers, NEW l \in Leaves,
                 worker[w].pc = "next" \/ (gc.worker = w /\ gc.pc = "waitLeaf")
          PROVE  leaf[w][l] = 1
      <3>1. ~LeafHeld(w, l)
        BY <2>1 DEF IInv, Exclusion, LeafHeld, Busy, GcBusy, Holds, GcHolds
      <3>2. leaf[w][l] \in {0, 1}
        BY <2>1 DEF IInv, TypeOK
      <3> QED  BY <2>1, <3>1, <3>2 DEF LeavesHeld
    <2> QED  BY <2>1 DEF LeavesFree
  <1> QED  BY <1>1, Invariance, SemaphoresCorrect, PTL
=============================================================================
