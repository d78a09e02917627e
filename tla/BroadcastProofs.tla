-------------------------- MODULE BroadcastProofs --------------------------
(***************************************************************************)
(* Theorems about Broadcast, for any number of workers, descriptors and    *)
(* requests and any sizes of messages and buffers: frames do not mix, and  *)
(* an entry of the list of websockets names a connection that asked for    *)
(* it, or one whose worker is about to delete the entry.                   *)
(***************************************************************************)
EXTENDS Broadcast, FiniteSetTheorems, WellFoundedInduction, TLAPS

-----------------------------------------------------------------------------
(* The descriptors and sizes. *)

(* The lowest of some descriptors is one of them. *)
LEMMA LowestIs ==
    ASSUME NEW S \in SUBSET Fds, S # {}
    PROVE  Min(S) \in S
  <1>1. S \in SUBSET Nat
    BY BroadcastAssumption
  <1>2. PICK x \in S : \A y \in S : <<y, x>> \notin OpToRel(<, Nat)
    BY <1>1, NatLessThanWellFounded, WFMin
  <1>3. \A y \in S : ~(y < x)
    BY <1>1, <1>2 DEF OpToRel
  <1>4. \A y \in S : x <= y
    BY <1>1, <1>3
  <1> QED BY <1>4 DEF Min

(* A message is not longer than the longer of the two kinds. *)
LEMMA LongestIs ==
    /\ Max({ReplySize, FrameSize}) \in Nat
    /\ ReplySize <= Max({ReplySize, FrameSize}) /\ FrameSize <= Max({ReplySize, FrameSize})
  <1>1. ReplySize \in Nat /\ FrameSize \in Nat
    BY BroadcastAssumption
  <1>2. \E x \in {ReplySize, FrameSize} : \A y \in {ReplySize, FrameSize} : x >= y
    BY <1>1
  <1> QED BY <1>1, <1>2 DEF Max

-----------------------------------------------------------------------------
(* The inductive invariant. *)

Pcs == {"idle", "broadcast", "waitLeaf", "nextFrame", "sendFrame", "setWebsocket", "sendReply",
        "close", "deleteWebsocket", "sendTimeout", "gcDeleteWebsocket", "gcClose"}
UdpPcs == {"idle", "broadcast", "waitLeaf", "nextFrame", "sendFrame"}

Control ==
    /\ pc \in [Threads -> Pcs]
    /\ \A u \in UdpWorkers : pc[u] \in UdpPcs

(* The semaphore of the websockets is held across the walk of broadcast.     *)
Holding == \A t \in Threads : leaf = t <=> pc[t] \in {"nextFrame", "sendFrame"}

(* A frame goes to a descriptor of the list.                                 *)
Aiming == \A t \in Threads : pc[t] = "sendFrame" => To(t) \in Fds

(* From the request, or the timeout, until the close a connection belongs to *)
(* one worker.                                                               *)
Owning ==
    \A w \in TcpWorkers : pc[w] \notin {"idle", "deleteWebsocket"} =>
        job[w].fd \in open /\ owner[job[w].fd] = w

(* The timeout thread closes what it has deleted from the websockets.        *)
EntryDeleted == \A w \in TcpWorkers : pc[w] = "gcClose" => job[w].fd \notin websockets

IInv ==
    /\ TypeOK /\ Control /\ Holding /\ Aiming /\ Owning /\ EntryDeleted
    /\ FramesInOrder /\ EntriesAccountedFor

Step(t) == Arrive(t) \/ Locks(t) \/ Runs(t)

(* The initial state satisfies it. *)
LEMMA IInvInit ==
    ASSUME Init
    PROVE  IInv
  <1> USE DEF Init
  <1>1. TypeOK
    <2>1. /\ NoJob \in Job /\ NoSend \in Send
          /\ BufferSize \in 0..BufferSize /\ 0 \in 0..MaxRequests
      BY BroadcastAssumption, LongestIs DEF NoJob, Job, NoSend, Send
    <2> QED BY <2>1 DEF TypeOK
  <1>2. Control /\ Holding /\ Aiming /\ Owning /\ EntryDeleted
    BY BroadcastAssumption DEF Control, Holding, Aiming, Owning, EntryDeleted, Pcs, UdpPcs, Threads
  <1>3. FramesInOrder /\ EntriesAccountedFor
    BY DEF FramesInOrder, EntriesAccountedFor
  <1> QED BY <1>1, <1>2, <1>3 DEF IInv

-----------------------------------------------------------------------------
(* What a step leaves alone, and where its thread goes. *)

(* A thread's step changes nothing of the locals of another thread. *)
LEMMA ThreadFrame ==
    ASSUME TypeOK, Control, NEW t \in Threads, Step(t)
    PROVE  /\ \A u \in Threads \ {t} :
                pc'[u] = pc[u] /\ job'[u] = job[u] /\ send'[u] = send[u] /\ todo'[u] = todo[u]
           /\ owner' = owner
  <1> USE DEF TypeOK, Control
  <1>1. CASE Arrive(t)
    BY <1>1 DEF Arrive, announceUdp, announce, otherRequest, oversize, upgrade, hungUp, timeout, Request,
                StartSend, net
  <1>2. CASE Locks(t)
    BY <1>2 DEF Locks, setWebsocket, waitLeaf, deleteWebsocket, gcDeleteWebsocket, DeleteWebsocket,
                Goto, StartSend, net
  <1>3. CASE send_(t)
    BY <1>3 DEF send_, sendPart, sendRest, sendAgain, sendSkip, sendOnce, sendFailed, Return, Goto, net
  <1>4. CASE broadcast(t) \/ broadcastCallback(t) \/ postLeaf(t)
    BY <1>4 DEF broadcast, broadcastCallback, postLeaf, AfterBroadcast, Goto, StartSend, net
  <1>5. CASE deleteSocket(t) \/ gcClose(t)
    BY <1>5 DEF deleteSocket, gcClose, Close, Goto
  <1> QED BY <1>1, <1>2, <1>3, <1>4, <1>5 DEF Step, Runs

-----------------------------------------------------------------------------
(* The steps preserve the invariant, part by part. *)

(* The client's steps touch no thread and no list. *)
LEMMA ClientFrame ==
    ASSUME Client
    PROVE  /\ UNCHANGED <<pc, job, todo, send, websockets, leaf, requests, upgraded, framePart>>
           /\ open \subseteq open'
           /\ \A f \in open : owner'[f] = owner[f] \/ owner' = owner \/ \E g \in Fds \ open, w \in TcpWorkers :
                 owner' = [owner EXCEPT ![g] = w]
  BY DEF Client, accept, clientReads, clientHangsUp, buffers, net

(* A thread goes from one of its states to another. *)
LEMMA ControlStep ==
    ASSUME TypeOK, Control, [Next]_vars
    PROVE  Control'
  <1> USE DEF Control, Pcs, UdpPcs
  <1>1. ASSUME NEW t \in Threads, Step(t)
        PROVE  /\ pc' = [pc EXCEPT ![t] = pc'[t]] /\ pc'[t] \in Pcs
               /\ t \in UdpWorkers => pc'[t] \in UdpPcs
    <2> USE BroadcastAssumption DEF Threads
    <2>1. CASE Arrive(t)
      BY <2>1 DEF Arrive, announceUdp, announce, otherRequest, oversize, upgrade, hungUp, timeout, Request
    <2>2. CASE Locks(t)
      BY <2>2 DEF Locks, setWebsocket, waitLeaf, deleteWebsocket, gcDeleteWebsocket, DeleteWebsocket, Goto
    <2>3. CASE send_(t)
      BY <2>3 DEF send_, sendPart, sendRest, sendAgain, sendSkip, sendOnce, sendFailed, Return, Goto,
                  Sending, Full
    <2>4. CASE broadcast(t) \/ broadcastCallback(t) \/ postLeaf(t)
      BY <2>4 DEF broadcast, broadcastCallback, postLeaf, AfterBroadcast, Goto
    <2>5. CASE deleteSocket(t) \/ gcClose(t)
      BY <2>5 DEF deleteSocket, gcClose, Close, Goto
    <2> QED BY <1>1, <2>1, <2>2, <2>3, <2>4, <2>5 DEF Step, Runs
  <1>2. CASE Client \/ UNCHANGED vars
    BY <1>2, ClientFrame DEF vars
  <1>3. CASE \E t \in Threads : Step(t)
    <2>1. PICK t \in Threads : Step(t)
      BY <1>3
    <2>2. pc' = [pc EXCEPT ![t] = pc'[t]] /\ pc'[t] \in Pcs /\ (t \in UdpWorkers => pc'[t] \in UdpPcs)
      BY <1>1, <2>1
    <2> QED BY <2>2 DEF Threads
  <1> QED BY <1>2, <1>3 DEF Next, Step

(* Whoever walks the websockets holds their semaphore, alone. *)
LEMMA HoldingStep ==
    ASSUME TypeOK, Control, Holding, [Next]_vars
    PROVE  Holding'
  <1> USE DEF Control
  <1>1. ASSUME NEW t \in Threads, Step(t)
        PROVE  Holding'
    <2>1. Free \notin Threads /\ pc \in [Threads -> Pcs]
      BY BroadcastAssumption DEF Threads
    <2>2. \A u \in Threads \ {t} : pc'[u] = pc[u]
      BY <1>1, ThreadFrame
    <2>3. \/ leaf' = leaf /\ (pc[t] \in {"nextFrame", "sendFrame"} <=> pc'[t] \in {"nextFrame", "sendFrame"})
          \/ leaf = Free /\ leaf' = t /\ pc'[t] \in {"nextFrame", "sendFrame"}
          \/ leaf' = Free /\ pc[t] \in {"nextFrame", "sendFrame"} /\ pc'[t] \notin {"nextFrame", "sendFrame"}
      <3>1. CASE Arrive(t)
        BY <2>1, <3>1 DEF Arrive, announceUdp, announce, otherRequest, oversize, upgrade, hungUp, timeout, Request
      <3>2. CASE Locks(t)
        BY <2>1, <3>2 DEF Locks, setWebsocket, waitLeaf, deleteWebsocket, gcDeleteWebsocket,
                          DeleteWebsocket, Goto
      <3>3. CASE send_(t)
        BY <2>1, <3>3 DEF send_, sendPart, sendRest, sendAgain, sendSkip, sendOnce, sendFailed, Return,
                          Goto, Sending, Full
      <3>4. CASE broadcast(t) \/ broadcastCallback(t) \/ postLeaf(t)
        BY <2>1, <3>4 DEF broadcast, broadcastCallback, postLeaf, AfterBroadcast, Goto
      <3>5. CASE deleteSocket(t) \/ gcClose(t)
        BY <2>1, <3>5 DEF deleteSocket, gcClose, Close, Goto
      <3> QED BY <1>1, <3>1, <3>2, <3>3, <3>4, <3>5 DEF Step, Runs
    <2> QED BY <2>1, <2>2, <2>3 DEF Holding
  <1>2. CASE Client \/ UNCHANGED vars
    BY <1>2, ClientFrame DEF vars, Holding
  <1> QED BY <1>1, <1>2 DEF Next, Step

(* broadcastCallback aims at a descriptor of the list. *)
LEMMA AimingStep ==
    ASSUME TypeOK, Control, Aiming, [Next]_vars
    PROVE  Aiming'
  <1> SUFFICES ASSUME NEW t \in Threads, pc'[t] = "sendFrame"
               PROVE  send'[t].fd \in Fds
    BY DEF Aiming, To
  <1> USE DEF Control
  <1>1. CASE Step(t)
    <2>1. CASE Arrive(t) \/ Locks(t) \/ broadcast(t) \/ postLeaf(t) \/ deleteSocket(t) \/ gcClose(t)
      BY <2>1 DEF Arrive, announceUdp, announce, otherRequest, oversize, upgrade, hungUp, timeout, Request,
                  Locks, setWebsocket, waitLeaf, deleteWebsocket, gcDeleteWebsocket, DeleteWebsocket,
                  broadcast, postLeaf, AfterBroadcast, deleteSocket, gcClose, Close, Goto
    <2>2. CASE broadcastCallback(t)
      <3>1. todo[t] \in SUBSET Fds /\ todo[t] # {}
        BY <2>2 DEF broadcastCallback, TypeOK
      <3>2. Min(todo[t]) \in todo[t]
        BY <3>1, LowestIs
      <3>3. send'[t].fd = Min(todo[t])
        BY <2>2 DEF broadcastCallback, StartSend, TypeOK
      <3> QED BY <3>1, <3>2, <3>3
    <2>3. CASE sendRest(t) \/ sendSkip(t) \/ sendOnce(t) \/ sendFailed(t)
      BY <2>3 DEF sendRest, sendSkip, sendOnce, sendFailed, Return, Goto, Sending, Full
    <2>4. CASE sendPart(t) \/ sendAgain(t)
      BY <2>4 DEF sendPart, sendAgain, TypeOK, Send, Aiming, To
    <2> QED BY <1>1, <2>1, <2>2, <2>3, <2>4 DEF Step, Runs, send_
  <1>2. ASSUME NEW u \in Threads, Step(u), u # t
        PROVE  send'[t].fd \in Fds
    BY <1>2, ThreadFrame DEF Aiming, To
  <1>3. CASE Client \/ UNCHANGED vars
    BY <1>3, ClientFrame DEF vars, Aiming, To
  <1> QED BY <1>1, <1>2, <1>3 DEF Next, Step

(* A frame under way is the last one of its connection. *)
LEMMA FramesStep ==
    ASSUME TypeOK, Control, Holding, Aiming, FramesInOrder, [Next]_vars
    PROVE  FramesInOrder'
  <1> SUFFICES ASSUME NEW t \in Threads, pc'[t] = "sendFrame", Midway(t)'
               PROVE  framePart'[send'[t].fd] \in {Nothing, job'[t].request}
    BY DEF FramesInOrder, To
  <1> USE DEF Control
  <1>1. CASE Step(t)
    <2>1. send'[t].left # FrameSize
      BY BroadcastAssumption DEF Midway, Size
    <2>2. CASE Arrive(t) \/ Locks(t)
      BY <2>2 DEF Arrive, announceUdp, announce, otherRequest, oversize, upgrade, hungUp, timeout, Request,
                  Locks, setWebsocket, waitLeaf, deleteWebsocket, gcDeleteWebsocket,
                  DeleteWebsocket, Goto
    <2>3. CASE sendRest(t) \/ sendSkip(t) \/ sendOnce(t) \/ sendFailed(t)
      BY <2>3 DEF sendRest, sendSkip, sendOnce, sendFailed, Return, Goto, Sending, Full
    <2>4. CASE sendPart(t)
      <3>1. /\ To(t) \in Fds /\ job'[t] = job[t] /\ send'[t].fd = send[t].fd
            /\ framePart' = [framePart EXCEPT ![To(t)] = job[t].request]
        BY <2>4 DEF sendPart, Written, PartAfter, TypeOK, Send
      <3> QED BY <3>1 DEF TypeOK, To
    <2>5. CASE sendAgain(t)
      <3>1. /\ job' = job /\ framePart' = framePart /\ pc' = pc
            /\ send'[t].fd = send[t].fd /\ send'[t].left = send[t].left
        BY <2>5 DEF sendAgain, TypeOK, Send, buffers
      <3> QED BY <3>1 DEF FramesInOrder, Midway, Size, Sending, To
    <2>6. CASE broadcastCallback(t)
      BY <2>1, <2>6 DEF broadcastCallback, StartSend, TypeOK
    <2>7. CASE broadcast(t) \/ postLeaf(t)
      BY <2>7 DEF broadcast, postLeaf, AfterBroadcast, Goto
    <2>8. CASE deleteSocket(t) \/ gcClose(t)
      BY <2>8 DEF deleteSocket, gcClose, Close, Goto
    <2> QED BY <1>1, <2>2, <2>3, <2>4, <2>5, <2>6, <2>7, <2>8 DEF Step, Runs, send_
  <1>2. ASSUME NEW u \in Threads, Step(u), u # t
        PROVE  framePart'[send'[t].fd] \in {Nothing, job'[t].request}
    <2>1. pc'[t] = pc[t] /\ job'[t] = job[t] /\ send'[t] = send[t]
      BY <1>2, ThreadFrame
    <2>2. framePart[To(t)] \in {Nothing, job[t].request}
      BY <2>1 DEF FramesInOrder, Midway, Size, Sending, To
    <2>3. leaf = t /\ pc[u] # "sendFrame"
      BY <1>2, <2>1 DEF Holding
    <2>4. \/ framePart' = framePart
          \/ \E f : framePart' = [framePart EXCEPT ![f] = Nothing]
      <3>1. CASE Arrive(u)
        BY <3>1 DEF Arrive, announceUdp, announce, otherRequest, oversize, upgrade, hungUp, timeout, buffers
      <3>2. CASE Locks(u)
        BY <3>2 DEF Locks, setWebsocket, waitLeaf, deleteWebsocket, gcDeleteWebsocket,
                    DeleteWebsocket, buffers
      <3>3. CASE send_(u)
        BY <2>3, <3>3 DEF send_, sendPart, sendRest, sendAgain, sendSkip, sendOnce, sendFailed,
                          Written, buffers
      <3>4. CASE broadcast(u) \/ broadcastCallback(u) \/ postLeaf(u)
        BY <3>4 DEF broadcast, broadcastCallback, postLeaf, buffers
      <3>5. CASE deleteSocket(u) \/ gcClose(u)
        BY <3>5 DEF deleteSocket, gcClose, Close
      <3> QED BY <1>2, <3>1, <3>2, <3>3, <3>4, <3>5 DEF Step, Runs
    <2>5. To(t) \in Fds /\ framePart = [f \in Fds |-> framePart[f]]
      BY <2>1 DEF Aiming, TypeOK
    <2> QED BY <2>1, <2>2, <2>4, <2>5 DEF To
  <1>3. CASE Client \/ UNCHANGED vars
    <2>1. UNCHANGED <<pc, job, send, framePart>>
      BY <1>3, ClientFrame DEF vars
    <2> QED BY <2>1 DEF FramesInOrder, Midway, Size, Sending, To
  <1> QED BY <1>1, <1>2, <1>3 DEF Next, Step

-----------------------------------------------------------------------------
(* The list of websockets. *)

(* What a thread does to the connections and to the list of websockets. *)
LEMMA ListsEffect ==
    ASSUME TypeOK, Control, NEW t \in Threads, Step(t)
    PROVE  \/ /\ pc[t] \notin {"setWebsocket", "deleteWebsocket", "gcDeleteWebsocket", "close", "gcClose"}
              /\ pc'[t] \notin {"deleteWebsocket", "gcClose"}
              /\ UNCHANGED <<open, gone, upgraded, websockets>>
           \/ /\ pc[t] = "setWebsocket" /\ pc'[t] = "sendReply" /\ UNCHANGED <<open, gone>>
              /\ websockets' = websockets \cup {job[t].fd}
              /\ upgraded' = upgraded \cup {job[t].fd}
           \/ /\ \/ pc[t] = "deleteWebsocket" /\ pc'[t] = "idle"
                 \/ pc[t] = "gcDeleteWebsocket" /\ pc'[t] = "gcClose"
              /\ UNCHANGED <<open, gone, upgraded>>
              /\ websockets' = websockets \ {job[t].fd}
           \/ /\ \/ pc[t] = "close" /\ pc'[t] = "deleteWebsocket"
                 \/ pc[t] = "gcClose" /\ pc'[t] = "idle"
              /\ open' = open \ {job[t].fd} /\ gone' = gone \ {job[t].fd}
              /\ upgraded' = upgraded \ {job[t].fd}
              /\ UNCHANGED websockets
  <1> USE DEF Control
  <1>1. CASE Arrive(t)
    BY <1>1 DEF Arrive, announceUdp, announce, otherRequest, oversize, upgrade, hungUp, timeout, Request, net
  <1>2. CASE setWebsocket(t)
    BY <1>2 DEF setWebsocket
  <1>3. CASE waitLeaf(t) \/ deleteWebsocket(t) \/ gcDeleteWebsocket(t)
    BY <1>3 DEF waitLeaf, deleteWebsocket, gcDeleteWebsocket, DeleteWebsocket, Goto, net
  <1>4. CASE send_(t)
    BY <1>4 DEF send_, sendPart, sendRest, sendAgain, sendSkip, sendOnce, sendFailed, Return, Goto,
                Sending, Full, net
  <1>5. CASE broadcast(t) \/ broadcastCallback(t) \/ postLeaf(t)
    BY <1>5 DEF broadcast, broadcastCallback, postLeaf, AfterBroadcast, Goto, net
  <1>6. CASE deleteSocket(t) \/ gcClose(t)
    BY <1>6 DEF deleteSocket, gcClose, Close, Goto
  <1> QED BY <1>1, <1>2, <1>3, <1>4, <1>5, <1>6 DEF Step, Runs, Locks

(* A busy thread goes on with the job it has; an idle one takes a connection *)
(* of its own list.                                                          *)
LEMMA JobEffect ==
    ASSUME TypeOK, Control, NEW w \in TcpWorkers, Step(w), pc'[w] # "idle"
    PROVE  \/ pc[w] # "idle" /\ job'[w] = job[w]
           \/ pc[w] = "idle" /\ job'[w].fd \in open /\ owner[job'[w].fd] = w
  <1> USE BroadcastAssumption DEF Control, Threads
  <1>1. CASE Arrive(w)
    <2>1. CASE \E f \in Fds : announce(w, f) \/ otherRequest(w, f) \/ upgrade(w, f)
      <3>1. PICK f \in Fds, keep \in BOOLEAN, next \in Pcs : Readable(w, f) /\ Request(w, f, keep, next)
        BY <2>1 DEF announce, otherRequest, upgrade, Pcs
      <3> QED BY <3>1 DEF Readable, Request, TypeOK
    <2>2. CASE \E f \in Fds : hungUp(w, f)
      BY <2>2 DEF hungUp, NoJob, TypeOK
    <2>3. CASE \E f \in Fds : oversize(w, f) \/ timeout(w, f)
      BY <2>3 DEF oversize, timeout, Request, NoJob, TypeOK
    <2> QED BY <1>1, <2>1, <2>2, <2>3 DEF Arrive
  <1>2. CASE Locks(w)
    BY <1>2 DEF Locks, setWebsocket, waitLeaf, deleteWebsocket, gcDeleteWebsocket, DeleteWebsocket,
                Goto, TypeOK
  <1>3. CASE send_(w)
    BY <1>3 DEF send_, sendPart, sendRest, sendAgain, sendSkip, sendOnce, sendFailed, Return, Goto,
                Sending, Full, TypeOK
  <1>4. CASE broadcast(w) \/ broadcastCallback(w) \/ postLeaf(w)
    BY <1>4 DEF broadcast, broadcastCallback, postLeaf, AfterBroadcast, Goto, TypeOK
  <1>5. CASE deleteSocket(w) \/ gcClose(w)
    BY <1>5 DEF deleteSocket, gcClose, Close, Goto, TypeOK
  <1> QED BY <1>1, <1>2, <1>3, <1>4, <1>5 DEF Step, Runs

(* Only TCP workers, and the timeout thread in their place, have connections. *)
LEMMA UdpApart ==
    ASSUME Control, NEW t \in Threads, pc[t] \notin UdpPcs
    PROVE  t \in TcpWorkers
  BY DEF Control, Threads

(* A connection stays with the worker that works on it. *)
LEMMA OwningStep ==
    ASSUME TypeOK, Control, Owning, [Next]_vars
    PROVE  Owning'
  <1> SUFFICES ASSUME NEW w \in TcpWorkers, pc'[w] \notin {"idle", "deleteWebsocket"}
               PROVE  job'[w].fd \in open' /\ owner'[job'[w].fd] = w
    BY DEF Owning
  <1>0. w \in Threads
    BY DEF Threads
  <1>1. CASE Step(w)
    <2>1. owner' = owner
      BY <1>0, <1>1, ThreadFrame
    <2>2. open' = open /\ pc[w] # "deleteWebsocket"
      BY <1>0, <1>1, ListsEffect
    <2>3. job'[w].fd \in open /\ owner[job'[w].fd] = w
      BY <1>1, <2>2, JobEffect DEF Owning
    <2> QED BY <2>1, <2>2, <2>3
  <1>2. ASSUME NEW u \in Threads, Step(u), u # w
        PROVE  job'[w].fd \in open' /\ owner'[job'[w].fd] = w
    <2>1. owner' = owner /\ pc'[w] = pc[w] /\ job'[w] = job[w]
      BY <1>0, <1>2, ThreadFrame
    <2>2. job[w].fd \in open /\ owner[job[w].fd] = w
      BY <2>1 DEF Owning
    <2>3. open' = open \/ (pc[u] \in {"close", "gcClose"} /\ open' = open \ {job[u].fd})
      BY <1>2, ListsEffect
    <2>4. pc[u] \in {"close", "gcClose"} => u \in TcpWorkers /\ owner[job[u].fd] = u
      BY UdpApart DEF UdpPcs, Owning
    <2> QED BY <1>2, <2>1, <2>2, <2>3, <2>4
  <1>3. CASE Client
    <2>1. pc'[w] = pc[w] /\ job'[w] = job[w] /\ open \subseteq open'
      BY <1>3, ClientFrame
    <2>2. job[w].fd \in open /\ owner[job[w].fd] = w
      BY <2>1 DEF Owning
    <2>3. \A f \in open : owner'[f] = owner[f]
      BY <1>3, ClientFrame DEF TypeOK
    <2> QED BY <2>1, <2>2, <2>3
  <1>4. CASE UNCHANGED vars
    BY <1>4 DEF vars, Owning
  <1> QED BY <1>0, <1>1, <1>2, <1>3, <1>4 DEF Next, Step

(* The entry that the timeout thread deleted does not come back before the   *)
(* close: only the owner registers a connection.                             *)
LEMMA EntryDeletedStep ==
    ASSUME TypeOK, Control, Owning, EntryDeleted, [Next]_vars
    PROVE  EntryDeleted'
  <1> SUFFICES ASSUME NEW w \in TcpWorkers, pc'[w] = "gcClose"
               PROVE  job'[w].fd \notin websockets'
    BY DEF EntryDeleted
  <1>0. w \in Threads
    BY DEF Threads
  <1>1. CASE Step(w)
    <2>1. pc[w] = "gcDeleteWebsocket" /\ websockets' = websockets \ {job[w].fd}
      BY <1>0, <1>1, ListsEffect
    <2>2. job'[w] = job[w]
      BY <1>1, <2>1, JobEffect
    <2> QED BY <2>1, <2>2
  <1>2. ASSUME NEW u \in Threads, Step(u), u # w
        PROVE  job'[w].fd \notin websockets'
    <2>1. pc'[w] = pc[w] /\ job'[w] = job[w]
      BY <1>0, <1>2, ThreadFrame
    <2>2. job[w].fd \notin websockets /\ owner[job[w].fd] = w
      BY <2>1 DEF EntryDeleted, Owning
    <2>3. \/ websockets' \subseteq websockets
          \/ pc[u] = "setWebsocket" /\ websockets' = websockets \cup {job[u].fd}
      BY <1>2, ListsEffect
    <2>4. pc[u] = "setWebsocket" => owner[job[u].fd] = u
      BY UdpApart DEF UdpPcs, Owning
    <2> QED BY <1>2, <2>1, <2>2, <2>3, <2>4
  <1>3. CASE Client \/ UNCHANGED vars
    BY <1>3, ClientFrame DEF vars, EntryDeleted
  <1> QED BY <1>0, <1>1, <1>2, <1>3 DEF Next, Step

(* An entry loses its connection only to a worker that deletes it next. *)
LEMMA EntriesStep ==
    ASSUME TypeOK, Control, Owning, EntryDeleted, EntriesAccountedFor, [Next]_vars
    PROVE  EntriesAccountedFor'
  <1> SUFFICES ASSUME NEW f \in websockets'
               PROVE  f \in upgraded' \/ \E w \in TcpWorkers : pc'[w] = "deleteWebsocket" /\ job'[w].fd = f
    BY DEF EntriesAccountedFor
  <1>1. ASSUME NEW t \in Threads, Step(t)
        PROVE  f \in upgraded' \/ \E w \in TcpWorkers : pc'[w] = "deleteWebsocket" /\ job'[w].fd = f
    <2>1. \A w \in TcpWorkers : w # t => pc'[w] = pc[w] /\ job'[w] = job[w]
      BY <1>1, ThreadFrame DEF Threads
    <2>2. CASE f \in websockets /\ f \in upgraded
      <3>1. CASE f \in upgraded'
        BY <3>1
      <3>2. CASE f \notin upgraded'
        <4>1. /\ f = job[t].fd
              /\ (pc[t] = "close" /\ pc'[t] = "deleteWebsocket") \/ pc[t] = "gcClose"
          BY <1>1, <2>2, <3>2, ListsEffect
        <4>2. t \in TcpWorkers
          BY <4>1, UdpApart DEF UdpPcs
        <4>3. pc[t] # "gcClose"
          BY <2>2, <4>1, <4>2 DEF EntryDeleted
        <4>4. job'[t] = job[t]
          BY <1>1, <4>1, <4>2, <4>3, JobEffect
        <4> QED BY <4>1, <4>2, <4>3, <4>4
      <3> QED BY <3>1, <3>2
    <2>3. CASE f \in websockets /\ f \notin upgraded
      <3>1. PICK w \in TcpWorkers : pc[w] = "deleteWebsocket" /\ job[w].fd = f
        BY <2>3 DEF EntriesAccountedFor
      <3>2. CASE w # t
        BY <2>1, <3>1, <3>2
      <3>3. CASE w = t
        <4>1. websockets' = websockets \ {f}
          BY <1>1, <3>1, <3>3, ListsEffect
        <4> QED BY <4>1
      <3> QED BY <3>2, <3>3
    <2>4. CASE f \notin websockets
      BY <1>1, <2>4, ListsEffect
    <2> QED BY <2>2, <2>3, <2>4
  <1>2. CASE Client \/ UNCHANGED vars
    BY <1>2, ClientFrame DEF vars, EntriesAccountedFor
  <1> QED BY <1>1, <1>2 DEF Next, Step

-----------------------------------------------------------------------------
(* The types. *)

(* The connections and the lists of a step have their types. *)
LEMMA ListsType ==
    ASSUME TypeOK, Control, Owning, [Next]_vars
    PROVE  /\ open' \subseteq Fds /\ gone' \subseteq open' /\ upgraded' \subseteq open'
           /\ owner' \in [Fds -> TcpWorkers] /\ websockets' \subseteq Fds
  <1>1. ASSUME NEW t \in Threads, Step(t)
        PROVE  /\ open' \subseteq Fds /\ gone' \subseteq open' /\ upgraded' \subseteq open'
               /\ owner' \in [Fds -> TcpWorkers] /\ websockets' \subseteq Fds
    <2>1. owner' = owner
      BY <1>1, ThreadFrame
    <2>2. pc[t] = "setWebsocket" => job[t].fd \in open
      BY UdpApart DEF UdpPcs, Owning
    <2> QED BY <1>1, <2>1, <2>2, ListsEffect DEF TypeOK
  <1>2. CASE Client
    BY <1>2 DEF Client, accept, clientReads, clientHangsUp, net, TypeOK
  <1>3. CASE UNCHANGED vars
    BY <1>3 DEF vars, TypeOK
  <1> QED BY <1>1, <1>2, <1>3 DEF Next, Step

(* The semaphore and the rest of a walk have their types. *)
LEMMA WalkType ==
    ASSUME TypeOK, [Next]_vars
    PROVE  leaf' \in Threads \cup {Free} /\ todo' \in [Threads -> SUBSET Fds]
  <1> USE DEF TypeOK
  <1>1. ASSUME NEW t \in Threads, Step(t)
        PROVE  leaf' \in Threads \cup {Free} /\ todo' \in [Threads -> SUBSET Fds]
    <2>1. CASE Arrive(t)
      BY <2>1 DEF Arrive, announceUdp, announce, otherRequest, oversize, upgrade, hungUp, timeout
    <2>2. CASE Locks(t)
      BY <2>2 DEF Locks, setWebsocket, waitLeaf, deleteWebsocket, gcDeleteWebsocket, DeleteWebsocket
    <2>3. CASE send_(t)
      BY <2>3 DEF send_, sendPart, sendRest, sendAgain, sendSkip, sendOnce, sendFailed, Return
    <2>4. CASE broadcast(t) \/ broadcastCallback(t) \/ postLeaf(t)
      BY <2>4 DEF broadcast, broadcastCallback, postLeaf
    <2>5. CASE deleteSocket(t) \/ gcClose(t)
      BY <2>5 DEF deleteSocket, gcClose, Close
    <2> QED BY <1>1, <2>1, <2>2, <2>3, <2>4, <2>5 DEF Step, Runs
  <1>2. CASE Client \/ UNCHANGED vars
    BY <1>2, ClientFrame DEF vars
  <1> QED BY <1>1, <1>2 DEF Next, Step

(* The requests and the jobs have their types. *)
LEMMA JobType ==
    ASSUME TypeOK, [Next]_vars
    PROVE  requests' \in 0..MaxRequests /\ job' \in [Threads -> Job]
  <1> USE BroadcastAssumption DEF TypeOK
  <1>0. NoJob \in Job
    BY DEF NoJob, Job
  <1>1. ASSUME NEW t \in Threads, Step(t)
        PROVE  requests' \in 0..MaxRequests /\ job' \in [Threads -> Job]
    <2>1. CASE \E f \in Fds \cup {0}, keep \in BOOLEAN, next \in Pcs : Request(t, f, keep, next)
      <3>1. PICK f \in Fds \cup {0}, keep \in BOOLEAN, next \in Pcs : Request(t, f, keep, next)
        BY <2>1
      <3>2. [fd |-> f, request |-> requests + 1, keep |-> keep] \in Job /\ requests' \in 0..MaxRequests
        BY <3>1 DEF Request, Job
      <3> QED BY <3>1, <3>2 DEF Request
    <2>2. CASE \E f \in Fds : hungUp(t, f) \/ timeout(t, f)
      <3>1. \A f \in Fds : [NoJob EXCEPT !.fd = f] \in Job
        BY <1>0 DEF Job
      <3> QED BY <2>2, <3>1 DEF hungUp, timeout
    <2>3. CASE Arrive(t)
      BY <2>1, <2>2, <2>3 DEF Arrive, announceUdp, announce, otherRequest, oversize, upgrade, Pcs
    <2>4. CASE Locks(t)
      BY <1>0, <2>4 DEF Locks, setWebsocket, waitLeaf, deleteWebsocket, gcDeleteWebsocket,
                        DeleteWebsocket, Goto
    <2>5. CASE send_(t)
      BY <1>0, <2>5 DEF send_, sendPart, sendRest, sendAgain, sendSkip, sendOnce, sendFailed, Return, Goto
    <2>6. CASE broadcast(t) \/ broadcastCallback(t) \/ postLeaf(t)
      BY <1>0, <2>6 DEF broadcast, broadcastCallback, postLeaf, AfterBroadcast, Goto
    <2>7. CASE deleteSocket(t) \/ gcClose(t)
      BY <1>0, <2>7 DEF deleteSocket, gcClose, Close, Goto
    <2> QED BY <1>1, <2>3, <2>4, <2>5, <2>6, <2>7 DEF Step, Runs
  <1>2. CASE Client \/ UNCHANGED vars
    BY <1>2, ClientFrame DEF vars, Client, accept, clientReads, clientHangsUp
  <1> QED BY <1>1, <1>2 DEF Next, Step

(* A message starts with a size that fits. *)
LEMMA StartType ==
    ASSUME TypeOK, NEW t \in Threads, NEW f \in Fds \cup {0}, NEW size \in {ReplySize, FrameSize},
           StartSend(t, f, size)
    PROVE  send' \in [Threads -> Send]
  <1>1. [fd |-> f, left |-> size, tries |-> ErrorLimit] \in Send
    BY BroadcastAssumption, LongestIs DEF Send
  <1> QED BY <1>1 DEF StartSend, TypeOK

(* The locals of send_ have their types. *)
LEMMA SendType ==
    ASSUME TypeOK, [Next]_vars
    PROVE  send' \in [Threads -> Send]
  <1>0. NoSend \in Send
    BY BroadcastAssumption, LongestIs DEF NoSend, Send
  <1>1. ASSUME NEW t \in Threads, Step(t)
        PROVE  send' \in [Threads -> Send]
    <2>0. job[t].fd \in Fds \cup {0}
      BY DEF TypeOK, Job
    <2>1. CASE Arrive(t)
      BY <2>1, StartType DEF Arrive, announceUdp, announce, otherRequest, oversize, upgrade, hungUp, timeout, TypeOK
    <2>2. CASE Locks(t)
      BY <2>0, <2>2, StartType DEF Locks, setWebsocket, waitLeaf, deleteWebsocket, gcDeleteWebsocket,
                                   DeleteWebsocket, TypeOK
    <2>3. CASE sendPart(t)
      <3>1. To(t) \in Fds /\ room[To(t)] \in Nat
        BY <2>3 DEF sendPart, TypeOK
      <3>2. send[t].left - room[To(t)] \in 0..Max({ReplySize, FrameSize})
        <4>1. PICK m \in Nat : m = Max({ReplySize, FrameSize})
          BY LongestIs
        <4>2. send[t].left \in 0..m
          BY <4>1 DEF TypeOK, Send
        <4>3. room[To(t)] < send[t].left
          BY <2>3 DEF sendPart
        <4> QED BY <3>1, <4>1, <4>2, <4>3
      <3>3. [send[t] EXCEPT !.left = @ - room[To(t)]] \in Send
        BY <3>2 DEF TypeOK, Send
      <3> QED BY <2>3, <3>3 DEF sendPart, TypeOK
    <2>4. CASE sendAgain(t)
      <3>1. send[t].tries - 1 \in 0..ErrorLimit
        BY <2>4, BroadcastAssumption DEF sendAgain, TypeOK, Send
      <3>2. [send[t] EXCEPT !.tries = @ - 1] \in Send
        BY <3>1 DEF TypeOK, Send
      <3> QED BY <2>4, <3>2 DEF sendAgain, TypeOK
    <2>5. CASE sendRest(t) \/ sendSkip(t) \/ sendOnce(t) \/ sendFailed(t)
      BY <1>0, <2>5 DEF sendRest, sendSkip, sendOnce, sendFailed, Return, TypeOK
    <2>6. CASE broadcastCallback(t)
      <3>1. todo[t] \in SUBSET Fds /\ todo[t] # {}
        BY <2>6 DEF broadcastCallback, TypeOK
      <3>2. Min(todo[t]) \in Fds
        BY <3>1, LowestIs
      <3> QED BY <2>6, <3>2, StartType DEF broadcastCallback
    <2>7. CASE broadcast(t) \/ postLeaf(t)
      BY <2>0, <2>7, StartType DEF broadcast, postLeaf, AfterBroadcast, TypeOK
    <2>8. CASE deleteSocket(t) \/ gcClose(t)
      BY <2>8 DEF deleteSocket, gcClose, Close, TypeOK
    <2> QED BY <1>1, <2>1, <2>2, <2>3, <2>4, <2>5, <2>6, <2>7, <2>8 DEF Step, Runs, send_
  <1>2. CASE Client \/ UNCHANGED vars
    BY <1>2, ClientFrame DEF vars, TypeOK
  <1> QED BY <1>1, <1>2 DEF Next, Step

(* The buffers, and what the clients have parts of, have their types. *)
LEMMA BuffersType ==
    ASSUME TypeOK, [Next]_vars
    PROVE  /\ room' \in [Fds -> 0..BufferSize] /\ replyPart' \in [Fds -> 0..MaxRequests]
           /\ framePart' \in [Fds -> (0..MaxRequests) \cup {Nothing}] /\ send_skips' \in Nat
  <1> DEFINE Buffers ==
               /\ room \in [Fds -> 0..BufferSize] /\ replyPart \in [Fds -> 0..MaxRequests]
               /\ framePart \in [Fds -> (0..MaxRequests) \cup {Nothing}] /\ send_skips \in Nat
  <1>0. Buffers /\ BufferSize \in Nat /\ BufferSize \in 0..BufferSize /\ 0 \in 0..MaxRequests
    BY BroadcastAssumption DEF TypeOK
  <1>1. ASSUME NEW t \in Threads, Step(t)
        PROVE  Buffers'
    <2>1. CASE UNCHANGED buffers
      BY <1>0, <2>1 DEF buffers
    <2>2. CASE sendPart(t) \/ sendRest(t)
      <3>1. PICK k \in {room[To(t)], send[t].left} : Written(t, k) /\ k <= room[To(t)] /\ To(t) \in open
        BY <1>0, <2>2 DEF sendPart, sendRest, TypeOK, Send
      <3>2. To(t) \in Fds /\ room[To(t)] \in 0..BufferSize /\ k \in Nat
        BY <1>0, <3>1, LongestIs DEF TypeOK, Send
      <3>3. room[To(t)] - k \in 0..BufferSize
        BY <1>0, <3>1, <3>2
      <3>4. PartAfter(t, k) \in 0..MaxRequests
        BY <1>0 DEF PartAfter, TypeOK, Job
      <3> QED BY <1>0, <3>1, <3>2, <3>3, <3>4 DEF Written
    <2>3. CASE sendSkip(t)
      BY <1>0, <2>3 DEF sendSkip
    <2>4. CASE deleteSocket(t) \/ gcClose(t)
      BY <1>0, <2>4 DEF deleteSocket, gcClose, Close
    <2>5. CASE Arrive(t)
      BY <2>1, <2>5 DEF Arrive, announceUdp, announce, otherRequest, oversize, upgrade, hungUp, timeout
    <2>6. CASE Locks(t)
      BY <2>1, <2>6 DEF Locks, setWebsocket, waitLeaf, deleteWebsocket, gcDeleteWebsocket, DeleteWebsocket
    <2>7. CASE broadcast(t) \/ broadcastCallback(t) \/ postLeaf(t) \/ sendAgain(t) \/ sendOnce(t)
               \/ sendFailed(t)
      BY <2>1, <2>7 DEF broadcast, broadcastCallback, postLeaf, sendAgain, sendOnce, sendFailed
    <2> QED BY <1>1, <2>2, <2>3, <2>4, <2>5, <2>6, <2>7 DEF Step, Runs, send_
  <1>2. CASE Client \/ UNCHANGED vars
    BY <1>0, <1>2 DEF Client, accept, clientReads, clientHangsUp, buffers, vars
  <1> QED BY <1>1, <1>2 DEF Next, Step

-----------------------------------------------------------------------------
(* What holds in every reachable state. *)

(* The invariant is inductive. *)
THEOREM Invariance == Spec => []IInv
  <1>1. Init => IInv
    BY IInvInit
  <1>2. IInv /\ [Next]_vars => IInv'
    <2> SUFFICES ASSUME IInv, [Next]_vars PROVE IInv'
      OBVIOUS
    <2>1. /\ TypeOK /\ Control /\ Holding /\ Aiming /\ Owning /\ EntryDeleted
          /\ FramesInOrder /\ EntriesAccountedFor
      BY DEF IInv
    <2>2. TypeOK'
      BY <2>1, ListsType, WalkType, JobType, SendType, BuffersType DEF TypeOK
    <2>3. Control' /\ Holding' /\ Aiming'
      BY <2>1, ControlStep, HoldingStep, AimingStep
    <2>4. Owning' /\ EntryDeleted' /\ EntriesAccountedFor'
      BY <2>1, OwningStep, EntryDeletedStep, EntriesStep
    <2>5. FramesInOrder'
      BY <2>1, FramesStep
    <2> QED BY <2>2, <2>3, <2>4, <2>5 DEF IInv
  <1> QED BY <1>1, <1>2, PTL DEF Spec

(* Every variable has its type: no buffer is written beyond its room, and   *)
(* what is left of a message never exceeds it.                              *)
THEOREM TypeCorrect == Spec => []TypeOK
  <1>1. IInv => TypeOK
    BY DEF IInv
  <1> QED BY <1>1, Invariance, PTL

(* Broadcasts of any number of threads never mix their frames on one        *)
(* connection, for frames and buffers of any size.                          *)
THEOREM FramesCorrect == Spec => []FramesInOrder
  <1>1. IInv => FramesInOrder
    BY DEF IInv
  <1> QED BY <1>1, Invariance, PTL

(* An entry of the list of websockets is of a connection that was upgraded, *)
(* or its worker is about to delete it (deleteSocketItem closes first).     *)
THEOREM EntriesCorrect == Spec => []EntriesAccountedFor
  <1>1. IInv => EntriesAccountedFor
    BY DEF IInv
  <1> QED BY <1>1, Invariance, PTL

(* A connection is worked on, answered and closed by one thread only: its   *)
(* worker, or the timeout thread with the semaphore of the worker's list.   *)
THEOREM OwnerCorrect == Spec => []Owning
  <1>1. IInv => Owning
    BY DEF IInv
  <1> QED BY <1>1, Invariance, PTL

-----------------------------------------------------------------------------
(* Messages that are cut. *)

Announcing(t) == pc[t] \in {"broadcast", "waitLeaf", "nextFrame", "sendFrame"}

(* What is left of a message is at most its size, and a reply goes to the    *)
(* connection of the request.                                                *)
Sized ==
    \A t \in Threads : Sending(t) =>
        send[t].left \in 1..Size(t) /\ (pc[t] # "sendFrame" => To(t) = job[t].fd)

(* Every request under way has a number of its own, and parts are of         *)
(* requests that were received; the timeout thread has none.                 *)
Numbered ==
    /\ \A f \in Fds : replyPart[f] <= requests /\ framePart[f] <= requests
    /\ \A t \in Threads : job[t].request <= requests
    /\ \A t, u \in Threads : t # u /\ job[t].request = job[u].request => job[t].request = 0
    /\ \A t \in Threads : pc[t] = "sendTimeout" => job[t].request = 0

(* A new connection has not got a part of anything. *)
Clean == \A f \in Fds \ open : replyPart[f] = 0 /\ framePart[f] = Nothing

(* A client does not get the frame of its own announce: it is no websocket.  *)
NoEcho ==
    \A w \in TcpWorkers :
        /\ pc[w] \in {"broadcast", "waitLeaf"} => job[w].fd \notin websockets
        /\ pc[w] \in {"nextFrame", "sendFrame"} => job[w].fd \notin todo[w]
        /\ pc[w] = "sendFrame" => job[w].fd # To(w)

(* So no connection has a part of the reply and of the frame of one request. *)
Apart ==
    \A t \in Threads : job[t].request # 0 =>
        /\ Announcing(t) \/ pc[t] = "setWebsocket" => \A f \in Fds : replyPart[f] # job[t].request
        /\ t \in TcpWorkers /\ (Announcing(t) \/ pc[t] \in {"setWebsocket", "sendReply"}) =>
            framePart[job[t].fd] # job[t].request

CutInv == Sized /\ Numbered /\ Clean /\ NoEcho /\ Apart

(* A step of a thread that is not sending starts a message at most. *)
Quiet(t) ==
    /\ UNCHANGED <<open, gone, replyPart, framePart, send_skips>>
    /\ ~Sending(t)
    /\ Sending(t)' => send'[t].left = Size(t)' /\ (pc'[t] # "sendFrame" => send'[t].fd = job'[t].fd)

(* What a step of a thread is. *)
LEMMA StepIs ==
    ASSUME TypeOK, Control, NEW t \in Threads, Step(t)
    PROVE  Quiet(t) \/ send_(t) \/ deleteSocket(t) \/ gcClose(t)
  <1> USE DEF Control, TypeOK, Quiet, Sending, Size
  <1>1. CASE \E f \in Fds : announce(t, f) \/ upgrade(t, f) \/ hungUp(t, f)
    BY <1>1 DEF announce, upgrade, hungUp, Request, net, buffers
  <1>2. CASE announceUdp(t)
    BY <1>2 DEF announceUdp, Request, net, buffers
  <1>3. CASE \E f \in Fds : otherRequest(t, f) \/ oversize(t, f) \/ timeout(t, f)
    BY <1>3 DEF otherRequest, oversize, timeout, Request, StartSend, NoJob, net, buffers
  <1>4. CASE setWebsocket(t)
    BY <1>4 DEF setWebsocket, StartSend, buffers
  <1>5. CASE waitLeaf(t) \/ deleteWebsocket(t) \/ gcDeleteWebsocket(t)
    BY <1>5 DEF waitLeaf, deleteWebsocket, gcDeleteWebsocket, DeleteWebsocket, Goto, net, buffers
  <1>6. CASE broadcast(t) \/ postLeaf(t)
    BY <1>6 DEF broadcast, postLeaf, AfterBroadcast, Goto, StartSend, net, buffers
  <1>7. CASE broadcastCallback(t)
    BY <1>7 DEF broadcastCallback, StartSend, net, buffers
  <1> QED BY <1>1, <1>2, <1>3, <1>4, <1>5, <1>6, <1>7 DEF Step, Runs, Locks, Arrive

(* Where a thread comes from, and when it takes a new number. *)
LEMMA NumberEffect ==
    ASSUME TypeOK, Control, NEW t \in Threads, Step(t)
    PROVE  \/ /\ requests' = requests
              /\ \/ job'[t] = job[t] /\ pc[t] # "idle" /\ pc'[t] # "idle"
                 \/ job'[t].request = 0 /\ ((pc[t] = "idle" /\ pc'[t] \in {"sendTimeout", "close"}) \/ pc'[t] = "idle")
           \/ /\ pc[t] = "idle" /\ requests' = requests + 1 /\ job'[t].request = requests + 1
              /\ pc'[t] \in {"broadcast", "sendReply", "setWebsocket"}
              /\ t \in TcpWorkers /\ pc'[t] = "broadcast" => job'[t].fd \notin websockets
  <1> USE BroadcastAssumption DEF Control, TypeOK
  <1>1. CASE \E f \in Fds : announce(t, f) \/ upgrade(t, f) \/ otherRequest(t, f) \/ oversize(t, f)
    BY <1>1 DEF announce, upgrade, otherRequest, oversize, Request, Readable
  <1>2. CASE t \in UdpWorkers /\ announceUdp(t)
    BY <1>2 DEF announceUdp, Request
  <1>3. CASE \E f \in Fds : hungUp(t, f) \/ timeout(t, f)
    BY <1>3 DEF hungUp, timeout, NoJob
  <1>4. CASE Locks(t)
    BY <1>4 DEF Locks, setWebsocket, waitLeaf, deleteWebsocket, gcDeleteWebsocket, DeleteWebsocket, Goto,
                NoJob
  <1>5. CASE broadcast(t) \/ postLeaf(t) \/ broadcastCallback(t)
    BY <1>5 DEF broadcast, postLeaf, broadcastCallback, AfterBroadcast, Goto, NoJob
  <1>6. CASE send_(t)
    BY <1>6 DEF send_, sendPart, sendRest, sendAgain, sendSkip, sendOnce, sendFailed, Return, Goto,
                Sending, Full, NoJob
  <1>7. CASE deleteSocket(t) \/ gcClose(t)
    BY <1>7 DEF deleteSocket, gcClose, Close, Goto, NoJob
  <1> QED BY <1>1, <1>2, <1>3, <1>4, <1>5, <1>6, <1>7 DEF Step, Runs, Arrive

(* What a step does to the parts the clients have. *)
LEMMA PartsEffect ==
    ASSUME TypeOK, Control, NEW t \in Threads, Step(t), NEW f \in Fds
    PROVE  /\ \/ replyPart'[f] \in {replyPart[f], 0}
              \/ /\ pc[t] \in {"sendReply", "sendTimeout"} /\ pc'[t] = pc[t] /\ f = To(t) /\ f \in open
                 /\ replyPart'[f] = job[t].request
           /\ \/ framePart'[f] \in {framePart[f], Nothing}
              \/ framePart'[f] = 0 /\ f \in open
              \/ pc[t] = "sendFrame" /\ f = To(t) /\ f \in open /\ framePart'[f] = job[t].request
  <1>0. /\ replyPart \in [Fds -> 0..MaxRequests] /\ framePart \in [Fds -> (0..MaxRequests) \cup {Nothing}]
        /\ open \subseteq Fds
    BY DEF TypeOK
  <1>1. CASE UNCHANGED <<replyPart, framePart>>
    BY <1>1
  <1>2. CASE sendPart(t)
    BY <1>0, <1>2 DEF sendPart, Written, PartAfter, Sending
  <1>3. CASE sendRest(t)
    BY <1>0, <1>3 DEF sendRest, Written, PartAfter, Sending
  <1>4. CASE sendAgain(t) \/ sendSkip(t) \/ sendOnce(t) \/ sendFailed(t)
    BY <1>1, <1>4 DEF sendAgain, sendSkip, sendOnce, sendFailed, buffers
  <1>5. CASE deleteSocket(t) \/ gcClose(t)
    BY <1>0, <1>5 DEF deleteSocket, gcClose, Close
  <1> QED BY <1>1, <1>2, <1>3, <1>4, <1>5, StepIs DEF Quiet, send_

(* From which states a thread comes to send or to announce. *)
LEMMA PcEffect ==
    ASSUME TypeOK, Control, NEW t \in Threads, Step(t)
    PROVE  /\ pc'[t] \in {"broadcast", "setWebsocket"} => pc[t] = "idle"
           /\ pc'[t] = "waitLeaf" => pc[t] = "broadcast"
           /\ pc'[t] = "nextFrame" => \/ pc[t] = "waitLeaf" /\ todo'[t] = websockets
                                      \/ pc[t] = "sendFrame" /\ todo'[t] = todo[t]
           /\ pc'[t] = "sendFrame" => \/ pc[t] = "nextFrame" /\ todo'[t] \subseteq todo[t] /\ To(t)' \in todo[t]
                                      \/ pc[t] = "sendFrame" /\ todo'[t] = todo[t] /\ To(t)' = To(t)
           /\ pc'[t] = "sendReply" => Announcing(t) \/ pc[t] \in {"setWebsocket", "sendReply", "idle"}
           /\ pc'[t] = "sendTimeout" => pc[t] \in {"sendTimeout", "idle"}
  <1> USE DEF Control, TypeOK, Announcing
  <1>1. CASE Arrive(t)
    BY <1>1 DEF Arrive, announceUdp, announce, otherRequest, oversize, upgrade, hungUp, timeout, Request
  <1>2. CASE Locks(t)
    BY <1>2 DEF Locks, setWebsocket, waitLeaf, deleteWebsocket, gcDeleteWebsocket, DeleteWebsocket, Goto
  <1>3. CASE broadcast(t) \/ postLeaf(t) \/ deleteSocket(t) \/ gcClose(t)
    BY <1>3 DEF broadcast, postLeaf, AfterBroadcast, deleteSocket, gcClose, Close, Goto
  <1>4. CASE broadcastCallback(t)
    <2>1. Min(todo[t]) \in todo[t]
      BY <1>4, LowestIs DEF broadcastCallback
    <2> QED BY <1>4, <2>1 DEF broadcastCallback, StartSend, To
  <1>5. CASE sendPart(t) \/ sendAgain(t)
    <2>1. pc' = pc /\ todo' = todo /\ send'[t].fd = send[t].fd /\ Sending(t)
      BY <1>5 DEF sendPart, sendAgain, Send, Full
    <2> QED BY <2>1 DEF To, Sending
  <1>6. CASE sendRest(t) \/ sendSkip(t) \/ sendOnce(t) \/ sendFailed(t)
    BY <1>6 DEF sendRest, sendSkip, sendOnce, sendFailed, Return, Goto, Sending, Full
  <1> QED BY <1>1, <1>2, <1>3, <1>4, <1>5, <1>6 DEF Step, Runs, send_

(* A thread that goes on sending has written less than was left. *)
LEMMA SizedStep ==
    ASSUME TypeOK, Control, Sized, [Next]_vars
    PROVE  Sized'
  <1> SUFFICES ASSUME NEW t \in Threads, Sending(t)'
               PROVE  send'[t].left \in 1..Size(t)' /\ (pc'[t] # "sendFrame" => send'[t].fd = job'[t].fd)
    BY DEF Sized, To
  <1> USE BroadcastAssumption DEF Control
  <1>1. CASE Step(t)
    <2>1. CASE Quiet(t)
      BY <2>1 DEF Quiet, Size
    <2>2. CASE sendPart(t)
      <3>1. /\ pc' = pc /\ job' = job /\ send'[t].fd = send[t].fd
            /\ send'[t].left = send[t].left - room[To(t)]
        BY <2>2 DEF sendPart, TypeOK, Send
      <3>2. room[To(t)] \in Nat /\ room[To(t)] > 0 /\ room[To(t)] < send[t].left /\ Sending(t)
        BY <2>2 DEF sendPart, TypeOK
      <3>3. send[t].left \in 1..Size(t) /\ Size(t) \in Nat
        BY <3>2 DEF Sized, Size
      <3>4. Size(t)' = Size(t)
        BY <3>1 DEF Size
      <3>5. send'[t].left \in 1..Size(t)
        BY <3>1, <3>2, <3>3
      <3> QED BY <3>1, <3>2, <3>4, <3>5 DEF Sized, To
    <2>3. CASE sendAgain(t)
      <3>1. pc' = pc /\ job' = job /\ send'[t].fd = send[t].fd /\ send'[t].left = send[t].left
        BY <2>3 DEF sendAgain, TypeOK, Send
      <3> QED BY <3>1 DEF Sized, Size, Sending, To
    <2>4. CASE sendRest(t) \/ sendSkip(t) \/ sendOnce(t) \/ sendFailed(t)
      BY <2>4 DEF sendRest, sendSkip, sendOnce, sendFailed, Return, Goto, Sending, Full
    <2>5. CASE deleteSocket(t) \/ gcClose(t)
      BY <2>5 DEF deleteSocket, gcClose, Close, Goto, Sending
    <2> QED BY <1>1, <2>1, <2>2, <2>3, <2>4, <2>5, StepIs DEF send_
  <1>2. ASSUME NEW u \in Threads, Step(u), u # t
        PROVE  send'[t].left \in 1..Size(t)' /\ (pc'[t] # "sendFrame" => send'[t].fd = job'[t].fd)
    BY <1>2, ThreadFrame DEF Sized, Size, Sending, To
  <1>3. CASE Client \/ UNCHANGED vars
    BY <1>3, ClientFrame DEF vars, Sized, Size, Sending, To
  <1> QED BY <1>1, <1>2, <1>3 DEF Next, Step

(* A request takes the next number, and its number is given up with it. *)
LEMMA NumberedStep ==
    ASSUME TypeOK, Control, Numbered, [Next]_vars
    PROVE  Numbered'
  <1>0. /\ requests \in Nat /\ \A t \in Threads : job[t].request \in Nat
        /\ \A f \in Fds : replyPart[f] \in Int /\ framePart[f] \in Int
    <2>1. requests \in Nat /\ \A t \in Threads : job[t].request \in Nat
      BY BroadcastAssumption DEF TypeOK, Job
    <2>2. \A f \in Fds : replyPart[f] \in 0..MaxRequests /\ framePart[f] \in (0..MaxRequests) \cup {-1}
      BY DEF TypeOK, Nothing
    <2> QED BY <2>1, <2>2
  <1>1. ASSUME NEW t \in Threads, Step(t)
        PROVE  Numbered'
    <2>1. \A u \in Threads : u # t => job'[u] = job[u] /\ pc'[u] = pc[u]
      BY <1>1, ThreadFrame
    <2>2. \/ requests' = requests /\ job'[t].request \in {job[t].request, 0}
          \/ requests' = requests + 1 /\ job'[t].request = requests + 1
      BY <1>1, NumberEffect
    <2>3. pc'[t] = "sendTimeout" => job'[t].request = 0
      BY <1>1, NumberEffect, PcEffect DEF Numbered
    <2>4. \A f \in Fds : replyPart'[f] <= requests' /\ framePart'[f] <= requests'
      <3> SUFFICES ASSUME NEW f \in Fds PROVE replyPart'[f] <= requests' /\ framePart'[f] <= requests'
        OBVIOUS
      <3>1. /\ replyPart'[f] \in {replyPart[f], 0, job[t].request}
            /\ framePart'[f] \in {framePart[f], 0, Nothing, job[t].request}
        BY <1>1, PartsEffect
      <3> QED BY <1>0, <2>2, <3>1 DEF Numbered, Nothing
    <2>5. \A u \in Threads : job'[u].request <= requests'
      BY <1>0, <2>1, <2>2 DEF Numbered
    <2>6. \A u \in Threads : u # t /\ job'[t].request = job'[u].request => job'[t].request = 0
      BY <1>0, <2>1, <2>2 DEF Numbered
    <2>7. \A u, v \in Threads : u # v /\ job'[u].request = job'[v].request => job'[u].request = 0
      BY <2>1, <2>6 DEF Numbered
    <2>8. \A u \in Threads : pc'[u] = "sendTimeout" => job'[u].request = 0
      BY <2>1, <2>3 DEF Numbered
    <2> QED BY <2>4, <2>5, <2>7, <2>8 DEF Numbered
  <1>2. CASE Client
    BY <1>2, ClientFrame DEF Numbered, Client, accept, clientReads, clientHangsUp, buffers
  <1>3. CASE UNCHANGED vars
    BY <1>3 DEF vars, Numbered
  <1> QED BY <1>1, <1>2, <1>3 DEF Next, Step

(* What a close forgets stays forgotten until the descriptor is used again. *)
LEMMA CleanStep ==
    ASSUME TypeOK, Control, Clean, [Next]_vars
    PROVE  Clean'
  <1>1. ASSUME NEW t \in Threads, Step(t), NEW f \in Fds, f \notin open'
        PROVE  replyPart'[f] = 0 /\ framePart'[f] = Nothing
    <2>1. CASE f \in open
      <3>1. f = job[t].fd /\ pc[t] \in {"close", "gcClose"}
        BY <1>1, <2>1, ListsEffect
      <3>2. ~Sending(t) /\ open' # open
        BY <1>1, <2>1, <3>1 DEF Sending
      <3>3. ~send_(t)
        BY <3>2 DEF send_, sendPart, sendRest, sendAgain, sendSkip, sendOnce, sendFailed, Full
      <3>4. deleteSocket(t) \/ gcClose(t)
        BY <1>1, <3>2, <3>3, StepIs DEF Quiet
      <3> QED BY <3>1, <3>4 DEF deleteSocket, gcClose, Close, TypeOK
    <2>2. CASE f \notin open
      BY <1>1, <2>2, PartsEffect DEF Clean
    <2> QED BY <2>1, <2>2
  <1>2. CASE Client
    BY <1>2, ClientFrame DEF Clean, Client, accept, clientReads, clientHangsUp, buffers
  <1>3. CASE UNCHANGED vars
    BY <1>3 DEF vars, Clean
  <1> QED BY <1>1, <1>2, <1>3 DEF Next, Step, Clean

(* Only the owner of a connection makes it a websocket, and it is busy       *)
(* announcing.                                                               *)
LEMMA NoEchoStep ==
    ASSUME TypeOK, Control, Owning, NoEcho, [Next]_vars
    PROVE  NoEcho'
  <1> SUFFICES ASSUME NEW w \in TcpWorkers
               PROVE  /\ pc'[w] \in {"broadcast", "waitLeaf"} => job'[w].fd \notin websockets'
                      /\ pc'[w] \in {"nextFrame", "sendFrame"} => job'[w].fd \notin todo'[w]
                      /\ pc'[w] = "sendFrame" => job'[w].fd # send'[w].fd
    BY DEF NoEcho, To
  <1>0. w \in Threads
    BY DEF Threads
  <1>1. CASE Step(w)
    <2>1. pc'[w] \in {"waitLeaf", "nextFrame", "sendFrame"} => job'[w] = job[w]
      BY <1>0, <1>1, NumberEffect
    <2>2. pc[w] \in {"idle", "broadcast"} => websockets' = websockets
      BY <1>0, <1>1, ListsEffect
    <2>3. pc'[w] = "broadcast" => job'[w].fd \notin websockets'
      BY <1>0, <1>1, <2>2, NumberEffect, PcEffect
    <2>4. pc'[w] = "waitLeaf" => job'[w].fd \notin websockets'
      BY <1>0, <1>1, <2>1, <2>2, PcEffect DEF NoEcho
    <2>5. pc'[w] = "nextFrame" => job'[w].fd \notin todo'[w]
      BY <1>0, <1>1, <2>1, PcEffect DEF NoEcho
    <2>6. pc'[w] = "sendFrame" => job'[w].fd \notin todo'[w] /\ job'[w].fd # send'[w].fd
      BY <1>0, <1>1, <2>1, PcEffect DEF NoEcho, To
    <2> QED BY <2>3, <2>4, <2>5, <2>6
  <1>2. ASSUME NEW u \in Threads, Step(u), u # w
        PROVE  /\ pc'[w] \in {"broadcast", "waitLeaf"} => job'[w].fd \notin websockets'
               /\ pc'[w] \in {"nextFrame", "sendFrame"} => job'[w].fd \notin todo'[w]
               /\ pc'[w] = "sendFrame" => job'[w].fd # send'[w].fd
    <2>1. pc'[w] = pc[w] /\ job'[w] = job[w] /\ todo'[w] = todo[w] /\ send'[w] = send[w]
      BY <1>0, <1>2, ThreadFrame
    <2>2. \/ websockets' \subseteq websockets
          \/ pc[u] = "setWebsocket" /\ websockets' = websockets \cup {job[u].fd}
      BY <1>2, ListsEffect
    <2>3. pc[u] = "setWebsocket" => owner[job[u].fd] = u
      BY UdpApart DEF UdpPcs, Owning
    <2>4. pc[w] \in {"broadcast", "waitLeaf"} => owner[job[w].fd] = w
      BY DEF Owning
    <2> QED BY <1>2, <2>1, <2>2, <2>3, <2>4 DEF NoEcho, To
  <1>3. CASE Client \/ UNCHANGED vars
    BY <1>3, ClientFrame DEF vars, NoEcho, To
  <1> QED BY <1>0, <1>1, <1>2, <1>3 DEF Next, Step

(* The reply of a request follows its frames, and they go to others. *)
LEMMA ApartStep ==
    ASSUME TypeOK, Control, Owning, Numbered, NoEcho, Apart, [Next]_vars
    PROVE  Apart'
  <1> DEFINE Before(t) == Announcing(t) \/ pc[t] = "setWebsocket"
  <1> SUFFICES ASSUME NEW t \in Threads, job'[t].request # 0
               PROVE  /\ Before(t)' => \A f \in Fds : replyPart'[f] # job'[t].request
                      /\ t \in TcpWorkers /\ (Before(t)' \/ pc'[t] = "sendReply") =>
                            framePart'[job'[t].fd] # job'[t].request
    BY DEF Apart
  <1>0. /\ requests \in Nat /\ \A u \in Threads : job[u].request \in Nat
        /\ \A f \in Fds : replyPart[f] <= requests /\ framePart[f] <= requests
        /\ \A f \in Fds : replyPart[f] \in Int /\ framePart[f] \in Int
    <2>1. \A f \in Fds : replyPart[f] \in 0..MaxRequests /\ framePart[f] \in (0..MaxRequests) \cup {-1}
      BY DEF TypeOK, Nothing
    <2> QED BY <2>1, BroadcastAssumption DEF TypeOK, Job, Numbered
  <1>1. CASE Step(t) /\ pc[t] = "idle" /\ job'[t].request = requests + 1
    <2>1. \A f \in Fds : replyPart'[f] \in {replyPart[f], 0} /\ framePart'[f] \in {framePart[f], Nothing, 0}
      BY <1>1, PartsEffect
    <2>2. t \in TcpWorkers /\ (Before(t)' \/ pc'[t] = "sendReply") => job'[t].fd \in Fds
      BY <1>1, JobEffect DEF TypeOK, Announcing
    <2> QED BY <1>0, <1>1, <2>1, <2>2 DEF Nothing
  <1>2. CASE Step(t) /\ job'[t] = job[t] /\ pc[t] # "idle"
    <2>1. Before(t)' => Before(t)
      BY <1>2, PcEffect DEF Announcing
    <2>2. Before(t)' \/ pc'[t] = "sendReply" => Before(t) \/ pc[t] = "sendReply"
      BY <1>2, PcEffect DEF Announcing
    <2>3. Before(t)' => \A f \in Fds : replyPart'[f] # job'[t].request
      <3>1. Before(t) => \A f \in Fds : replyPart'[f] \in {replyPart[f], 0}
        BY <1>2, PartsEffect DEF Announcing
      <3> QED BY <1>2, <2>1, <3>1 DEF Apart
    <2>4. ASSUME t \in TcpWorkers, Before(t)' \/ pc'[t] = "sendReply"
          PROVE  framePart'[job'[t].fd] # job'[t].request
      <3>1. job[t].fd \in Fds
        BY <2>2, <2>4 DEF Owning, TypeOK, Announcing
      <3>2. framePart[job[t].fd] # job[t].request
        BY <1>2, <2>2, <2>4 DEF Apart
      <3>3. ~(pc[t] = "sendFrame" /\ job[t].fd = To(t))
        BY <2>4 DEF NoEcho
      <3>4. framePart'[job[t].fd] \in {framePart[job[t].fd], Nothing, 0}
        BY <1>2, <3>1, <3>3, PartsEffect
      <3> QED BY <1>0, <1>2, <3>2, <3>4 DEF Nothing
    <2> QED BY <2>3, <2>4
  <1>3. ASSUME NEW u \in Threads, Step(u), u # t
        PROVE  /\ Before(t)' => \A f \in Fds : replyPart'[f] # job'[t].request
               /\ t \in TcpWorkers /\ (Before(t)' \/ pc'[t] = "sendReply") =>
                     framePart'[job'[t].fd] # job'[t].request
    <2>1. pc'[t] = pc[t] /\ job'[t] = job[t]
      BY <1>3, ThreadFrame
    <2>2. job[u].request # job[t].request
      BY <1>3, <2>1 DEF Numbered
    <2>3. \A f \in Fds : /\ replyPart'[f] \in {replyPart[f], 0, job[u].request}
                         /\ framePart'[f] \in {framePart[f], Nothing, 0, job[u].request}
      BY <1>3, PartsEffect
    <2>4. t \in TcpWorkers /\ (Before(t) \/ pc[t] = "sendReply") => job[t].fd \in Fds
      BY DEF Owning, TypeOK, Announcing
    <2> QED BY <1>0, <2>1, <2>2, <2>3, <2>4 DEF Apart, Announcing, Nothing
  <1>4. CASE Client
    <2>1. UNCHANGED <<pc, job, replyPart, framePart>>
      BY <1>4 DEF Client, accept, clientReads, clientHangsUp, buffers
    <2> QED BY <2>1 DEF Apart, Announcing
  <1>5. CASE UNCHANGED vars
    BY <1>5 DEF vars, Apart, Announcing
  <1>6. Step(t) => \/ pc[t] = "idle" /\ job'[t].request = requests + 1
                   \/ job'[t] = job[t] /\ pc[t] # "idle"
    BY NumberEffect
  <1> QED BY <1>1, <1>2, <1>3, <1>4, <1>5, <1>6 DEF Next, Step

-----------------------------------------------------------------------------
(* A message that a client misses the rest of, to be counted. *)
CutOf(f, r) ==
    /\ f \in open \ gone
    /\ r \in {replyPart[f], framePart[f]} /\ r \notin {0, Nothing}
    /\ \A u \in Threads : ~(Midway(u) /\ To(u) = f /\ job[u].request = r)

(* Cuts are such messages, before and after a step. *)
LEMMA CutsAre ==
    /\ Cuts = {c \in Cuts : \E f, r : c = <<f, r>> /\ CutOf(f, r)}
    /\ \A f, r : CutOf(f, r) => <<f, r>> \in Cuts
    /\ Cuts' = {c \in Cuts' : \E f, r : c = <<f, r>> /\ CutOf(f, r)'}
  <1>1. Cuts = {c \in Cuts : \E f, r : c = <<f, r>> /\ CutOf(f, r)}
    BY DEF Cuts, Parts, Unfinished, CutOf
  <1>2. \A f, r : CutOf(f, r) => <<f, r>> \in Cuts
    BY DEF Cuts, Parts, Unfinished, CutOf
  <1>3. Cuts' = {c \in Cuts' : \E f, r : c = <<f, r>> /\ CutOf(f, r)'}
    BY DEF Cuts, Parts, Unfinished, CutOf
  <1> QED BY <1>1, <1>2, <1>3

(* A step that leaves a connection's parts alone, and whose thread was not   *)
(* in the middle of the message in question, cuts nothing.                   *)
LEMMA SameCut ==
    ASSUME TypeOK, Control, NEW t \in Threads, Step(t), NEW f, NEW r, CutOf(f, r)',
           r \in {replyPart[f], framePart[f]}, ~(Midway(t) /\ To(t) = f /\ job[t].request = r)
    PROVE  CutOf(f, r)
  <1>1. f \in open \ gone
    BY ListsEffect DEF CutOf
  <1>2. ASSUME NEW u \in Threads, u # t
        PROVE  ~(Midway(u) /\ To(u) = f /\ job[u].request = r)
    <2>1. pc'[u] = pc[u] /\ job'[u] = job[u] /\ send'[u] = send[u]
      BY <1>2, ThreadFrame
    <2> QED BY <2>1 DEF CutOf, Midway, Sending, Size, To
  <1> QED BY <1>1, <1>2 DEF CutOf

(* A step cuts no message, but one that gives up: it cuts the one it sends. *)
LEMMA CutStep ==
    ASSUME TypeOK, Control, CutInv, NEW t \in Threads, Step(t), NEW f, NEW r, CutOf(f, r)'
    PROVE  CutOf(f, r) \/ (sendSkip(t) /\ f = To(t) /\ r = job[t].request)
  <1> USE DEF Control
  <1>0. /\ f \in open /\ f \in open' /\ f \notin gone /\ f \in Fds
        /\ r \in {replyPart'[f], framePart'[f]} /\ r \notin {0, Nothing}
    BY ListsEffect DEF CutOf, TypeOK
  <1>1. CASE Quiet(t)
    BY <1>0, <1>1, SameCut DEF Quiet, Midway
  <1>2. CASE deleteSocket(t) \/ gcClose(t)
    <2>1. ~Sending(t)
      BY <1>2 DEF deleteSocket, gcClose, Sending
    <2>2. f # job[t].fd /\ replyPart'[f] = replyPart[f] /\ framePart'[f] = framePart[f]
      BY <1>0, <1>2 DEF deleteSocket, gcClose, Close, TypeOK
    <2> QED BY <1>0, <2>1, <2>2, SameCut DEF Midway
  <1>3. CASE sendPart(t)
    <2>1. /\ pc' = pc /\ job' = job /\ send'[t].fd = send[t].fd /\ Sending(t)
          /\ send'[t].left = send[t].left - room[To(t)]
      BY <1>3 DEF sendPart, TypeOK, Send
    <2>2. room[To(t)] \in Nat /\ room[To(t)] > 0 /\ room[To(t)] < send[t].left
      BY <1>3 DEF sendPart, TypeOK
    <2>3. send[t].left \in 1..Size(t) /\ Size(t) \in Nat /\ Size(t)' = Size(t)
      BY <2>1, BroadcastAssumption DEF CutInv, Sized, Size
    <2>4. Midway(t)'
      BY <2>1, <2>2, <2>3 DEF Midway, Sending
    <2>5. f = To(t) => r # job[t].request
      BY <2>1, <2>4 DEF CutOf, To
    <2>6. PartAfter(t, room[To(t)]) = job[t].request
      BY <2>2, <2>3 DEF PartAfter
    <2>7. r \in {replyPart[f], framePart[f]}
      BY <1>0, <1>3, <2>5, <2>6 DEF sendPart, Written, TypeOK
    <2> QED BY <2>5, <2>7, SameCut
  <1>4. CASE sendRest(t)
    <2>1. PartAfter(t, send[t].left) = 0
      BY DEF PartAfter
    <2>2. r \in {replyPart[f], framePart[f]}
      BY <1>0, <1>4, <2>1 DEF sendRest, Written, TypeOK
    <2>3. ASSUME f = To(t), job[t].request = r
          PROVE  FALSE
      <3>1. CASE pc[t] = "sendFrame"
        <4>1. r = replyPart[f]
          BY <1>0, <1>4, <2>1, <2>3, <3>1 DEF sendRest, Written, TypeOK
        <4> QED BY <1>0, <2>3, <3>1, <4>1 DEF CutInv, Apart, Announcing
      <3>2. CASE pc[t] = "sendReply"
        <4>1. r = framePart[f] /\ Sending(t)
          BY <1>0, <1>4, <2>1, <2>3, <3>2 DEF sendRest, Written, TypeOK
        <4>2. f = job[t].fd
          BY <2>3, <3>2, <4>1 DEF CutInv, Sized
        <4>3. t \in TcpWorkers
          BY <3>2, UdpApart DEF UdpPcs
        <4> QED BY <1>0, <2>3, <3>2, <4>1, <4>2, <4>3 DEF CutInv, Apart
      <3>3. CASE pc[t] = "sendTimeout"
        BY <1>0, <2>3, <3>3 DEF CutInv, Numbered
      <3> QED BY <1>4, <3>1, <3>2, <3>3 DEF sendRest, Sending
    <2> QED BY <2>2, <2>3, SameCut
  <1>5. CASE sendAgain(t)
    <2>1. /\ UNCHANGED <<pc, job, replyPart, framePart>>
          /\ send'[t].fd = send[t].fd /\ send'[t].left = send[t].left
      BY <1>5 DEF sendAgain, buffers, TypeOK, Send
    <2>2. ~(Midway(t) /\ To(t) = f /\ job[t].request = r)
      BY <2>1 DEF CutOf, Midway, Sending, Size, To
    <2> QED BY <1>0, <2>1, <2>2, SameCut
  <1>6. CASE sendSkip(t)
    BY <1>0, <1>6, SameCut DEF sendSkip
  <1>7. CASE sendOnce(t)
    <2>1. job[t].request = 0 /\ UNCHANGED <<replyPart, framePart>>
      BY <1>7 DEF sendOnce, buffers, CutInv, Numbered
    <2> QED BY <1>0, <2>1, SameCut
  <1>8. CASE sendFailed(t)
    <2>1. f # To(t) /\ UNCHANGED <<replyPart, framePart>>
      BY <1>0, <1>8 DEF sendFailed, buffers
    <2> QED BY <1>0, <2>1, SameCut
  <1> QED BY <1>1, <1>2, <1>3, <1>4, <1>5, <1>6, <1>7, <1>8, StepIs DEF send_

(* The counter moves when a message is given up, and only then. *)
LEMMA SkipsEffect ==
    ASSUME TypeOK, Control, NEW t \in Threads, Step(t)
    PROVE  send_skips' = IF sendSkip(t) THEN send_skips + 1 ELSE send_skips
  <1>1. CASE Quiet(t)
    BY <1>1 DEF Quiet, sendSkip, Full
  <1>2. CASE deleteSocket(t) \/ gcClose(t)
    BY <1>2 DEF deleteSocket, gcClose, Close, sendSkip, Full, Sending
  <1>3. CASE sendPart(t) \/ sendRest(t)
    <2>1. room[To(t)] > 0 \/ room[To(t)] >= send[t].left
      BY <1>3 DEF sendPart, sendRest
    <2> QED BY <1>3 DEF sendPart, sendRest, Written, sendSkip, Full
  <1>4. CASE sendAgain(t) \/ sendSkip(t) \/ sendOnce(t) \/ sendFailed(t)
    BY <1>4 DEF sendAgain, sendSkip, sendOnce, sendFailed, buffers
  <1> QED BY <1>1, <1>2, <1>3, <1>4, StepIs DEF send_

(* The clients cut nothing: a new connection is clean. *)
LEMMA ClientCut ==
    ASSUME TypeOK, Clean, Client \/ UNCHANGED vars, NEW f, NEW r, CutOf(f, r)'
    PROVE  CutOf(f, r)
  <1>1. UNCHANGED <<pc, job, send, replyPart, framePart>>
    BY DEF Client, accept, clientReads, clientHangsUp, buffers, vars
  <1>2. f \in open \ gone
    <2>1. CASE accept
      <3>1. f \in open' /\ gone' = gone /\ r \in {replyPart[f], framePart[f]} /\ r \notin {0, Nothing}
        BY <1>1, <2>1 DEF accept, CutOf
      <3>2. f \in Fds
        BY <2>1, <3>1 DEF accept, TypeOK
      <3>3. f \in open
        BY <3>1, <3>2 DEF Clean
      <3> QED BY <3>1, <3>3 DEF CutOf
    <2>2. CASE (\E g \in Fds : clientReads(g) \/ clientHangsUp(g)) \/ UNCHANGED vars
      BY <2>2 DEF clientReads, clientHangsUp, net, vars, CutOf
    <2> QED BY <2>1, <2>2 DEF Client
  <1> QED BY <1>1, <1>2 DEF CutOf, Midway, Sending, Size, To

(* A step adds one cut at most, and counts it. *)
LEMMA CutsStep ==
    ASSUME TypeOK, Control, CutInv, [Next]_vars
    PROVE  \/ Cuts' \subseteq Cuts /\ send_skips' = send_skips
           \/ send_skips' = send_skips + 1 /\ \E c : Cuts' \subseteq Cuts \cup {c}
  <1>1. ASSUME NEW t \in Threads, Step(t), sendSkip(t)
        PROVE  Cuts' \subseteq Cuts \cup {<<To(t), job[t].request>>}
    <2>1. \A f, r : CutOf(f, r)' => CutOf(f, r) \/ (f = To(t) /\ r = job[t].request)
      BY <1>1, CutStep
    <2> QED BY <2>1, CutsAre
  <1>2. ASSUME NEW t \in Threads, Step(t), ~sendSkip(t)
        PROVE  Cuts' \subseteq Cuts
    <2>1. \A f, r : CutOf(f, r)' => CutOf(f, r)
      BY <1>2, CutStep
    <2> QED BY <2>1, CutsAre
  <1>3. CASE Client \/ UNCHANGED vars
    <2>1. \A f, r : CutOf(f, r)' => CutOf(f, r)
      BY <1>3, ClientCut DEF CutInv
    <2>2. Cuts' \subseteq Cuts
      BY <2>1, CutsAre
    <2>3. send_skips' = send_skips
      BY <1>3 DEF Client, accept, clientReads, clientHangsUp, buffers, vars
    <2> QED BY <2>2, <2>3
  <1> QED BY <1>1, <1>2, <1>3, SkipsEffect DEF Next, Step

(* Every message that a client misses the rest of was counted. *)
Counted == IsFiniteSet(Cuts) /\ CutsCounted

(* One more cut, one more skip. *)
LEMMA CountedStep ==
    ASSUME TypeOK, Control, CutInv, Counted, [Next]_vars
    PROVE  Counted'
  <1>0. IsFiniteSet(Cuts) /\ Cardinality(Cuts) \in Nat /\ Cardinality(Cuts) <= send_skips /\ send_skips \in Nat
    BY FS_CardinalityType DEF Counted, CutsCounted, TypeOK
  <1>1. CASE Cuts' \subseteq Cuts /\ send_skips' = send_skips
    <2>1. IsFiniteSet(Cuts') /\ Cardinality(Cuts') <= Cardinality(Cuts)
      BY <1>0, <1>1, FS_Subset
    <2>2. Cardinality(Cuts') \in Nat
      BY <2>1, FS_CardinalityType
    <2> QED BY <1>0, <1>1, <2>1, <2>2 DEF Counted, CutsCounted
  <1>2. ASSUME send_skips' = send_skips + 1, NEW c, Cuts' \subseteq Cuts \cup {c}
        PROVE  Counted'
    <2>1. IsFiniteSet(Cuts \cup {c}) /\ Cardinality(Cuts \cup {c}) <= Cardinality(Cuts) + 1
      BY <1>0, FS_AddElement
    <2>2. IsFiniteSet(Cuts') /\ Cardinality(Cuts') <= Cardinality(Cuts \cup {c})
      BY <1>2, <2>1, FS_Subset
    <2>3. Cardinality(Cuts') \in Nat /\ Cardinality(Cuts \cup {c}) \in Nat
      BY <2>1, <2>2, FS_CardinalityType
    <2> QED BY <1>0, <1>2, <2>1, <2>2, <2>3 DEF Counted, CutsCounted
  <1> QED BY <1>1, <1>2, CutsStep

(* In the beginning nothing was sent. *)
LEMMA CutInvInit ==
    ASSUME Init
    PROVE  CutInv /\ Counted
  <1>1. CutInv
    <2>1. Sized /\ NoEcho
      BY BroadcastAssumption DEF Init, Sized, NoEcho, Sending, Threads
    <2>2. Clean
      BY DEF Init, Clean
    <2>3. Numbered /\ Apart
      BY DEF Init, Numbered, Apart, NoJob, Nothing
    <2> QED BY <2>1, <2>2, <2>3 DEF CutInv
  <1>2. Cuts = {}
    BY DEF Init, Cuts
  <1> QED BY <1>1, <1>2, FS_EmptySet DEF Counted, CutsCounted, Init

(* A client that is still there misses the rest of a message only when      *)
(* send_skips counted it, for any sizes, retries and numbers of threads:    *)
(* neither a reply nor a frame is ever cut in silence.                      *)
THEOREM CutsCorrect == Spec => []CutsCounted
  <1>1. Init => CutInv /\ Counted
    BY CutInvInit
  <1>2. IInv /\ CutInv /\ Counted /\ [Next]_vars => CutInv' /\ Counted'
    <2> SUFFICES ASSUME IInv, CutInv, Counted, [Next]_vars PROVE CutInv' /\ Counted'
      OBVIOUS
    <2>1. TypeOK /\ Control /\ Owning
      BY DEF IInv
    <2>2. Sized /\ Numbered /\ Clean /\ NoEcho /\ Apart
      BY DEF CutInv
    <2>3. Sized' /\ Numbered' /\ Clean' /\ NoEcho' /\ Apart'
      BY <2>1, <2>2, SizedStep, NumberedStep, CleanStep, NoEchoStep, ApartStep
    <2>4. Counted'
      BY <2>1, CountedStep
    <2> QED BY <2>3, <2>4 DEF CutInv
  <1>3. Counted => CutsCounted
    BY DEF Counted
  <1> QED BY <1>1, <1>2, <1>3, Invariance, PTL DEF Spec
=============================================================================
