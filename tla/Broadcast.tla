----------------------------- MODULE Broadcast -----------------------------
(* Replies and websocket frames on their way to the clients: send_ of        *)
(* socket.c, broadcast of websocket.c, and the code around them that opens,  *)
(* registers and closes the connections they write to.                       *)
(*                                                                           *)
(* pc is indexed by the TCP workers and the UDP workers.  A TCP worker holds *)
(* the semaphore of its socket list while it works, and so does the timeout  *)
(* thread: pc[w] is the state of whoever holds the list of w.  The list of   *)
(* websockets has a single leaf with one semaphore, the variable leaf.       *)
EXTENDS Integers, Sequences, FiniteSets, FiniteSetsExt

CONSTANTS
    TcpWorkers,      \* clientTcpHandler threads, one socket list each
    UdpWorkers,      \* clientUdpHandler threads
    Fds,             \* descriptors the kernel hands out, natural numbers
    MaxRequests,     \* bound: requests received
    ReplySize,       \* length of an HTTP reply
    FrameSize,       \* WEBSOCKET_SIZE_FRAME
    BufferSize,      \* room in the send buffer of a socket
    ErrorLimit,      \* errorLimitCount
    Free             \* the websockets' semaphore is not taken

ASSUME BroadcastAssumption ==
    /\ Fds \subseteq Nat /\ TcpWorkers \cap UdpWorkers = {}
    /\ Free \notin TcpWorkers \cup UdpWorkers
    /\ MaxRequests \in Nat
    /\ {ReplySize, FrameSize, BufferSize, ErrorLimit} \subseteq Nat \ {0}

VARIABLES
    open,        \* descriptors that are a connection
    owner,       \* the worker whose socket list has the descriptor
    gone,        \* descriptors of connections whose client hung up
    room,        \* room left in the send buffer of a connection
    replyPart,   \* the request whose reply a connection has a part of, or 0
    framePart,   \* the same for the last frame; 0 when it is complete, Nothing without one
    upgraded,    \* connections that became websockets
    websockets,  \* the list of websockets: descriptors
    leaf,        \* who holds its semaphore
    requests,    \* requests received so far
    send_skips,  \* the counter of stats
    pc,          \* the state of a thread
    job,         \* the request it works on: descriptor, number, and what becomes of the connection
    todo,        \* what is left of the walk of mapList
    send         \* the locals of send_: descriptor, size left, errorLimitCount

vars == <<open, owner, gone, room, replyPart, framePart, upgraded, websockets, leaf,
          requests, send_skips, pc, job, todo, send>>
net == <<open, owner, gone, upgraded>>
buffers == <<room, replyPart, framePart, send_skips>>

Threads == TcpWorkers \cup UdpWorkers
Job == [fd : Fds \cup {0}, request : 0..MaxRequests, keep : BOOLEAN]
Send == [fd : Fds \cup {0}, left : 0..Max({ReplySize, FrameSize}), tries : 0..ErrorLimit]
NoJob == [fd |-> 0, request |-> 0, keep |-> FALSE]
Nothing == -1
NoSend == [fd |-> 0, left |-> 0, tries |-> 0]

Init ==
    /\ open = {} /\ gone = {}
    /\ owner \in [Fds -> TcpWorkers]
    /\ room = [f \in Fds |-> BufferSize]
    /\ replyPart = [f \in Fds |-> 0]
    /\ framePart = [f \in Fds |-> Nothing]
    /\ upgraded = {}
    /\ websockets = {}
    /\ leaf = Free
    /\ requests = 0
    /\ send_skips = 0
    /\ pc = [t \in Threads |-> "idle"]
    /\ job = [t \in Threads |-> NoJob]
    /\ todo = [t \in Threads |-> {}]
    /\ send = [t \in Threads |-> NoSend]

(* The locals of a request are gone when its thread is back in its loop. *)
Goto(t, next) ==
    /\ pc' = [pc EXCEPT ![t] = next]
    /\ job' = [job EXCEPT ![t] = IF next = "idle" THEN NoJob ELSE @]

(* The clients and the network: a client connects, reads what it was sent,   *)
(* or hangs up.  The kernel gives a new connection the lowest free           *)
(* descriptor; the listener hands it to any worker.                          *)
accept ==
    /\ \E f \in Fds \ open, w \in TcpWorkers :
        /\ \A g \in Fds \ open : f <= g
        /\ open' = open \cup {f}
        /\ owner' = [owner EXCEPT ![f] = w]
    /\ UNCHANGED <<gone, upgraded, buffers, websockets, leaf, requests, pc, job, todo, send>>

clientReads(f) ==
    /\ f \in open /\ room[f] < BufferSize
    /\ room' = [room EXCEPT ![f] = BufferSize]
    /\ UNCHANGED <<net, replyPart, framePart, send_skips, websockets, leaf, requests, pc, job, todo, send>>

clientHangsUp(f) ==
    /\ f \in open \ gone
    /\ gone' = gone \cup {f}
    /\ UNCHANGED <<open, owner, upgraded, buffers, websockets, leaf, requests, pc, job, todo, send>>

-----------------------------------------------------------------------------
(* send_: start a message, one call of send per step, and the ways it ends. *)
StartSend(t, f, size) == send' = [send EXCEPT ![t] = [fd |-> f, left |-> size, tries |-> ErrorLimit]]
Sending(t) == pc[t] \in {"sendFrame", "sendReply", "sendTimeout"}
Size(t) == IF pc[t] = "sendFrame" THEN FrameSize ELSE ReplySize
To(t) == send[t].fd

(* Where the callers of send_ go on: the walk of broadcast, the end of       *)
(* processRead, the rest of garbageSocketTimeoutCallback.                    *)
Return(t) ==
    /\ Goto(t, CASE pc[t] = "sendFrame" -> "nextFrame"
                 [] pc[t] = "sendTimeout" -> "gcDeleteWebsocket"
                 [] pc[t] = "sendReply" /\ job[t].keep -> "idle"
                 [] OTHER -> "close")
    /\ send' = [send EXCEPT ![t] = NoSend]
    /\ UNCHANGED <<net, websockets, leaf, requests, todo>>

(* What the client has a part of when k more bytes are sent. *)
PartAfter(t, k) == IF k = send[t].left THEN 0 ELSE job[t].request

(* send takes what fits into the buffer; size and message move on by that. *)
Written(t, k) ==
    /\ room' = [room EXCEPT ![To(t)] = @ - k]
    /\ IF pc[t] = "sendFrame"
       THEN framePart' = [framePart EXCEPT ![To(t)] = PartAfter(t, k)] /\ UNCHANGED replyPart
       ELSE replyPart' = [replyPart EXCEPT ![To(t)] = PartAfter(t, k)] /\ UNCHANGED framePart
    /\ UNCHANGED send_skips

(* Mutant: a send_ that takes the first part for the whole. *)
sendPartOnly(t) ==
    /\ Sending(t) /\ To(t) \in open
    /\ room[To(t)] > 0 /\ room[To(t)] < send[t].left
    /\ Written(t, room[To(t)])
    /\ Return(t)

sendPart(t) ==
    /\ Sending(t) /\ To(t) \in open
    /\ room[To(t)] > 0 /\ room[To(t)] < send[t].left
    /\ Written(t, room[To(t)])
    /\ send' = [send EXCEPT ![t].left = @ - room[To(t)]]
    /\ UNCHANGED <<net, websockets, leaf, requests, pc, job, todo>>

sendRest(t) ==
    /\ Sending(t) /\ To(t) \in open
    /\ room[To(t)] >= send[t].left
    /\ Written(t, send[t].left)
    /\ Return(t)

(* EAGAIN: try again until errorLimitCount is used up; the message 408 of    *)
(* the timeout thread is tried once.                                         *)
Full(t) == Sending(t) /\ To(t) \in open /\ room[To(t)] = 0

(* Mutant: a send_ that never gives up. *)
sendAgainForever(t) ==
    /\ Full(t) /\ pc[t] # "sendTimeout"
    /\ send[t].tries > 1
    /\ UNCHANGED vars

sendAgain(t) ==
    /\ Full(t) /\ pc[t] # "sendTimeout"
    /\ send[t].tries > 1
    /\ send' = [send EXCEPT ![t].tries = @ - 1]
    /\ UNCHANGED <<net, buffers, websockets, leaf, requests, pc, job, todo>>

sendSkip(t) ==
    /\ Full(t) /\ pc[t] # "sendTimeout"
    /\ send[t].tries <= 1
    /\ send_skips' = send_skips + 1
    /\ Return(t) /\ UNCHANGED <<room, replyPart, framePart>>

sendOnce(t) == Full(t) /\ pc[t] = "sendTimeout" /\ Return(t) /\ UNCHANGED buffers

(* Any other errno: the descriptor is closed, or the client is gone. *)
sendFailed(t) ==
    /\ Sending(t)
    /\ To(t) \notin open \/ To(t) \in gone
    /\ Return(t) /\ UNCHANGED buffers

send_(t) == sendPart(t) \/ sendRest(t) \/ sendAgain(t) \/ sendSkip(t) \/ sendOnce(t) \/ sendFailed(t)

-----------------------------------------------------------------------------
(* Requests of the clients.  processRead takes the semaphore of the          *)
(* websockets to look the socket up and ignores what a websocket says.  An   *)
(* announce broadcasts a frame before its reply is sent; the request of a    *)
(* websocket registers the socket before its reply is sent.                  *)
Request(t, f, keep, next) ==
    /\ pc[t] = "idle"
    /\ requests < MaxRequests
    /\ requests' = requests + 1
    /\ job' = [job EXCEPT ![t] = [fd |-> f, request |-> requests + 1, keep |-> keep]]
    /\ pc' = [pc EXCEPT ![t] = next]

Readable(w, f) == owner[f] = w /\ f \in open /\ leaf = Free /\ f \notin websockets

announce(w, f) ==
    /\ Readable(w, f)
    /\ \E keep \in BOOLEAN : Request(w, f, keep, "broadcast")
    /\ UNCHANGED <<net, buffers, websockets, leaf, todo, send>>

otherRequest(w, f) ==
    /\ Readable(w, f)
    /\ \E keep \in BOOLEAN : Request(w, f, keep, "sendReply")
    /\ StartSend(w, f, ReplySize)
    /\ UNCHANGED <<net, buffers, websockets, leaf, todo>>

(* A request that is too long is answered before anything looks it up, also  *)
(* on a websocket, and the connection is closed after the reply.             *)
oversize(w, f) ==
    /\ owner[f] = w /\ f \in open
    /\ Request(w, f, FALSE, "sendReply")
    /\ StartSend(w, f, ReplySize)
    /\ UNCHANGED <<net, buffers, websockets, leaf, todo>>

upgrade(w, f) ==
    /\ Readable(w, f)
    /\ Request(w, f, TRUE, "setWebsocket")
    /\ UNCHANGED <<net, buffers, websockets, leaf, todo, send>>

setWebsocket(w) ==
    /\ pc[w] = "setWebsocket"
    /\ leaf = Free
    /\ websockets' = websockets \cup {job[w].fd}
    /\ upgraded' = upgraded \cup {job[w].fd}
    /\ StartSend(w, job[w].fd, ReplySize)
    /\ pc' = [pc EXCEPT ![w] = "sendReply"]
    /\ UNCHANGED <<open, owner, gone, buffers, leaf, requests, job, todo>>

announceUdp(u) ==
    /\ Request(u, 0, TRUE, "broadcast")
    /\ UNCHANGED <<net, buffers, websockets, leaf, todo, send>>

(* broadcast: mapList looks at firstItem, waits for the semaphore, and calls *)
(* broadcastCallback for each websocket in the order of the list.            *)
AfterBroadcast(t) ==
    IF t \in UdpWorkers
    THEN Goto(t, "idle") /\ UNCHANGED send
    ELSE Goto(t, "sendReply") /\ StartSend(t, job[t].fd, ReplySize)

broadcast(t) ==
    /\ pc[t] = "broadcast"
    /\ IF websockets = {}
       THEN AfterBroadcast(t)
       ELSE Goto(t, "waitLeaf") /\ UNCHANGED send
    /\ UNCHANGED <<net, buffers, websockets, leaf, requests, todo>>

(* Mutant: a mapList that does not wait for the semaphore. *)
waitLeafNot(t) ==
    /\ pc[t] = "waitLeaf"
    /\ todo' = [todo EXCEPT ![t] = websockets]
    /\ pc' = [pc EXCEPT ![t] = "nextFrame"]
    /\ UNCHANGED <<net, buffers, websockets, leaf, requests, job, send>>

waitLeaf(t) ==
    /\ pc[t] = "waitLeaf"
    /\ leaf = Free
    /\ leaf' = t
    /\ todo' = [todo EXCEPT ![t] = websockets]
    /\ pc' = [pc EXCEPT ![t] = "nextFrame"]
    /\ UNCHANGED <<net, buffers, websockets, requests, job, send>>

broadcastCallback(t) ==
    /\ pc[t] = "nextFrame" /\ todo[t] # {}
    /\ StartSend(t, Min(todo[t]), FrameSize)
    /\ todo' = [todo EXCEPT ![t] = @ \ {Min(@)}]
    /\ pc' = [pc EXCEPT ![t] = "sendFrame"]
    /\ UNCHANGED <<net, buffers, websockets, leaf, requests, job>>

postLeaf(t) ==
    /\ pc[t] = "nextFrame" /\ todo[t] = {}
    /\ leaf' = Free
    /\ AfterBroadcast(t)
    /\ UNCHANGED <<net, buffers, websockets, requests, todo>>

-----------------------------------------------------------------------------
(* Closing: the worker closes the descriptor and then deletes it from the    *)
(* websockets; the timeout thread does it the other way round.  A worker     *)
(* closes without a reply when recv says that the client hung up, and when   *)
(* the second recv, after the look at the websockets, fails or reads another *)
(* length than the first: a live connection, a websocket or not.             *)
hungUp(w, f) ==
    /\ pc[w] = "idle" /\ owner[f] = w
    /\ f \in gone \/ (f \in open /\ leaf = Free)
    /\ job' = [job EXCEPT ![w] = [NoJob EXCEPT !.fd = f]]
    /\ pc' = [pc EXCEPT ![w] = "close"]
    /\ UNCHANGED <<net, buffers, websockets, leaf, requests, todo, send>>

Close(w, next) ==
    /\ LET f == job[w].fd IN
        /\ open' = open \ {f} /\ gone' = gone \ {f}
        /\ room' = [room EXCEPT ![f] = BufferSize]
        /\ replyPart' = [replyPart EXCEPT ![f] = 0] /\ framePart' = [framePart EXCEPT ![f] = Nothing]
        /\ upgraded' = upgraded \ {f}
    /\ Goto(w, next)
    /\ UNCHANGED <<owner, send_skips, websockets, leaf, requests, todo, send>>

DeleteWebsocket(w, next) ==
    /\ leaf = Free
    /\ websockets' = websockets \ {job[w].fd}
    /\ Goto(w, next)
    /\ UNCHANGED <<net, buffers, leaf, requests, todo, send>>

deleteSocket(w) == pc[w] = "close" /\ Close(w, "deleteWebsocket")
deleteWebsocket(w) == pc[w] = "deleteWebsocket" /\ DeleteWebsocket(w, "idle")

InGc(w) == pc[w] \in {"sendTimeout", "gcDeleteWebsocket", "gcClose"}

timeout(w, f) ==
    /\ pc[w] = "idle" /\ owner[f] = w /\ f \in open
    /\ \A v \in TcpWorkers : ~InGc(v)
    /\ job' = [job EXCEPT ![w] = [NoJob EXCEPT !.fd = f]]
    /\ pc' = [pc EXCEPT ![w] = "sendTimeout"]
    /\ StartSend(w, f, ReplySize)
    /\ UNCHANGED <<net, buffers, websockets, leaf, requests, todo>>

(* Mutant: a timeout that leaves the entry to the worker. *)
gcDeleteWebsocketNot(w) ==
    /\ pc[w] = "gcDeleteWebsocket"
    /\ Goto(w, "gcClose")
    /\ UNCHANGED <<net, buffers, websockets, leaf, requests, todo, send>>

gcDeleteWebsocket(w) == pc[w] = "gcDeleteWebsocket" /\ DeleteWebsocket(w, "gcClose")

gcClose(w) == pc[w] = "gcClose" /\ Close(w, "idle")

-----------------------------------------------------------------------------
Client == accept \/ \E f \in Fds : clientReads(f) \/ clientHangsUp(f)

Arrive(t) ==
    \/ t \in UdpWorkers /\ announceUdp(t)
    \/ t \in TcpWorkers /\ \E f \in Fds :

            \/ announce(t, f) \/ otherRequest(t, f) \/ oversize(t, f) \/ upgrade(t, f)
            \/ hungUp(t, f) \/ timeout(t, f)

Locks(t) == setWebsocket(t) \/ waitLeaf(t) \/ deleteWebsocket(t) \/ gcDeleteWebsocket(t)
Runs(t) == send_(t) \/ broadcast(t) \/ broadcastCallback(t) \/ postLeaf(t) \/ deleteSocket(t) \/ gcClose(t)

Next == Client \/ \E t \in Threads : Arrive(t) \/ Locks(t) \/ Runs(t)

(* A thread goes on once it has work, and a semaphore that is posted again   *)
(* and again is given to a waiting thread in the end.  Nothing makes a       *)
(* client read or send.                                                      *)
Fairness == \A t \in Threads : WF_vars(Runs(t)) /\ SF_vars(Locks(t))

Spec == Init /\ [][Next]_vars /\ Fairness

-----------------------------------------------------------------------------
(* Every variable has its type. *)
TypeOK ==
    /\ open \subseteq Fds /\ gone \subseteq open /\ owner \in [Fds -> TcpWorkers]
    /\ room \in [Fds -> 0..BufferSize]
    /\ replyPart \in [Fds -> 0..MaxRequests] /\ framePart \in [Fds -> (0..MaxRequests) \cup {Nothing}]
    /\ upgraded \subseteq open
    /\ websockets \subseteq Fds /\ leaf \in Threads \cup {Free}
    /\ requests \in 0..MaxRequests /\ send_skips \in Nat
    /\ job \in [Threads -> Job] /\ todo \in [Threads -> SUBSET Fds] /\ send \in [Threads -> Send]

(* Broadcasts of several threads never mix their frames: as long as a thread *)
(* is in the middle of a frame, nobody writes another frame to the same      *)
(* connection, whatever is sent in parts, retried, closed or reused in       *)
(* between (the semaphore of the websockets is held across send_).           *)
Midway(t) == Sending(t) /\ send[t].left \in 1..Size(t) - 1
FramesInOrder ==
    \A t \in Threads : pc[t] = "sendFrame" /\ Midway(t) => framePart[To(t)] \in {Nothing, job[t].request}

(* A client that is still there misses the rest of a message only when       *)
(* send_skips counted it: send_ goes on after a partial send until all is    *)
(* sent or errorLimitCount is used up.                                       *)
Unfinished(f) == {job[t].request : t \in {u \in Threads : Midway(u) /\ To(u) = f}}
Parts(f) == {replyPart[f], framePart[f]} \ ({0, Nothing} \cup Unfinished(f))
Cuts == UNION {{f} \X Parts(f) : f \in open \ gone}
CutsCounted == Cardinality(Cuts) <= send_skips

(* The list of websockets names only connections that asked for it, or ones  *)
(* whose worker is about to delete the entry: between the close of a         *)
(* descriptor and the deletion of its entry the kernel may give it to a new  *)
(* connection, and no other way leads to a foreign entry.                    *)
EntriesAccountedFor ==
    \A f \in websockets : f \in upgraded \/ \E w \in TcpWorkers : pc[w] = "deleteWebsocket" /\ job[w].fd = f

(* Every worker comes back to its loop, also when no client ever reads what  *)
(* it is sent: the retries of send_ end, and the semaphore of the websockets *)
(* is passed on.                                                             *)
WorkersReturn == \A t \in Threads : pc[t] # "idle" ~> pc[t] = "idle"
=============================================================================
