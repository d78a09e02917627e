------------------------------ MODULE UdpQueue ------------------------------
(***************************************************************************)
(* The UDP listener thread (socket_udp.c) and its workers                  *)
(* (thread_client_udp.c), which share a linked list of requests            *)
(* (udp_request.c) under semaphoreRequest, and a condition variable with   *)
(* its own mutex on which a worker that found no request sleeps.           *)
(*                                                                         *)
(* Requests are numbered by receiveCount; 0 is the NULL pointer.  Serving  *)
(* a request (module Tracker) is one step here.                            *)
(***************************************************************************)
EXTENDS Naturals, Sequences, FiniteSets

CONSTANTS
    UdpWorkers,
    MaxRequests     \* bound: datagrams that are received

ASSUME WorkersAssumption == UdpWorkers # {}
ASSUME RequestsAssumption == MaxRequests \in Nat

Requests == 1 .. MaxRequests
Pointers == 0 .. MaxRequests

VARIABLES
    firstRequest, lastRequest,  \* the ends of the list
    next,                       \* the next field of every request
    semaphoreRequest,           \* 1 when it is free
    mutex,                      \* mutexSignalRequest: 1 when it is free
    waiting,                    \* workers asleep in pthread_cond_wait
    listener,                   \* where the listener is
    receiveCount,               \* datagrams received so far
    pc,                         \* where each worker is
    request,                    \* each worker's udpRequest, 0 for NULL
    served                      \* history: requests that were answered

listVars == <<firstRequest, lastRequest, next>>
queueVars == <<listVars, semaphoreRequest, mutex, waiting, listener, receiveCount, pc, request, served>>

QueueTypeOK ==
    /\ firstRequest \in Pointers /\ lastRequest \in Pointers
    /\ next \in [Requests -> Pointers]
    /\ semaphoreRequest \in {0, 1} /\ mutex \in {0, 1}
    /\ waiting \subseteq UdpWorkers
    /\ listener \in {"recv", "wait", "link", "last", "post", "lock", "signal", "unlock"}
    /\ receiveCount \in Pointers
    /\ pc \in [UdpWorkers -> {"wait", "first", "advance", "post", "serve", "lock", "sleep",
                              "asleep", "unlock"}]
    /\ request \in [UdpWorkers -> Pointers]
    /\ served \subseteq Requests

QueueInit ==
    /\ firstRequest = 0 /\ lastRequest = 0
    /\ next = [r \in Requests |-> 0]
    /\ semaphoreRequest = 1 /\ mutex = 1
    /\ waiting = {}
    /\ listener = "recv"
    /\ receiveCount = 0
    /\ pc = [w \in UdpWorkers |-> "wait"]
    /\ request = [w \in UdpWorkers |-> 0]
    /\ served = {}

-----------------------------------------------------------------------------
(* The listener: serverUdpHandler.  A failed recvfrom changes nothing.     *)
listenerOnly == UNCHANGED <<pc, request, served>>

recvfrom ==
    /\ listener = "recv"
    /\ receiveCount < MaxRequests
    /\ receiveCount' = receiveCount + 1
    /\ listener' = "wait"
    /\ UNCHANGED <<listVars, semaphoreRequest, mutex, waiting>> /\ listenerOnly

listenerWait ==
    /\ listener = "wait"
    /\ semaphoreRequest = 1
    /\ semaphoreRequest' = 0
    /\ listener' = "link"
    /\ UNCHANGED <<listVars, mutex, waiting, receiveCount>> /\ listenerOnly

(* Mutant: the request is linked in front of the list. *)
addLinkFirst ==
    /\ listener = "link"
    /\ firstRequest' = receiveCount
    /\ next' = [next EXCEPT ![receiveCount] = firstRequest]
    /\ listener' = "last"
    /\ UNCHANGED <<lastRequest, semaphoreRequest, mutex, waiting, receiveCount>> /\ listenerOnly

(* addUdpRequest: the request is linked to the list, then it becomes the last. *)
addLink ==
    /\ listener = "link"
    /\ IF lastRequest = 0
       THEN firstRequest' = receiveCount /\ UNCHANGED next
       ELSE next' = [next EXCEPT ![lastRequest] = receiveCount] /\ UNCHANGED firstRequest
    /\ listener' = "last"
    /\ UNCHANGED <<lastRequest, semaphoreRequest, mutex, waiting, receiveCount>> /\ listenerOnly

addLast ==
    /\ listener = "last"
    /\ lastRequest' = receiveCount
    /\ listener' = "post"
    /\ UNCHANGED <<firstRequest, next, semaphoreRequest, mutex, waiting, receiveCount>>
    /\ listenerOnly

listenerPost ==
    /\ listener = "post"
    /\ semaphoreRequest' = semaphoreRequest + 1
    /\ listener' = "lock"
    /\ UNCHANGED <<listVars, mutex, waiting, receiveCount>> /\ listenerOnly

listenerLock ==
    /\ listener = "lock"
    /\ mutex = 1
    /\ mutex' = 0
    /\ listener' = "signal"
    /\ UNCHANGED <<listVars, semaphoreRequest, waiting, receiveCount>> /\ listenerOnly

(* Mutant: nobody is woken. *)
signalNobody ==
    /\ listener = "signal"
    /\ UNCHANGED waiting
    /\ listener' = "unlock"
    /\ UNCHANGED <<listVars, semaphoreRequest, mutex, receiveCount>> /\ listenerOnly

(* pthread_cond_signal wakes one of the workers that sleep, if any does. *)
signal ==
    /\ listener = "signal"
    /\ IF waiting = {} THEN UNCHANGED waiting ELSE \E w \in waiting : waiting' = waiting \ {w}
    /\ listener' = "unlock"
    /\ UNCHANGED <<listVars, semaphoreRequest, mutex, receiveCount>> /\ listenerOnly

listenerUnlock ==
    /\ listener = "unlock"
    /\ mutex' = 1
    /\ listener' = "recv"
    /\ UNCHANGED <<listVars, semaphoreRequest, waiting, receiveCount>> /\ listenerOnly

Listen ==
    \/ listenerWait \/ addLink \/ addLast \/ listenerPost
    \/ listenerLock \/ signal \/ listenerUnlock

-----------------------------------------------------------------------------
(* A worker: clientUdpHandler *)
workerOnly == UNCHANGED <<listener, receiveCount>>

workerWait(w) ==
    /\ pc[w] = "wait"
    /\ semaphoreRequest = 1
    /\ semaphoreRequest' = 0
    /\ pc' = [pc EXCEPT ![w] = "first"]
    /\ UNCHANGED <<listVars, mutex, waiting, request, served>> /\ workerOnly

(* pullUdpRequest reads the first request, then takes it off the list. *)
pullFirst(w) ==
    /\ pc[w] = "first"
    /\ request' = [request EXCEPT ![w] = firstRequest]
    /\ pc' = [pc EXCEPT ![w] = IF firstRequest = 0 THEN "post" ELSE "advance"]
    /\ UNCHANGED <<listVars, semaphoreRequest, mutex, waiting, served>> /\ workerOnly

(* Mutant: the rest of the list is lost. *)
pullAdvanceDropsRest(w) ==
    /\ pc[w] = "advance"
    /\ firstRequest' = 0
    /\ lastRequest' = 0
    /\ pc' = [pc EXCEPT ![w] = "post"]
    /\ UNCHANGED <<next, semaphoreRequest, mutex, waiting, request, served>> /\ workerOnly

pullAdvance(w) ==
    /\ pc[w] = "advance"
    /\ firstRequest' = next[firstRequest]
    /\ lastRequest' = IF firstRequest' = 0 THEN 0 ELSE lastRequest
    /\ pc' = [pc EXCEPT ![w] = "post"]
    /\ UNCHANGED <<next, semaphoreRequest, mutex, waiting, request, served>> /\ workerOnly

workerPost(w) ==
    /\ pc[w] = "post"
    /\ semaphoreRequest' = semaphoreRequest + 1
    /\ pc' = [pc EXCEPT ![w] = IF request[w] = 0 THEN "lock" ELSE "serve"]
    /\ UNCHANGED <<listVars, mutex, waiting, request, served>> /\ workerOnly

(* The request is answered and freed. *)
serve(w) ==
    /\ pc[w] = "serve"
    /\ served' = served \cup {request[w]}
    /\ request' = [request EXCEPT ![w] = 0]
    /\ pc' = [pc EXCEPT ![w] = "wait"]
    /\ UNCHANGED <<listVars, semaphoreRequest, mutex, waiting>> /\ workerOnly

workerLock(w) ==
    /\ pc[w] = "lock"
    /\ mutex = 1
    /\ mutex' = 0
    /\ pc' = [pc EXCEPT ![w] = "sleep"]
    /\ UNCHANGED <<listVars, semaphoreRequest, waiting, request, served>> /\ workerOnly

(* pthread_cond_wait releases the mutex and sleeps in one step ... *)
sleep(w) ==
    /\ pc[w] = "sleep"
    /\ waiting' = waiting \cup {w}
    /\ mutex' = 1
    /\ pc' = [pc EXCEPT ![w] = "asleep"]
    /\ UNCHANGED <<listVars, semaphoreRequest, request, served>> /\ workerOnly

(* ... may wake without a signal ... *)
wakeSpuriously(w) ==
    /\ w \in waiting
    /\ waiting' = waiting \ {w}
    /\ UNCHANGED <<listVars, semaphoreRequest, mutex, pc, request, served>> /\ workerOnly

(* ... and returns with the mutex. *)
wake(w) ==
    /\ pc[w] = "asleep" /\ w \notin waiting
    /\ mutex = 1
    /\ mutex' = 0
    /\ pc' = [pc EXCEPT ![w] = "unlock"]
    /\ UNCHANGED <<listVars, semaphoreRequest, waiting, request, served>> /\ workerOnly

workerUnlock(w) ==
    /\ pc[w] = "unlock"
    /\ mutex' = 1
    /\ pc' = [pc EXCEPT ![w] = "wait"]
    /\ UNCHANGED <<listVars, semaphoreRequest, waiting, request, served>> /\ workerOnly

Lock(w) == workerWait(w) \/ workerLock(w) \/ wake(w)

Run(w) ==
    \/ pullFirst(w) \/ pullAdvance(w) \/ workerPost(w) \/ serve(w)
    \/ sleep(w) \/ workerUnlock(w)

-----------------------------------------------------------------------------
QueueNext ==
    \/ recvfrom \/ Listen
    \/ \E w \in UdpWorkers : Lock(w) \/ Run(w) \/ wakeSpuriously(w)

(* Threads keep running and get a lock that is released again and again;   *)
(* neither a further datagram nor a spurious wake-up is promised.          *)
QueueFairness ==
    /\ SF_queueVars(Listen)
    /\ \A w \in UdpWorkers : WF_queueVars(Run(w)) /\ SF_queueVars(Lock(w))

QueueSpec == QueueInit /\ [][QueueNext]_queueVars /\ QueueFairness

-----------------------------------------------------------------------------
(* s is what one meets from firstRequest along next to NULL. *)
Follows(s) ==
    LET n == Len(s)
    IN  /\ firstRequest = IF n = 0 THEN 0 ELSE s[1]
        /\ \A i \in 1 .. n : next[s[i]] = IF i = n THEN 0 ELSE s[i + 1]

(* The requests in the list, oldest first. *)
Chain == CHOOSE s \in UNION {[1 .. n -> Requests] : n \in Pointers} : Follows(s)

Queued(r) == \E i \in 1 .. Len(Chain) : Chain[i] = r

(* A worker owns the request once it is off the list. *)
Owned(w) == IF pc[w] = "advance" THEN 0 ELSE request[w]

(* The linked list implements a queue: each datagram goes to one worker,   *)
(* in the order of arrival, however the steps of addUdpRequest and         *)
(* pullUdpRequest interleave.                                              *)
Fifo == INSTANCE UdpFifo WITH
            received <- IF listener \in {"wait", "link"} THEN receiveCount - 1 ELSE receiveCount,
            fifo <- Chain,
            current <- [w \in UdpWorkers |-> Owned(w)]
FifoSpec == Fifo!FifoSpec

(* Once the listener signals while a worker sleeps, all that is queued is  *)
(* served: the worker that wakes pulls until the list is empty.            *)
SignalDrains ==
    \A r \in Requests :
        Queued(r) /\ listener = "signal" /\ waiting # {} ~> r \in served

(* A queued request is served unless it stays queued while every worker    *)
(* goes to sleep: no request is dropped, and none is held up while the     *)
(* workers keep pulling.                                                   *)
ServedOrAllAsleep ==
    \A r \in Requests :
        Queued(r) ~> (r \in served \/ (Queued(r) /\ waiting = UdpWorkers))

(* Every datagram that is received is served ("// SIGNAL", socket_udp.c:166, *)
(* is there to wake a worker for it).                                        *)
EveryRequestServed == \A r \in Requests : receiveCount >= r ~> r \in served
=============================================================================
