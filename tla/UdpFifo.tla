------------------------------ MODULE UdpFifo ------------------------------
(***************************************************************************)
(* What the queue between the UDP listener and its workers promises: the   *)
(* datagrams are handed to the workers in the order they arrived, each to  *)
(* one worker only.                                                        *)
(***************************************************************************)
EXTENDS Naturals, Sequences

CONSTANTS
    UdpWorkers,
    MaxRequests     \* bound: datagrams that are received

VARIABLES
    received,       \* receiveCount
    fifo,           \* requests that wait, oldest first
    current         \* the request each worker serves, 0 for none

fifoVars == <<received, fifo, current>>

FifoInit ==
    /\ received = 0
    /\ fifo = <<>>
    /\ current = [w \in UdpWorkers |-> 0]

Put ==
    /\ received < MaxRequests
    /\ received' = received + 1
    /\ fifo' = Append(fifo, received')
    /\ UNCHANGED current

Take(w) ==
    /\ fifo # <<>> /\ current[w] = 0
    /\ current' = [current EXCEPT ![w] = Head(fifo)]
    /\ fifo' = Tail(fifo)
    /\ UNCHANGED received

Finish(w) ==
    /\ current[w] # 0
    /\ current' = [current EXCEPT ![w] = 0]
    /\ UNCHANGED <<received, fifo>>

FifoNext == Put \/ \E w \in UdpWorkers : Take(w) \/ Finish(w)

FifoSpec == FifoInit /\ [][FifoNext]_fifoVars
=============================================================================
