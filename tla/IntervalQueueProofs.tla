------------------------- MODULE IntervalQueueProofs -------------------------
(***************************************************************************)
(* Theorems about two parts that share no state: Interval, for every       *)
(* range, step and number of workers, and UdpQueue, for every number of    *)
(* workers and of datagrams.                                               *)
(*                                                                         *)
(* parseArguments keeps --min-interval and --max-interval in order; the    *)
(* theorems about the interval assume in addition that it starts in the    *)
(* range.                                                                  *)
(***************************************************************************)
EXTENDS Interval, UdpQueue, WellFoundedInduction, SequenceTheorems, TLAPS

InRange(x) == x \in UInt /\ minInterval <= x /\ x <= maxInterval

(* niceInterval returns an interval of the configured range. *)
LEMMA NiceInRange ==
    ASSUME NEW x \in UInt
    PROVE  InRange(niceInterval(x))
  BY RangeAssumption DEF InRange, niceInterval, UInt

(* Unsigned arithmetic stays within the width of an unsigned int. *)
LEMMA UnsignedType ==
    ASSUME NEW x \in UInt, NEW y \in UInt
    PROVE  AddU(x, y) \in UInt /\ SubU(x, y) \in UInt
  BY RangeAssumption DEF AddU, SubU, UInt

(* Every value updateInterval may choose is in the range. *)
LEMMA NextInRange ==
    ASSUME NEW x \in UInt, NEW value \in NextInterval(x)
    PROVE  InRange(value)
  BY NiceInRange, UnsignedType, StepAssumption DEF NextInterval

(* A load of interval by the changer is either still current or has been   *)
(* overwritten by /api/set with a value in the range; so the ++ (--) that  *)
(* follows starts at most at the upper (least at the lower) bound.         *)
ChangerInv ==
    /\ changer.pc \in {"lessRequire", "greaterRequire"} =>
           changer.seen = interval \/ InRange(interval)
    /\ changer.pc = "inc" => interval <= maxInterval
    /\ changer.pc = "dec" => interval >= minInterval

(* The inductive invariant: all that any thread is about to store is in   *)
(* the range.                                                              *)
RangeInv ==
    /\ TypeOK
    /\ WithinOneSecond
    /\ InRange(requireInterval)
    /\ gc.pc \in {"previous", "require"} => InRange(gc.localInterval)
    /\ \A s \in Setters : setter[s].pc # "idle" => InRange(setter[s].value)
    /\ ChangerInv

(* The values main sets satisfy RangeInv when -i is in the range. *)
LEMMA RangeInvInit ==
    ASSUME InRange(startInterval), Init
    PROVE  RangeInv
  BY RangeAssumption, StartAssumption, SetAssumption
     DEF Init, RangeInv, TypeOK, WithinOneSecond, InRange, ChangerInv, UInt

(* Every load and store of every thread preserves RangeInv. *)
LEMMA RangeInvStep ==
    ASSUME RangeInv, [Next]_vars
    PROVE  RangeInv'
  <1> USE RangeAssumption DEF UInt, fields
  <1>1. CASE compareLess
    BY <1>1 DEF compareLess, RangeInv, TypeOK, WithinOneSecond, InRange, ChangerInv
  <1>2. CASE compareLessRequire
    BY <1>2 DEF compareLessRequire, RangeInv, TypeOK, WithinOneSecond, InRange, ChangerInv
  <1>3. CASE compareGreater
    BY <1>3 DEF compareGreater, RangeInv, TypeOK, WithinOneSecond, InRange, ChangerInv
  <1>4. CASE compareGreaterRequire
    BY <1>4 DEF compareGreaterRequire, RangeInv, TypeOK, WithinOneSecond, InRange, ChangerInv
  <1>5. CASE increase
    BY <1>5 DEF increase, AddU, RangeInv, TypeOK, WithinOneSecond, InRange, ChangerInv
  <1>6. CASE decrease
    BY <1>6 DEF decrease, SubU, RangeInv, TypeOK, WithinOneSecond, InRange, ChangerInv
  <1>7. CASE checkInterval
    BY <1>7 DEF checkInterval, RangeInv, TypeOK, WithinOneSecond, InRange, ChangerInv
  <1>8. CASE checkRequire
    <2>0. 0 \in UInt
      OBVIOUS
    <2>1. gc' \in [pc: {"collect", "check"}, seen: UInt, localInterval: UInt]
      <3> HIDE DEF UInt
      <3> QED  BY <1>8, <2>0 DEF checkRequire, RangeInv, TypeOK
    <2> QED
      BY <1>8, <2>1 DEF checkRequire, RangeInv, TypeOK, WithinOneSecond, InRange, ChangerInv
  <1>9. CASE collect
    BY <1>9 DEF collect, RangeInv, TypeOK, WithinOneSecond, InRange, ChangerInv
  <1>10. ASSUME NEW value \in NextInterval(requireInterval), updateInterval(value)
         PROVE  RangeInv'
    <2>1. InRange(value)
      BY NextInRange DEF RangeInv, TypeOK
    <2> QED
      BY <1>10, <2>1 DEF updateInterval, RangeInv, TypeOK, WithinOneSecond, InRange, ChangerInv
  <1>11. CASE getloadavgFailed
    BY <1>11 DEF getloadavgFailed, RangeInv, TypeOK, WithinOneSecond, InRange, ChangerInv
  <1>12. CASE setPrevious
    BY <1>12 DEF setPrevious, RangeInv, TypeOK, WithinOneSecond, InRange, ChangerInv
  <1>13. CASE setRequire
    <2>0. 0 \in UInt
      OBVIOUS
    <2>1. gc' \in [pc: {"check"}, seen: UInt, localInterval: UInt]
      <3> HIDE DEF UInt
      <3> QED  BY <1>13, <2>0 DEF setRequire, RangeInv, TypeOK
    <2>2. InRange(requireInterval')
      BY <1>13 DEF setRequire, RangeInv, InRange
    <2> QED
      BY <1>13, <2>1, <2>2 DEF setRequire, RangeInv, TypeOK, WithinOneSecond, InRange, ChangerInv
  <1>14. ASSUME NEW s \in Setters, NEW value \in SetValues, ApiSet(s, value)
         PROVE  RangeInv'
    <2>1. InRange(niceInterval(value))
      BY NiceInRange, SetAssumption
    <2> QED
      BY <1>14, <2>1, SetAssumption
         DEF ApiSet, RangeInv, TypeOK, WithinOneSecond, InRange, ChangerInv
  <1>15. ASSUME NEW s \in Setters, forceInterval(s)
         PROVE  RangeInv'
    BY <1>15 DEF forceInterval, RangeInv, TypeOK, WithinOneSecond, InRange, ChangerInv
  <1>16. ASSUME NEW s \in Setters, forceRequire(s)
         PROVE  RangeInv'
    BY <1>16 DEF forceRequire, RangeInv, TypeOK, WithinOneSecond, InRange, ChangerInv
  <1>17. ASSUME NEW s \in Setters, forcePrevious(s)
         PROVE  RangeInv'
    BY <1>17 DEF forcePrevious, RangeInv, TypeOK, WithinOneSecond, InRange, ChangerInv
  <1>18. CASE UNCHANGED vars
    BY <1>18 DEF vars, RangeInv, TypeOK, WithinOneSecond, InRange, ChangerInv
  <1> QED
    BY <1>1, <1>2, <1>3, <1>4, <1>5, <1>6, <1>7, <1>8, <1>9, <1>10, <1>11, <1>12, <1>13, <1>14,
       <1>15, <1>16, <1>17, <1>18
       DEF Next, stepInterval, Collector, forceUpdateInterval

(* However the interval changer, the garbage collector and any number of   *)
(* /api/set requests interleave, the interval clients are told stays in    *)
(* the configured range up to one second.                                  *)
THEOREM WithinOneSecondCorrect ==
    ASSUME InRange(startInterval)
    PROVE  Spec => []WithinOneSecond
  <1>1. Init => RangeInv
    BY RangeInvInit
  <1>2. RangeInv /\ [Next]_vars => RangeInv'
    BY RangeInvStep
  <1>3. RangeInv => WithinOneSecond
    BY DEF RangeInv
  <1> QED  BY <1>1, <1>2, <1>3, PTL DEF Spec

-----------------------------------------------------------------------------
(* Until the first /api/set the changer alone writes interval and the      *)
(* collector alone writes requireInterval, so what each of them loaded is  *)
(* current.                                                                *)
Quiet ==
    /\ Distance(interval, requireInterval) <= INTERVAL_STEP_S
    /\ \A s \in Setters : setter[s].pc = "idle"
    /\ changer.pc \in {"lessRequire", "greaterRequire"} => changer.seen = interval
    /\ changer.pc = "inc" => interval < requireInterval
    /\ changer.pc = "dec" => interval > requireInterval
    /\ gc.pc = "checkRequire" /\ gc.seen = requireInterval => interval = requireInterval
    /\ gc.pc \in {"collect", "update", "previous", "require"} => interval = requireInterval
    /\ gc.pc \in {"previous", "require"} =>
           Distance(gc.localInterval, requireInterval) <= INTERVAL_STEP_S

AloneInv == sets = 0 => Quiet

(* The value updateInterval chooses is within one step of requireInterval, *)
(* provided that neither the step down nor the step up wraps.              *)
LEMMA NextIsNear ==
    ASSUME INTERVAL_STEP_S <= minInterval, maxInterval + INTERVAL_STEP_S <= UIntMax,
           NEW x, InRange(x), NEW value \in NextInterval(x)
    PROVE  Distance(value, x) <= INTERVAL_STEP_S
  BY RangeAssumption, StepAssumption
     DEF NextInterval, niceInterval, InRange, AddU, SubU, Distance, UInt

(* No step of the three kinds of threads breaks AloneInv: /api/set ends    *)
(* the quiet time, and before it forceUpdateInterval runs nowhere.         *)
LEMMA AloneInvStep ==
    ASSUME INTERVAL_STEP_S <= minInterval, maxInterval + INTERVAL_STEP_S <= UIntMax,
           RangeInv, AloneInv, [Next]_vars
    PROVE  AloneInv'
  <1> USE RangeAssumption, StepAssumption DEF UInt, fields
  <1>0. ASSUME NEW s \in Setters, NEW value \in SetValues, ApiSet(s, value)
        PROVE  AloneInv'
    BY <1>0, SetAssumption DEF ApiSet, RangeInv, TypeOK, AloneInv
  <1>a. SUFFICES ASSUME sets = 0, sets' = 0, Quiet
                 PROVE  Quiet' \/ \E s \in Setters, value \in SetValues : ApiSet(s, value)
    <2>1. sets' = sets \/ \E s \in Setters, value \in SetValues : ApiSet(s, value)
      BY DEF Next, stepInterval, Collector, forceUpdateInterval, compareLess, compareLessRequire,
         compareGreater, compareGreaterRequire, increase, decrease, checkInterval, checkRequire,
         collect, updateInterval, getloadavgFailed, setPrevious, setRequire, forceInterval,
         forceRequire, forcePrevious, vars
    <2> QED  BY <1>0, <2>1 DEF AloneInv
  <1>1. CASE compareLess
    BY <1>1, <1>a DEF compareLess, RangeInv, TypeOK, Quiet, Distance
  <1>2. CASE compareLessRequire
    BY <1>2, <1>a DEF compareLessRequire, RangeInv, TypeOK, Quiet, Distance
  <1>3. CASE compareGreater
    BY <1>3, <1>a DEF compareGreater, RangeInv, TypeOK, Quiet, Distance
  <1>4. CASE compareGreaterRequire
    BY <1>4, <1>a DEF compareGreaterRequire, RangeInv, TypeOK, Quiet, Distance
  <1>5. CASE increase
    BY <1>5, <1>a DEF increase, AddU, RangeInv, TypeOK, Quiet, Distance
  <1>6. CASE decrease
    BY <1>6, <1>a DEF decrease, SubU, RangeInv, TypeOK, Quiet, Distance
  <1>7. CASE checkInterval
    BY <1>7, <1>a DEF checkInterval, RangeInv, TypeOK, Quiet, Distance
  <1>8. CASE checkRequire
    <2>1. gc'.pc = "collect" => gc.seen = requireInterval
      BY <1>8 DEF checkRequire, RangeInv, TypeOK
    <2>2. gc'.pc \in {"collect", "check"}
      BY <1>8 DEF checkRequire, RangeInv, TypeOK
    <2> QED
      BY <1>8, <1>a, <2>1, <2>2 DEF checkRequire, RangeInv, TypeOK, Quiet, Distance
  <1>9. CASE collect
    BY <1>9, <1>a DEF collect, RangeInv, TypeOK, Quiet, Distance
  <1>10. ASSUME NEW value \in NextInterval(requireInterval), updateInterval(value)
         PROVE  Quiet'
    <2>1. Distance(value, requireInterval) <= INTERVAL_STEP_S
      BY NextIsNear DEF RangeInv
    <2>2. gc'.localInterval = value /\ gc'.pc = "previous"
      BY <1>10 DEF updateInterval, RangeInv, TypeOK
    <2> QED
      BY <1>10, <1>a, <2>1, <2>2 DEF updateInterval, Quiet, Distance
  <1>11. CASE getloadavgFailed
    BY <1>11, <1>a DEF getloadavgFailed, RangeInv, TypeOK, Quiet, Distance
  <1>12. CASE setPrevious
    BY <1>12, <1>a DEF setPrevious, RangeInv, TypeOK, Quiet, Distance
  <1>13. CASE setRequire
    <2>1. gc'.pc = "check"
      BY <1>13 DEF setRequire, RangeInv, TypeOK
    <2>2. requireInterval' = gc.localInterval /\ interval = requireInterval
      BY <1>13, <1>a DEF setRequire, Quiet
    <2>3. Distance(gc.localInterval, requireInterval) <= INTERVAL_STEP_S
      BY <1>13, <1>a DEF setRequire, Quiet
    <2>4. Distance(interval, requireInterval)' <= INTERVAL_STEP_S
      BY <1>13, <2>2, <2>3 DEF setRequire, RangeInv, TypeOK, Distance
    <2> QED
      BY <1>13, <1>a, <2>1, <2>2, <2>4 DEF setRequire, RangeInv, TypeOK, Quiet
  <1>14. ASSUME NEW s \in Setters, forceUpdateInterval(s)
         PROVE  FALSE
    BY <1>14, <1>a DEF forceUpdateInterval, forceInterval, forceRequire, forcePrevious, Quiet
  <1>15. CASE UNCHANGED vars
    BY <1>15, <1>a DEF vars, Quiet, Distance
  <1> QED
    BY <1>1, <1>2, <1>3, <1>4, <1>5, <1>6, <1>7, <1>8, <1>9, <1>10, <1>11, <1>12, <1>13, <1>14,
       <1>15
       DEF Next, stepInterval, Collector

(* When the step fits the range, as the clamps of parseArguments guarantee *)
(* for the real values (60 <= 239), the interval and the interval that is  *)
(* required are never more than a step apart until the first /api/set.     *)
THEOREM OneStepApartCorrect ==
    ASSUME InRange(startInterval), INTERVAL_STEP_S <= minInterval,
           maxInterval + INTERVAL_STEP_S <= UIntMax
    PROVE  Spec => []OneStepApart
  <1>1. Init => RangeInv /\ AloneInv
    <2>1. Init => RangeInv
      BY RangeInvInit
    <2>2. Init => AloneInv
      BY StepAssumption, StartAssumption, RangeAssumption
         DEF Init, AloneInv, Quiet, Distance, UInt
    <2> QED  BY <2>1, <2>2
  <1>2. RangeInv /\ AloneInv /\ [Next]_vars => RangeInv' /\ AloneInv'
    BY RangeInvStep, AloneInvStep
  <1>3. AloneInv => OneStepApart
    BY DEF AloneInv, Quiet, OneStepApart
  <1> QED  BY <1>1, <1>2, <1>3, PTL DEF Spec

-----------------------------------------------------------------------------
(* The queue of UDP requests: its inductive invariant. *)

(* The threads between the wait and the post of semaphoreRequest, and those  *)
(* with mutexSignalRequest.                                                  *)
ListenerInList == listener \in {"link", "last", "post"}
InList(w) == pc[w] \in {"first", "advance", "post"}
ListenerInMutex == listener \in {"signal", "unlock"}
InMutex(w) == pc[w] \in {"sleep", "unlock"}

(* Each of the two locks is held by one thread. *)
OneInList ==
    /\ ListenerInList => semaphoreRequest = 0 /\ \A w \in UdpWorkers : ~InList(w)
    /\ \A w \in UdpWorkers : InList(w) => semaphoreRequest = 0
    /\ \A v, w \in UdpWorkers : InList(v) /\ InList(w) => v = w
OneInMutex ==
    /\ ListenerInMutex => mutex = 0 /\ \A w \in UdpWorkers : ~InMutex(w)
    /\ \A w \in UdpWorkers : InMutex(w) => mutex = 0
    /\ \A v, w \in UdpWorkers : InMutex(v) /\ InMutex(w) => v = w

(* The last request that is linked to the list: the request that             *)
(* addUdpRequest is about to link is not.                                    *)
Linked == IF listener \in {"wait", "link"} THEN receiveCount - 1 ELSE receiveCount

(* The list holds the requests from the first to the last one linked, and    *)
(* lastRequest is behind by one while addUdpRequest sets it.                 *)
Listed ==
    /\ listener \in {"wait", "link", "last", "post", "lock", "signal", "unlock"} => receiveCount # 0
    /\ firstRequest # 0 => firstRequest <= Linked
    /\ \A r \in Requests : next[r] = IF r < Linked /\ next[r] # 0 THEN r + 1 ELSE 0
    /\ \A r \in Requests : firstRequest # 0 /\ firstRequest <= r /\ r < Linked => next[r] = r + 1
    /\ listener # "last" => lastRequest = IF firstRequest = 0 THEN 0 ELSE Linked
    /\ listener = "last" =>
        /\ firstRequest # 0
        /\ lastRequest = IF firstRequest = Linked THEN 0 ELSE Linked - 1

(* A worker has a request from pullUdpRequest until it has answered it. *)
Pulled ==
    \A w \in UdpWorkers :
        /\ pc[w] \notin {"advance", "post", "serve"} => request[w] = 0
        /\ pc[w] = "advance" => request[w] = firstRequest /\ firstRequest # 0
        /\ pc[w] = "serve" => request[w] # 0

QueueInv == QueueTypeOK /\ OneInList /\ OneInMutex /\ Listed /\ Pulled

(* The initial state satisfies it. *)
LEMMA QueueInvInit ==
    ASSUME QueueInit
    PROVE  QueueInv
  <1> USE RequestsAssumption DEF QueueInit
  <1>1. QueueTypeOK
    BY DEF QueueTypeOK, Requests, Pointers
  <1>2. OneInList /\ OneInMutex /\ Pulled
    BY DEF OneInList, OneInMutex, Pulled, ListenerInList, InList, ListenerInMutex, InMutex
  <1>3. Listed
    BY DEF Listed, Linked, Requests
  <1> QED  BY <1>1, <1>2, <1>3 DEF QueueInv

(* What a worker does. *)
WorkerStep(w) == Lock(w) \/ Run(w) \/ wakeSpuriously(w)

(* Every variable keeps its type: the two locks are not released twice. *)
LEMMA QueueTypeStep ==
    ASSUME QueueInv, [QueueNext]_queueVars
    PROVE  QueueTypeOK'
  <1> USE RequestsAssumption DEF QueueInv, QueueTypeOK, Requests, Pointers
  <1>1. CASE recvfrom
    BY <1>1 DEF recvfrom, listenerOnly, listVars
  <1>2. CASE listenerWait \/ listenerLock \/ listenerUnlock
    BY <1>2 DEF listenerWait, listenerLock, listenerUnlock, listenerOnly, listVars
  <1>7. CASE listenerPost
    <2>1. semaphoreRequest' = 1
      BY <1>7 DEF listenerPost, OneInList, ListenerInList
    <2> QED  BY <1>7, <2>1 DEF listenerPost, listenerOnly, listVars
  <1>3. CASE addLink
    <2>1. receiveCount \in Requests
      BY <1>3 DEF addLink, Listed
    <2> QED  BY <1>3, <2>1 DEF addLink, listenerOnly
  <1>4. CASE addLast \/ signal
    BY <1>4 DEF addLast, signal, listenerOnly, listVars
  <1>5. ASSUME NEW w \in UdpWorkers, WorkerStep(w)
        PROVE  QueueTypeOK'
    <2>1. CASE workerWait(w) \/ pullFirst(w)
      BY <2>1 DEF workerWait, pullFirst, workerOnly, listVars
    <2>2. CASE pullAdvance(w)
      <3>1. firstRequest \in Requests
        BY <2>2 DEF pullAdvance, Pulled
      <3> QED  BY <2>2, <3>1 DEF pullAdvance, workerOnly
    <2>3. CASE workerPost(w)
      BY <2>3 DEF workerPost, workerOnly, listVars, OneInList, InList
    <2>4. CASE serve(w)
      <3>1. request[w] \in Requests
        BY <2>4 DEF serve, Pulled
      <3>2. served' \subseteq Requests
        BY <2>4, <3>1 DEF serve
      <3>3. request' \in [UdpWorkers -> Pointers]
        BY <2>4 DEF serve
      <3>4. UNCHANGED <<listVars, semaphoreRequest, mutex, waiting, listener, receiveCount>>
        BY <2>4 DEF serve, workerOnly
      <3>5. pc' \in [UdpWorkers -> {"wait", "first", "advance", "post", "serve", "lock", "sleep",
                                   "asleep", "unlock"}]
        BY <2>4 DEF serve
      <3> QED  BY <3>2, <3>3, <3>4, <3>5 DEF listVars
    <2>5. CASE workerLock(w) \/ sleep(w) \/ wakeSpuriously(w) \/ wake(w) \/ workerUnlock(w)
      BY <2>5 DEF workerLock, sleep, wakeSpuriously, wake, workerUnlock, workerOnly, listVars
    <2> QED  BY <1>5, <2>1, <2>2, <2>3, <2>4, <2>5 DEF WorkerStep, Lock, Run
  <1>6. CASE UNCHANGED queueVars
    BY <1>6 DEF queueVars, listVars
  <1> QED  BY <1>1, <1>2, <1>3, <1>4, <1>5, <1>6, <1>7 DEF QueueNext, Listen, WorkerStep

(* The locks exclude. *)
LEMMA LocksStep ==
    ASSUME QueueInv, [QueueNext]_queueVars
    PROVE  OneInList' /\ OneInMutex'
  <1>0. OneInList /\ OneInMutex /\ pc \in [UdpWorkers -> {"wait", "first", "advance", "post", "serve",
                                                         "lock", "sleep", "asleep", "unlock"}]
    BY DEF QueueInv, QueueTypeOK
  <1> USE <1>0 DEF OneInList, OneInMutex, ListenerInList, InList, ListenerInMutex, InMutex
  <1>1. CASE recvfrom
    BY <1>1 DEF recvfrom, listenerOnly
  <1>2. CASE listenerWait \/ listenerPost \/ addLink \/ addLast
    BY <1>2 DEF listenerWait, listenerPost, addLink, addLast, listenerOnly
  <1>3. CASE listenerLock \/ signal \/ listenerUnlock
    BY <1>3 DEF listenerLock, signal, listenerUnlock, listenerOnly
  <1>4. ASSUME NEW w \in UdpWorkers, WorkerStep(w)
        PROVE  OneInList' /\ OneInMutex'
    <2>1. CASE workerWait(w) \/ pullFirst(w)
      BY <2>1 DEF workerWait, pullFirst, workerOnly
    <2>2. CASE pullAdvance(w) \/ workerPost(w) \/ serve(w)
      BY <2>2 DEF pullAdvance, workerPost, serve, workerOnly
    <2>3. CASE workerLock(w) \/ sleep(w)
      BY <2>3 DEF workerLock, sleep, workerOnly
    <2>4. CASE wakeSpuriously(w) \/ wake(w) \/ workerUnlock(w)
      BY <2>4 DEF wakeSpuriously, wake, workerUnlock, workerOnly
    <2> QED  BY <1>4, <2>1, <2>2, <2>3, <2>4 DEF WorkerStep, Lock, Run
  <1>5. CASE UNCHANGED queueVars
    BY <1>5 DEF queueVars
  <1> QED  BY <1>1, <1>2, <1>3, <1>4, <1>5 DEF QueueNext, Listen, WorkerStep

(* The list keeps its form: addUdpRequest links the next number behind the   *)
(* last one, and pullUdpRequest takes the first one off.                     *)
LEMMA ListedStep ==
    ASSUME QueueInv, [QueueNext]_queueVars
    PROVE  Listed'
  <1>0. QueueTypeOK /\ OneInList /\ Listed /\ Pulled
    BY DEF QueueInv
  <1>1. CASE recvfrom
    BY <1>0, <1>1, RequestsAssumption
       DEF recvfrom, listVars, listenerOnly, Listed, Linked, QueueTypeOK, Requests, Pointers
  <1>2. CASE listenerWait \/ listenerPost \/ listenerLock \/ signal \/ listenerUnlock
    BY <1>0, <1>2 DEF listenerWait, listenerPost, listenerLock, signal, listenerUnlock, listVars, Listed, Linked
  <1>3. CASE addLink
    <2>1. /\ receiveCount \in Requests /\ receiveCount \in Nat /\ Linked = receiveCount - 1
          /\ Linked' = receiveCount /\ listener' = "last" /\ UNCHANGED <<receiveCount, lastRequest>>
      BY <1>0, <1>3, RequestsAssumption DEF addLink, Linked, Listed, QueueTypeOK, Requests, Pointers
    <2>2. CASE lastRequest = 0
      <3>1. firstRequest = 0 /\ firstRequest' = receiveCount /\ next' = next
        BY <1>0, <1>3, <2>1, <2>2 DEF addLink, Listed, QueueTypeOK, Pointers
      <3> QED  BY <1>0, <2>1, <2>2, <3>1, RequestsAssumption
               DEF Listed, QueueTypeOK, Requests, Pointers
    <2>3. CASE lastRequest # 0
      <3>1. /\ lastRequest = receiveCount - 1 /\ lastRequest \in Requests /\ firstRequest # 0
            /\ firstRequest' = firstRequest /\ next' = [next EXCEPT ![lastRequest] = receiveCount]
        BY <1>0, <1>3, <2>1, <2>3 DEF addLink, Listed, QueueTypeOK, Requests, Pointers
      <3> QED  BY <1>0, <2>1, <3>1, RequestsAssumption
               DEF Listed, QueueTypeOK, Requests, Pointers
    <2> QED  BY <2>2, <2>3
  <1>4. CASE addLast
    BY <1>0, <1>4, RequestsAssumption
       DEF addLast, listenerOnly, Listed, Linked, QueueTypeOK, Requests, Pointers
  <1>5. ASSUME NEW w \in UdpWorkers, pullAdvance(w)
        PROVE  Listed'
    <2>1. /\ listener \notin {"link", "last", "post"} /\ firstRequest \in Requests
          /\ listener' = listener /\ Linked' = Linked /\ next' = next /\ receiveCount' = receiveCount
      BY <1>0, <1>5 DEF pullAdvance, workerOnly, OneInList, ListenerInList, InList, Pulled, Linked, QueueTypeOK,
                        Requests, Pointers
    <2>2. Linked \in Nat /\ firstRequest <= Linked
      BY <1>0, <2>1, RequestsAssumption DEF Listed, Linked, QueueTypeOK, Requests, Pointers
    <2>3. IF firstRequest = Linked THEN firstRequest' = 0 ELSE firstRequest' = firstRequest + 1
      BY <1>0, <1>5, <2>1, <2>2, RequestsAssumption DEF pullAdvance, Listed, Requests
    <2>4. lastRequest' = IF firstRequest' = 0 THEN 0 ELSE Linked
      BY <1>0, <1>5, <2>1 DEF pullAdvance, Listed, Requests
    <2> QED  BY <1>0, <2>1, <2>2, <2>3, <2>4, RequestsAssumption DEF Listed, Requests
  <1>6. ASSUME NEW w \in UdpWorkers, WorkerStep(w), ~pullAdvance(w)
        PROVE  Listed'
    <2>1. UNCHANGED <<listVars, listener, receiveCount>>
      BY <1>6 DEF WorkerStep, Lock, Run, workerWait, pullFirst, workerPost, serve, workerLock, sleep,
                  wakeSpuriously, wake, workerUnlock, workerOnly
    <2> QED  BY <1>0, <2>1 DEF listVars, Listed, Linked
  <1>7. CASE UNCHANGED queueVars
    BY <1>0, <1>7 DEF queueVars, listVars, Listed, Linked
  <1> QED  BY <1>1, <1>2, <1>3, <1>4, <1>5, <1>6, <1>7 DEF QueueNext, Listen, WorkerStep

(* While a worker is in the list nobody else changes its ends. *)
LEMMA PulledStep ==
    ASSUME QueueInv, [QueueNext]_queueVars
    PROVE  Pulled'
  <1>0. QueueTypeOK /\ OneInList /\ Pulled
    BY DEF QueueInv
  <1>1. CASE recvfrom \/ Listen
    <2>1. UNCHANGED <<pc, request>>
      BY <1>1 DEF recvfrom, Listen, listenerWait, addLink, addLast, listenerPost, listenerLock, signal,
                  listenerUnlock, listenerOnly
    <2>2. firstRequest' = firstRequest \/ \A w \in UdpWorkers : pc[w] # "advance"
      BY <1>0, <1>1 DEF recvfrom, Listen, listenerWait, addLink, addLast, listenerPost, listenerLock, signal,
                        listenerUnlock, listVars, OneInList, ListenerInList, InList
    <2> QED  BY <1>0, <2>1, <2>2 DEF Pulled
  <1>2. ASSUME NEW w \in UdpWorkers, WorkerStep(w)
        PROVE  Pulled'
    <2>1. CASE pullAdvance(w)
      BY <1>0, <2>1 DEF pullAdvance, Pulled, OneInList, InList, QueueTypeOK
    <2>2. CASE ~pullAdvance(w)
      <3>1. firstRequest' = firstRequest
        BY <1>2, <2>2 DEF WorkerStep, Lock, Run, workerWait, pullFirst, workerPost, serve, workerLock, sleep,
                          wakeSpuriously, wake, workerUnlock, listVars
      <3>2. CASE workerWait(w) \/ pullFirst(w) \/ workerPost(w) \/ serve(w)
        BY <1>0, <3>1, <3>2 DEF workerWait, pullFirst, workerPost, serve, Pulled, QueueTypeOK
      <3>3. CASE workerLock(w) \/ sleep(w) \/ wakeSpuriously(w) \/ wake(w) \/ workerUnlock(w)
        BY <1>0, <3>1, <3>3 DEF workerLock, sleep, wakeSpuriously, wake, workerUnlock, Pulled, QueueTypeOK
      <3> QED  BY <1>2, <2>2, <3>2, <3>3 DEF WorkerStep, Lock, Run
    <2> QED  BY <2>1, <2>2
  <1>3. CASE UNCHANGED queueVars
    BY <1>0, <1>3 DEF queueVars, listVars, Pulled
  <1> QED  BY <1>1, <1>2, <1>3 DEF QueueNext, WorkerStep

-----------------------------------------------------------------------------
(* Consecutive requests: n of them from a on. *)
Consecutive(a, n) == [i \in 1 .. n |-> a + i - 1]

(* Adding to them at the end and taking from them at the front. *)
LEMMA ConsecutiveQueue ==
    ASSUME NEW a \in Nat, NEW n \in Nat
    PROVE  /\ Consecutive(a, n) \in Seq(Nat) /\ Len(Consecutive(a, n)) = n
           /\ Append(Consecutive(a, n), a + n) = Consecutive(a, n + 1)
           /\ n > 0 => /\ Consecutive(a, n) # <<>>
                       /\ Head(Consecutive(a, n)) = a
                       /\ Tail(Consecutive(a, n)) = Consecutive(a + 1, n - 1)
           /\ Consecutive(a, 0) = <<>>
  <1>1. Consecutive(a, n) \in [1 .. n -> Int]
    BY DEF Consecutive
  <1>2. \A i \in 1 .. n : Consecutive(a, n)[i] \in Nat
    BY DEF Consecutive
  <1>3. Consecutive(a, n) \in [1 .. n -> Nat]
    BY <1>2 DEF Consecutive
  <1>4. Consecutive(a, n) \in Seq(Nat) /\ Len(Consecutive(a, n)) = n
    BY <1>3
  <1>5. Append(Consecutive(a, n), a + n) = Consecutive(a, n + 1)
    BY <1>4 DEF Consecutive
  <1>6. ASSUME n > 0
        PROVE  /\ Consecutive(a, n) # <<>> /\ Head(Consecutive(a, n)) = a
               /\ Tail(Consecutive(a, n)) = Consecutive(a + 1, n - 1)
    <2>1. Consecutive(a, n) # <<>>
      BY <1>4, <1>6, EmptySeq
    <2>2. Head(Consecutive(a, n)) = a
      BY <1>4, <1>6, <2>1 DEF Consecutive
    <2>3. /\ Tail(Consecutive(a, n)) \in Seq(Nat) /\ Len(Tail(Consecutive(a, n))) = n - 1
          /\ \A i \in 1 .. n - 1 : Tail(Consecutive(a, n))[i] = Consecutive(a, n)[i + 1]
      BY <1>4, <1>6, <2>1, HeadTailProperties
    <2>4. Tail(Consecutive(a, n)) = [i \in 1 .. n - 1 |-> Tail(Consecutive(a, n))[i]]
      <3> DEFINE t == Tail(Consecutive(a, n))
      <3> HIDE DEF t
      <3>1. t \in [1 .. Len(t) -> Nat] /\ Len(t) = n - 1
        BY <2>3, LenProperties DEF t
      <3>2. t \in [1 .. n - 1 -> Nat]
        BY <3>1
      <3>3. t = [i \in 1 .. n - 1 |-> t[i]]
        BY <3>2
      <3> QED  BY <3>3, Zenon DEF t
    <2>5. \A i \in 1 .. n - 1 : Tail(Consecutive(a, n))[i] = (a + 1) + i - 1
      BY <2>3 DEF Consecutive
    <2> QED  BY <2>1, <2>2, <2>4, <2>5 DEF Consecutive
  <1>7. Consecutive(a, 0) = <<>>
    BY DEF Consecutive
  <1> QED  BY <1>4, <1>5, <1>6, <1>7

(* Whatever follows the list is the requests from the first to the last one  *)
(* linked: by the least place where it might differ.                         *)
LEMMA FollowsIs ==
    ASSUME QueueTypeOK, Listed, firstRequest # 0,
           NEW n \in Nat, NEW s \in [1 .. n -> Requests], Len(s) = n, Follows(s)
    PROVE  s = Consecutive(firstRequest, Linked - firstRequest + 1)
  <1> DEFINE Good(i) == i <= Linked - firstRequest + 1 /\ s[i] = firstRequest + i - 1
             Bad == {i \in 1 .. n : ~Good(i)}
  <1>1. /\ firstRequest \in Nat \ {0} /\ Linked \in Nat /\ firstRequest <= Linked
        /\ \A r \in Requests : r \in Nat /\ r # 0
    BY RequestsAssumption DEF QueueTypeOK, Listed, Linked, Requests, Pointers
  <1>2. /\ firstRequest = IF n = 0 THEN 0 ELSE s[1]
        /\ \A i \in 1 .. n : next[s[i]] = IF i = n THEN 0 ELSE s[i + 1]
    BY DEF Follows
  <1>3. \A r \in Requests : firstRequest <= r /\ r <= Linked =>
            next[r] = IF r = Linked THEN 0 ELSE r + 1
    BY <1>1 DEF Listed
  <1>4. n # 0
    BY <1>1, <1>2
  <1>5. \A i \in 1 .. n : s[i] \in Requests
    OBVIOUS
  <1>6. ASSUME NEW i \in 1 .. n, Good(i), i # n
        PROVE  Good(i + 1)
    <2>1. next[s[i]] = s[i + 1] /\ s[i + 1] \in Requests /\ s[i] \in Requests
      BY <1>2, <1>5, <1>6
    <2>2. s[i] # Linked /\ next[s[i]] = s[i] + 1
      BY <1>1, <1>3, <1>6, <2>1
    <2> QED  BY <1>1, <1>6, <2>1, <2>2
  <1>7. Bad = {}
    <2>1. SUFFICES ASSUME Bad # {} PROVE FALSE
      OBVIOUS
    <2>2. PICK k \in Bad : \A j \in Bad : ~(j < k)
      <3>1. Bad \in SUBSET Nat
        OBVIOUS
      <3> HIDE DEF Bad
      <3>2. PICK k \in Bad : \A j \in Bad : <<j, k>> \notin OpToRel(<, Nat)
        BY <2>1, <3>1, NatLessThanWellFounded, WFMin
      <3> QED  BY <3>1, <3>2 DEF OpToRel
    <2>3. k # 1
      BY <1>1, <1>2, <1>4, <2>2
    <2>4. k - 1 \in 1 .. n /\ k - 1 # n /\ (k - 1) + 1 = k
      BY <2>2, <2>3
    <2>5. Good(k - 1)
      BY <2>2, <2>4
    <2>6. Good((k - 1) + 1)
      <3> HIDE DEF Good
      <3> QED  BY <1>6, <2>4, <2>5
    <2> QED  BY <2>2, <2>4, <2>6
  <1>8. \A i \in 1 .. n : Good(i)
    BY <1>7
  <1>9. n = Linked - firstRequest + 1
    <2>1. Good(n)
      BY <1>4, <1>8
    <2>2. next[s[n]] = 0
      BY <1>2, <1>4
    <2>3. s[n] = Linked
      BY <1>1, <1>3, <1>4, <1>5, <2>1, <2>2
    <2> QED  BY <1>1, <2>1, <2>3
  <1>10. s = [i \in 1 .. n |-> firstRequest + i - 1]
    BY <1>8
  <1> QED  BY <1>9, <1>10 DEF Consecutive

(* The requests in the list are the ones from the first to the last linked. *)
Waiting ==
    IF firstRequest = 0 THEN Consecutive(0, 0)
    ELSE Consecutive(firstRequest, Linked - firstRequest + 1)
ChainIsWaiting == Chain = Waiting

(* The list holds just those, and there is no other way to read it. *)
LEMMA ChainIs == QueueInv => ChainIsWaiting
  <1> SUFFICES ASSUME QueueTypeOK, Listed PROVE Chain = Waiting
    BY DEF QueueInv, ChainIsWaiting
  <1> USE DEF Waiting
  <1> DEFINE Lists == UNION {[1 .. n -> Requests] : n \in Pointers}
  <1>0. \A s \in Lists : \E n \in Nat : s \in [1 .. n -> Requests] /\ Len(s) = n
    BY DEF Pointers
  <1>1. CASE firstRequest = 0
    <2>1. Consecutive(0, 0) \in [1 .. 0 -> Requests] /\ 0 \in Pointers
      BY RequestsAssumption DEF Consecutive, Pointers
    <2>2. Follows(Consecutive(0, 0))
      BY <1>1, ConsecutiveQueue DEF Follows
    <2>3. ASSUME NEW s \in Lists, Follows(s)
          PROVE  s = Consecutive(0, 0)
      <3>1. PICK n \in Nat : s \in [1 .. n -> Requests] /\ Len(s) = n
        BY <1>0
      <3>2. n = 0
        BY <1>1, <2>3, <3>1 DEF Follows, Requests
      <3> QED  BY <3>1, <3>2 DEF Consecutive
    <2>4. Consecutive(0, 0) \in Lists
      BY <2>1
    <2> HIDE DEF Lists
    <2>5. (CHOOSE s \in Lists : Follows(s)) = Consecutive(0, 0)
      BY <2>2, <2>3, <2>4
    <2> QED  BY <1>1, <2>5 DEF Chain, Lists
  <1>2. CASE firstRequest # 0
    <2> DEFINE m == Linked - firstRequest + 1
               c == Consecutive(firstRequest, m)
    <2>1. /\ firstRequest \in Nat \ {0} /\ Linked \in Nat /\ firstRequest <= Linked
          /\ Linked <= MaxRequests /\ MaxRequests \in Nat
      BY <1>2, RequestsAssumption DEF QueueTypeOK, Listed, Linked, Requests, Pointers
    <2>2. m \in Pointers /\ m \in Nat /\ m # 0
      BY <2>1 DEF Pointers
    <2>3. \A i \in 1 .. m : c[i] = firstRequest + i - 1 /\ c[i] \in Requests
      BY <2>1 DEF Consecutive, Requests
    <2>4. c \in [1 .. m -> Requests]
      BY <2>3 DEF Consecutive
    <2>5. Len(c) = m
      BY <2>1, <2>2, ConsecutiveQueue
    <2>6. Follows(c)
      <3>1. c[1] = firstRequest
        BY <2>1, <2>2, <2>3
      <3>2. ASSUME NEW i \in 1 .. m
            PROVE  next[c[i]] = IF i = m THEN 0 ELSE c[i + 1]
        <4>1. c[i] \in Requests /\ c[i] = firstRequest + i - 1 /\ (i # m => c[i + 1] = firstRequest + i)
          BY <2>1, <2>2, <2>3
        <4>2. c[i] <= Linked /\ firstRequest <= c[i] /\ (i = m <=> c[i] = Linked)
          BY <2>1, <4>1
        <4> QED  BY <1>2, <2>1, <4>1, <4>2 DEF Listed
      <3> HIDE DEF c, m
      <3> QED  BY <2>2, <2>5, <3>1, <3>2 DEF Follows
    <2>7. c \in Lists
      BY <2>2, <2>4
    <2>8. ASSUME NEW s \in Lists, Follows(s)
          PROVE  s = c
      <3>1. PICK n \in Nat : s \in [1 .. n -> Requests] /\ Len(s) = n
        BY <1>0
      <3> QED  BY <1>2, <2>8, <3>1, FollowsIs
    <2> HIDE DEF Lists, c
    <2>9. (CHOOSE s \in Lists : Follows(s)) = c
      BY <2>6, <2>7, <2>8
    <2> QED  BY <1>2, <2>9 DEF Chain, Lists, c
  <1> QED  BY <1>1, <1>2

(* And so after a step. *)
LEMMA ChainIsNext == QueueInv' => ChainIsWaiting'
  BY ChainIs, PTL

(* The invariant holds throughout. *)
THEOREM QueueInvariance == QueueSpec => []QueueInv
  <1>1. QueueInit => QueueInv
    BY QueueInvInit
  <1>2. QueueInv /\ [QueueNext]_queueVars => QueueInv'
    BY QueueTypeStep, LocksStep, ListedStep, PulledStep DEF QueueInv
  <1> QED  BY <1>1, <1>2, PTL DEF QueueSpec

(* Every variable keeps its type; neither lock is posted beyond one. *)
THEOREM QueueTypeCorrect == QueueSpec => []QueueTypeOK
  <1>1. QueueInv => QueueTypeOK
    BY DEF QueueInv
  <1> QED  BY <1>1, QueueInvariance, PTL

-----------------------------------------------------------------------------
(* The linked list implements the queue. *)

(* The last step of addUdpRequest that counts is the link: it puts the       *)
(* request behind the ones that wait.                                        *)
LEMMA LinkPuts ==
    ASSUME QueueInv, QueueInv', addLink
    PROVE  Fifo!Put
  <1>1. Chain = Waiting /\ Chain' = Waiting'
    BY ChainIs, ChainIsNext DEF ChainIsWaiting
  <1>2. /\ receiveCount \in Nat \ {0} /\ receiveCount <= MaxRequests /\ MaxRequests \in Nat
        /\ listener = "link" /\ listener' = "last" /\ UNCHANGED <<receiveCount, pc, request>>
        /\ Linked = receiveCount - 1 /\ Linked' = receiveCount
    BY RequestsAssumption DEF QueueInv, QueueTypeOK, Listed, Linked, Pointers, addLink, listenerOnly
  <1>3. Waiting' = Append(Waiting, receiveCount)
    <2>1. CASE firstRequest = 0
      <3>1. firstRequest' = receiveCount
        BY <1>2, <2>1 DEF addLink, QueueInv, Listed
      <3>2. Waiting' = Consecutive(receiveCount, 1) /\ Waiting = Consecutive(receiveCount, 0)
        BY <1>2, <2>1, <3>1, ConsecutiveQueue DEF Waiting
      <3>3. Append(Consecutive(receiveCount, 0), receiveCount + 0) = Consecutive(receiveCount, 0 + 1)
        BY <1>2, ConsecutiveQueue
      <3> QED  BY <1>2, <3>2, <3>3
    <2>2. CASE firstRequest # 0
      <3>1. firstRequest' = firstRequest /\ firstRequest \in Nat /\ firstRequest <= Linked
        BY <1>2, <2>2 DEF addLink, QueueInv, Listed, QueueTypeOK, Pointers
      <3> DEFINE n == Linked - firstRequest + 1
      <3>2. n \in Nat /\ firstRequest + n = receiveCount /\ Linked' - firstRequest' + 1 = n + 1
        BY <1>2, <3>1
      <3>3. Waiting = Consecutive(firstRequest, n) /\ Waiting' = Consecutive(firstRequest, n + 1)
        BY <2>2, <3>1, <3>2 DEF Waiting
      <3> HIDE DEF n
      <3> QED  BY <3>1, <3>2, <3>3, ConsecutiveQueue
    <2> QED  BY <2>1, <2>2
  <1> QED  BY <1>1, <1>2, <1>3 DEF Fifo!Put, Owned

(* The worker that takes the first request off is the one that gets it. *)
LEMMA AdvanceTakes ==
    ASSUME QueueInv, QueueInv', NEW w \in UdpWorkers, pullAdvance(w)
    PROVE  Fifo!Take(w)
  <1>1. Chain = Waiting /\ Chain' = Waiting'
    BY ChainIs, ChainIsNext DEF ChainIsWaiting
  <1>2. /\ request[w] = firstRequest /\ firstRequest # 0 /\ firstRequest \in Requests /\ firstRequest \in Nat
        /\ firstRequest <= Linked /\ Linked \in Nat /\ UNCHANGED <<listener, receiveCount, request>>
        /\ Linked' = Linked /\ pc[w] = "advance"
    <2>1. request[w] = firstRequest /\ firstRequest # 0 /\ pc[w] = "advance" /\ UNCHANGED <<listener, receiveCount, request>>
      BY DEF pullAdvance, workerOnly, QueueInv, Pulled
    <2>2. firstRequest \in Requests /\ firstRequest \in Nat
      BY <2>1, RequestsAssumption DEF QueueInv, QueueTypeOK, Pointers, Requests
    <2>3. firstRequest <= Linked /\ Linked \in Nat
      BY <2>1, <2>2, RequestsAssumption DEF QueueInv, QueueTypeOK, Listed, Linked, Pointers
    <2> QED  BY <2>1, <2>2, <2>3 DEF Linked
  <1>8. \A v \in UdpWorkers : pc'[v] = IF v = w THEN "post" ELSE pc[v]
    BY DEF pullAdvance, QueueInv, QueueTypeOK
  <1> DEFINE n == Linked - firstRequest + 1
  <1>3. n \in Nat /\ n > 0 /\ Waiting = Consecutive(firstRequest, n)
    BY <1>2 DEF Waiting
  <1>4. Waiting # <<>> /\ Head(Waiting) = firstRequest /\ Tail(Waiting) = Consecutive(firstRequest + 1, n - 1)
    <2> HIDE DEF n
    <2> QED  BY <1>2, <1>3, ConsecutiveQueue
  <1>5. Waiting' = Tail(Waiting)
    <2>0. listener \notin {"link", "last", "post"}
      BY <1>2 DEF QueueInv, OneInList, ListenerInList, InList
    <2>1. CASE firstRequest = Linked
      <3>1. firstRequest' = 0
        BY <1>2, <2>1 DEF pullAdvance, QueueInv, Listed
      <3>2. n - 1 = 0 /\ firstRequest + 1 \in Nat
        BY <1>2, <2>1
      <3>3. Consecutive(firstRequest + 1, n - 1) = <<>>
        BY <3>2, ConsecutiveQueue
      <3>4. Waiting' = <<>>
        BY <3>1, ConsecutiveQueue DEF Waiting
      <3> QED  BY <1>4, <3>3, <3>4
    <2>2. CASE firstRequest # Linked
      <3>1. firstRequest' = firstRequest + 1
        BY <1>2, <2>2 DEF pullAdvance, QueueInv, Listed, Requests
      <3>2. Linked' - firstRequest' + 1 = n - 1
        BY <1>2, <3>1
      <3>3. Waiting' = Consecutive(firstRequest + 1, n - 1)
        BY <1>2, <3>1, <3>2 DEF Waiting
      <3> QED  BY <1>4, <3>3
    <2> QED  BY <2>1, <2>2
  <1>6. [v \in UdpWorkers |-> Owned(v)'] = [[v \in UdpWorkers |-> Owned(v)] EXCEPT ![w] = firstRequest]
    BY <1>2, <1>8 DEF Owned
  <1>7. [v \in UdpWorkers |-> Owned(v)][w] = 0
    BY <1>2 DEF Owned
  <1> QED  BY <1>1, <1>2, <1>4, <1>5, <1>6, <1>7 DEF Fifo!Take, Linked

(* The worker gives its request up when it has served it. *)
LEMMA ServeFinishes ==
    ASSUME QueueInv, QueueInv', NEW w \in UdpWorkers, serve(w)
    PROVE  Fifo!Finish(w)
  <1>1. Chain = Waiting /\ Chain' = Waiting'
    BY ChainIs, ChainIsNext DEF ChainIsWaiting
  <1>2. /\ pc[w] = "serve" /\ request[w] # 0 /\ UNCHANGED <<listVars, listener, receiveCount>>
    BY DEF serve, workerOnly, QueueInv, Pulled
  <1>8. \A v \in UdpWorkers : /\ pc'[v] = IF v = w THEN "wait" ELSE pc[v]
                             /\ request'[v] = IF v = w THEN 0 ELSE request[v]
    BY DEF serve, QueueInv, QueueTypeOK
  <1>3. Waiting' = Waiting
    BY <1>2 DEF Waiting, Linked, listVars
  <1>4. [v \in UdpWorkers |-> Owned(v)'] = [[v \in UdpWorkers |-> Owned(v)] EXCEPT ![w] = 0]
    BY <1>2, <1>8 DEF Owned
  <1>5. [v \in UdpWorkers |-> Owned(v)][w] # 0
    BY <1>2 DEF Owned
  <1> QED  BY <1>1, <1>2, <1>3, <1>4, <1>5 DEF Fifo!Finish, listVars

(* No other step is seen. *)
LEMMA OthersStutter ==
    ASSUME QueueInv, QueueInv', [QueueNext]_queueVars,
           ~addLink, \A w \in UdpWorkers : ~pullAdvance(w) /\ ~serve(w)
    PROVE  UNCHANGED Fifo!fifoVars
  <1>1. Chain = Waiting /\ Chain' = Waiting'
    BY ChainIs, ChainIsNext DEF ChainIsWaiting
  <1>2. firstRequest' = firstRequest /\ Linked' = Linked /\ \A v \in UdpWorkers : Owned(v)' = Owned(v)
    <2>0. QueueTypeOK /\ Pulled
      BY DEF QueueInv
    <2>1. CASE recvfrom
      BY <2>0, <2>1, RequestsAssumption
         DEF recvfrom, listenerOnly, listVars, Linked, Owned, QueueTypeOK, Pointers
    <2>2. CASE Listen
      BY <2>2 DEF Listen, listenerWait, addLast, listenerPost, listenerLock, signal, listenerUnlock,
                  listenerOnly, listVars, Linked, Owned
    <2>3. ASSUME NEW w \in UdpWorkers, WorkerStep(w)
          PROVE  firstRequest' = firstRequest /\ Linked' = Linked /\ \A v \in UdpWorkers : Owned(v)' = Owned(v)
      <3>1. UNCHANGED <<firstRequest, listener, receiveCount>>
        BY <2>3 DEF WorkerStep, Lock, Run, workerWait, pullFirst, workerPost, workerLock, sleep, wakeSpuriously,
                    wake, workerUnlock, workerOnly, listVars
      <3>2. CASE pullFirst(w)
        BY <2>0, <3>1, <3>2 DEF pullFirst, Pulled, Owned, Linked, QueueTypeOK
      <3>3. CASE workerWait(w) \/ workerPost(w) \/ workerLock(w)
        BY <2>0, <3>1, <3>3 DEF workerWait, workerPost, workerLock, Owned, Linked, QueueTypeOK
      <3>4. CASE sleep(w) \/ wakeSpuriously(w) \/ wake(w) \/ workerUnlock(w)
        BY <2>0, <3>1, <3>4 DEF sleep, wakeSpuriously, wake, workerUnlock, Owned, Linked, QueueTypeOK
      <3> QED  BY <2>3, <3>2, <3>3, <3>4 DEF WorkerStep, Lock, Run
    <2>4. CASE UNCHANGED queueVars
      BY <2>4 DEF queueVars, listVars, Linked, Owned
    <2> QED  BY <2>1, <2>2, <2>3, <2>4 DEF QueueNext, WorkerStep
  <1>3. Waiting' = Waiting
    BY <1>2 DEF Waiting
  <1>4. [v \in UdpWorkers |-> Owned(v)'] = [v \in UdpWorkers |-> Owned(v)]
    BY <1>2
  <1> QED  BY <1>1, <1>2, <1>3, <1>4 DEF Fifo!fifoVars, Linked

(* The list between the listener and its workers, which each side changes in *)
(* two steps, is a queue: every datagram goes to one worker, in the order of *)
(* arrival.                                                                  *)
THEOREM QueueRefinement == QueueSpec => FifoSpec
  <1>1. QueueInit => Fifo!FifoInit
    <2> SUFFICES ASSUME QueueInit PROVE Fifo!FifoInit
      OBVIOUS
    <2>1. Chain = Waiting
      BY QueueInvInit, ChainIs DEF ChainIsWaiting
    <2>2. Waiting = <<>>
      BY ConsecutiveQueue DEF QueueInit, Waiting
    <2>3. [w \in UdpWorkers |-> Owned(w)] = [w \in UdpWorkers |-> 0]
      BY DEF QueueInit, Owned
    <2> QED  BY <2>1, <2>2, <2>3 DEF QueueInit, Fifo!FifoInit
  <1>2. QueueInv /\ QueueInv' /\ [QueueNext]_queueVars => [Fifo!FifoNext]_(Fifo!fifoVars)
    BY LinkPuts, AdvanceTakes, ServeFinishes, OthersStutter DEF Fifo!FifoNext
  <1> QED  BY <1>1, <1>2, QueueInvariance, PTL DEF QueueSpec, FifoSpec, Fifo!FifoSpec
=============================================================================
