---------------------------- MODULE ServerProofs ----------------------------
(***************************************************************************)
(* The requests per second of Server are exact for any number of workers   *)
(* and of kinds of requests, although the counters take turns without a    *)
(* lock.                                                                   *)
(***************************************************************************)
EXTENDS Server, FiniteSetTheorems, SequenceTheorems, WellFoundedInduction, TLAPS

Call ==
    [at : {"out", "increment", "compare", "compareMax", "load", "store", "done"},
     status : Statuses, index : Indexes, value : Nat, late : BOOLEAN]
Counters == [Statuses -> [Indexes -> Nat]]

RpsTypeOK ==
    /\ status \in Statuses /\ zeroed \in 0..RPS_DIFFERENT_VALUES
    /\ counter \in Counters /\ calls \in Counters /\ late \in Counters
    /\ max \in [Indexes -> Nat]
    /\ call \in [Workers -> Call]

Balanced(s, i) == counter[s][i] + Cardinality(Pending(s, i)) = calls[s][i] + late[s][i]
Fresh(s, i) == counter[s][i] = late[s][i] /\ Pending(s, i) = {}

(* The inductive invariant: CallsCounted says nothing of a counter that is *)
(* being zeroed; its values that are zeroed already hold late increments   *)
(* only, and the others still balance.                                     *)
Account == \A s \in Statuses, i \in Indexes :
    IF s # status /\ i < zeroed THEN Fresh(s, i) ELSE Balanced(s, i)
RpsInv == RpsTypeOK /\ Account

(* The workers about to increment a counter are finitely many. *)
LEMMA PendingFinite ==
    ASSUME NEW s, NEW i
    PROVE  IsFiniteSet(Pending(s, i)) /\ Cardinality(Pending(s, i)) \in Nat
  <1>1. Pending(s, i) \in SUBSET Workers
    BY DEF Pending
  <1> QED BY <1>1, RpsAssumption, FS_Subset, FS_CardinalityType

(* Before the first request all counters are zero. *)
LEMMA RpsInvInit ==
    ASSUME RpsInit
    PROVE  RpsInv
  <1> USE RpsAssumption DEF RpsInit, Zeroes, NoCall, Indexes, Statuses
  <1>1. RpsTypeOK
    BY DEF RpsTypeOK, Call, Counters
  <1>2. ASSUME NEW s \in Statuses, NEW i \in Indexes
        PROVE  Balanced(s, i)
    <2>1. Pending(s, i) = {}
      BY DEF Pending
    <2> QED BY <2>1, FS_EmptySet DEF Balanced
  <1> QED BY <1>1, <1>2 DEF RpsInv, Account

(* A step of a worker that neither chooses nor increments a counter. *)
LEMMA RpsInvLocal ==
    ASSUME RpsInv, NEW w \in Workers, NEW c \in Call,
           call[w].at # "increment", c.at # "increment",
           call' = [call EXCEPT ![w] = c], max' \in [Indexes -> Nat],
           UNCHANGED <<status, counter, zeroed, calls, late>>
    PROVE  RpsInv'
  <1>1. RpsTypeOK'
    BY DEF RpsInv, RpsTypeOK
  <1>2. ASSUME NEW s \in Statuses, NEW i \in Indexes
        PROVE  Pending(s, i)' = Pending(s, i)
    BY DEF Pending, RpsInv, RpsTypeOK
  <1>3. ASSUME NEW s \in Statuses, NEW i \in Indexes
        PROVE  (Fresh(s, i) => Fresh(s, i)') /\ (Balanced(s, i) => Balanced(s, i)')
    BY <1>2 DEF Fresh, Balanced
  <1> QED BY <1>1, <1>3 DEF RpsInv, Account

(* A worker chooses the counter in use: one call more, one pending more. *)
LEMMA RpsInvRead ==
    ASSUME RpsInv, NEW w \in Workers, NEW index \in Indexes, readStatus(w, index)
    PROVE  RpsInv'
  <1> DEFINE c == [NoCall EXCEPT !.at = "increment", !.status = status, !.index = index]
  <1>1. c \in Call /\ call' = [call EXCEPT ![w] = c]
    BY RpsAssumption DEF RpsInv, RpsTypeOK, readStatus, NoCall, Call, Statuses, Indexes
  <1>2. RpsTypeOK'
    BY <1>1 DEF RpsInv, RpsTypeOK, readStatus, Counters
  <1>3. Pending(status, index)' = Pending(status, index) \cup {w} /\ w \notin Pending(status, index)
    BY <1>1 DEF RpsInv, RpsTypeOK, readStatus, Pending, NoCall
  <1>4. Balanced(status, index)'
    <2>1. Cardinality(Pending(status, index)') = Cardinality(Pending(status, index)) + 1
      BY <1>3, PendingFinite, FS_AddElement
    <2>2. /\ counter' = counter /\ late' = late /\ status' = status
          /\ calls'[status][index] = calls[status][index] + 1
      BY DEF RpsInv, RpsTypeOK, readStatus, Counters
    <2>3. Balanced(status, index)
      BY DEF RpsInv, RpsTypeOK, Account
    <2>4. /\ counter[status][index] \in Nat /\ late[status][index] \in Nat
          /\ calls[status][index] \in Nat /\ Cardinality(Pending(status, index)) \in Nat
      BY PendingFinite DEF RpsInv, RpsTypeOK, Counters
    <2> QED BY <2>1, <2>2, <2>3, <2>4 DEF Balanced
  <1>5. ASSUME NEW s \in Statuses, NEW i \in Indexes, s # status \/ i # index
        PROVE  (Fresh(s, i) => Fresh(s, i)') /\ (Balanced(s, i) => Balanced(s, i)')
    <2>1. Pending(s, i)' = Pending(s, i)
      BY <1>1, <1>5 DEF RpsInv, RpsTypeOK, readStatus, Pending, NoCall
    <2>2. calls'[s][i] = calls[s][i] /\ counter' = counter /\ late' = late
      BY <1>5 DEF RpsInv, RpsTypeOK, readStatus, Counters
    <2> QED BY <2>1, <2>2 DEF Fresh, Balanced
  <1> QED BY <1>2, <1>4, <1>5 DEF RpsInv, RpsTypeOK, Account, readStatus

(* A pending increment balances one call, a late one is counted as late. *)
LEMMA RpsInvIncrement ==
    ASSUME RpsInv, NEW w \in Workers, increment(w)
    PROVE  RpsInv'
  <1> DEFINE c == [call[w] EXCEPT !.at = "compare"]
  <1>1. c \in Call /\ c.at = "compare"
    BY DEF RpsInv, RpsTypeOK, Call
  <1>2. call' = [call EXCEPT ![w] = c] /\ call[w].at = "increment"
    BY DEF RpsInv, RpsTypeOK, increment
  <1>3. RpsTypeOK'
    <2>1. call[w].status \in Statuses /\ call[w].index \in Indexes
      BY DEF RpsInv, RpsTypeOK, Call
    <2> QED BY <2>1, <1>1, <1>2 DEF RpsInv, RpsTypeOK, increment, Counters
  <1>4. ASSUME NEW s \in Statuses, NEW i \in Indexes
        PROVE  (Fresh(s, i) => Fresh(s, i)') /\ (Balanced(s, i) => Balanced(s, i)')
    <2>1. /\ counter[s][i] \in Nat /\ late[s][i] \in Nat /\ calls[s][i] \in Nat
          /\ Cardinality(Pending(s, i)) \in Nat /\ calls' = calls
      BY PendingFinite DEF RpsInv, RpsTypeOK, Counters, increment
    <2>2. CASE call[w].status # s \/ call[w].index # i
      <3>1. counter'[s][i] = counter[s][i] /\ late'[s][i] = late[s][i]
        BY <2>2 DEF RpsInv, RpsTypeOK, increment, Counters
      <3>2. Pending(s, i)' = Pending(s, i)
        BY <2>2, <1>1, <1>2 DEF RpsInv, RpsTypeOK, Pending
      <3> QED BY <2>1, <3>1, <3>2 DEF Fresh, Balanced
    <2>3. CASE call[w].status = s /\ call[w].index = i /\ call[w].late
      <3>1. counter'[s][i] = counter[s][i] + 1 /\ late'[s][i] = late[s][i] + 1
        BY <2>3 DEF RpsInv, RpsTypeOK, increment, Counters
      <3>2. Pending(s, i)' = Pending(s, i)
        BY <2>3, <1>1, <1>2 DEF RpsInv, RpsTypeOK, Pending
      <3> QED BY <2>1, <3>1, <3>2 DEF Fresh, Balanced
    <2>4. CASE call[w].status = s /\ call[w].index = i /\ ~call[w].late
      <3>1. counter'[s][i] = counter[s][i] + 1 /\ late'[s][i] = late[s][i]
        BY <2>4 DEF RpsInv, RpsTypeOK, increment, Counters
      <3>2. w \in Pending(s, i) /\ Pending(s, i)' = Pending(s, i) \ {w}
        BY <2>4, <1>1, <1>2 DEF RpsInv, RpsTypeOK, Pending
      <3>3. Cardinality(Pending(s, i)') = Cardinality(Pending(s, i)) - 1
        BY <3>2, PendingFinite, FS_RemoveElement
      <3>4. Balanced(s, i) => Balanced(s, i)'
        BY <2>1, <3>1, <3>3 DEF Balanced
      <3> QED BY <3>2, <3>4 DEF Fresh
    <2> QED BY <2>2, <2>3, <2>4
  <1>5. UNCHANGED <<status, zeroed>>
    BY DEF increment
  <1> QED BY <1>3, <1>4, <1>5 DEF RpsInv, Account

(* The status thread zeroes a value of the counter that is not in use; the *)
(* workers that are still about to increment it are late.                  *)
LEMMA RpsInvZero ==
    ASSUME RpsInv, zero
    PROVE  RpsInv'
  <1>1. Other(status) \in Statuses /\ Other(status) # status /\ zeroed \in Indexes
    BY RpsAssumption DEF RpsInv, RpsTypeOK, zero, Other, Statuses, Indexes
  <1>2. RpsTypeOK'
    <2>1. call' \in [Workers -> Call]
      BY DEF RpsInv, RpsTypeOK, zero, Call
    <2> QED BY <1>1, <2>1, RpsAssumption DEF RpsInv, RpsTypeOK, zero, Counters, Indexes
  <1>3. ASSUME NEW s \in Statuses, NEW i \in Indexes, s = status \/ i # zeroed
        PROVE  (Fresh(s, i) => Fresh(s, i)') /\ (Balanced(s, i) => Balanced(s, i)')
    <2>1. counter'[s][i] = counter[s][i] /\ late'[s][i] = late[s][i] /\ calls' = calls
      BY <1>1, <1>3 DEF RpsInv, RpsTypeOK, zero, Counters
    <2>2. Pending(s, i)' = Pending(s, i)
      BY <1>1, <1>3 DEF RpsInv, RpsTypeOK, zero, Pending, Delayed, Call
    <2> QED BY <2>1, <2>2 DEF Fresh, Balanced
  <1>4. ASSUME NEW s \in Statuses, NEW i \in Indexes, s # status, i = zeroed
        PROVE  Fresh(s, i)'
    <2>1. s = Other(status)
      BY <1>4 DEF RpsInv, RpsTypeOK, Statuses, Other
    <2>2. counter'[s][i] = 0 /\ late'[s][i] = 0
      BY <2>1, <1>1, <1>4 DEF RpsInv, RpsTypeOK, zero, Counters
    <2>3. Pending(s, i)' = {}
      BY <2>1, <1>4 DEF RpsInv, RpsTypeOK, zero, Pending, Delayed, Call
    <2> QED BY <2>2, <2>3 DEF Fresh
  <1>5. status' = status /\ zeroed' = zeroed + 1 /\ zeroed \in Nat
    BY <1>1 DEF zero, Indexes
  <1>6. ASSUME NEW s \in Statuses, NEW i \in Indexes
        PROVE  IF s # status' /\ i < zeroed' THEN Fresh(s, i)' ELSE Balanced(s, i)'
    <2>1. i \in Int /\ (i < zeroed + 1 <=> i < zeroed \/ i = zeroed)
      BY <1>5, RpsAssumption DEF Indexes
    <2> QED BY <2>1, <1>3, <1>4, <1>5 DEF RpsInv, Account
  <1> QED BY <1>2, <1>6 DEF RpsInv, Account

(* The zeroed counter is put in use: its period has no calls yet. *)
LEMMA RpsInvChange ==
    ASSUME RpsInv, changeStatus
    PROVE  RpsInv'
  <1>1. status' = Other(status) /\ status' \in Statuses /\ status' # status /\ zeroed' = 0
    BY DEF RpsInv, RpsTypeOK, changeStatus, Other, Statuses
  <1>2. RpsTypeOK'
    BY <1>1, RpsAssumption DEF RpsInv, RpsTypeOK, changeStatus, Counters
  <1>3. ASSUME NEW s \in Statuses, NEW i \in Indexes
        PROVE  Pending(s, i)' = Pending(s, i) /\ counter'[s][i] = counter[s][i] /\ late'[s][i] = late[s][i]
    BY DEF changeStatus, Pending
  <1>4. ASSUME NEW s \in Statuses, NEW i \in Indexes, s = status'
        PROVE  Balanced(s, i)'
    <2>1. i < zeroed /\ s # status
      BY <1>1, <1>4, RpsAssumption DEF changeStatus, Indexes
    <2>2. Fresh(s, i)
      BY <2>1 DEF RpsInv, Account
    <2>3. calls'[s][i] = 0
      BY <1>1, <1>4 DEF RpsInv, RpsTypeOK, changeStatus, Counters
    <2>4. counter[s][i] \in Nat /\ late[s][i] \in Nat
      BY DEF RpsInv, RpsTypeOK, Counters
    <2>5. Cardinality(Pending(s, i)') = 0
      BY <1>3, <2>2, FS_EmptySet DEF Fresh
    <2> QED BY <1>3, <2>2, <2>3, <2>4, <2>5 DEF Fresh, Balanced
  <1>5. ASSUME NEW s \in Statuses, NEW i \in Indexes, s # status'
        PROVE  Balanced(s, i)'
    <2>1. s = status /\ calls'[s][i] = calls[s][i]
      BY <1>1, <1>5 DEF RpsInv, RpsTypeOK, changeStatus, Counters, Statuses, Other
    <2>2. Balanced(s, i)
      BY <2>1 DEF RpsInv, Account
    <2> QED BY <1>3, <2>1, <2>2 DEF Balanced
  <1>6. ASSUME NEW i \in Indexes
        PROVE  ~(i < zeroed')
    BY <1>1, RpsAssumption DEF Indexes
  <1> QED BY <1>2, <1>4, <1>5, <1>6 DEF RpsInv, Account

(* A worker whose call is done, or that makes none, is about to increment  *)
(* no counter.                                                             *)
LEMMA NoCallType ==
    /\ NoCall \in Call /\ NoCall.at # "increment"
    /\ [NoCall EXCEPT !.at = "done"] \in Call
    /\ [NoCall EXCEPT !.at = "done"].at # "increment"
  <1>1. "EVEN" \in Statuses /\ 0 \in Indexes
    BY RpsAssumption DEF Statuses, Indexes
  <1>2. NoCall \in Call /\ NoCall.at = "out"
    BY <1>1 DEF NoCall, Call
  <1>3. [NoCall EXCEPT !.at = "done"] \in Call /\ [NoCall EXCEPT !.at = "done"].at = "done"
    BY <1>2 DEF Call
  <1> QED BY <1>2, <1>3

(* updateRps as a whole keeps the account. *)
LEMMA RpsInvUpdate ==
    ASSUME RpsInv, NEW w \in Workers, updateRps(w)
    PROVE  RpsInv'
  <1>1. CASE increment(w)
    BY <1>1, RpsInvIncrement
  <1>2. ASSUME NEW from \in {"compare", "load"}, NEW to \in {"compareMax", "store"},
               loadCounter(w, from, to)
        PROVE  RpsInv'
    <2> DEFINE c == [call[w] EXCEPT !.at = to, !.value = counter[call[w].status][call[w].index]]
    <2>1. call[w] \in Call /\ call[w].at = from /\ counter[call[w].status][call[w].index] \in Nat
      BY <1>2 DEF RpsInv, RpsTypeOK, loadCounter, Call, Counters
    <2>2. c \in Call /\ c.at # "increment"
      BY <2>1 DEF Call
    <2>3. call' = [call EXCEPT ![w] = c]
      BY <1>2 DEF RpsInv, RpsTypeOK, loadCounter
    <2>4. max' \in [Indexes -> Nat] /\ UNCHANGED <<status, counter, zeroed, calls, late>>
      BY <1>2 DEF RpsInv, RpsTypeOK, loadCounter
    <2> HIDE DEF c
    <2> QED BY <2>1, <2>2, <2>3, <2>4, RpsInvLocal
  <1>3. CASE compareMax(w)
    <2> DEFINE c == IF call[w].value > max[call[w].index] THEN [call[w] EXCEPT !.at = "load"]
                                                          ELSE [NoCall EXCEPT !.at = "done"]
    <2>0. [call[w] EXCEPT !.at = "load"] \in Call /\ [call[w] EXCEPT !.at = "load"].at = "load"
      BY DEF RpsInv, RpsTypeOK, Call
    <2>1. call[w].at # "increment" /\ c \in Call /\ c.at # "increment"
      BY <1>3, <2>0, NoCallType DEF compareMax
    <2>2. call' = [call EXCEPT ![w] = c]
      BY <1>3 DEF compareMax
    <2>3. max' \in [Indexes -> Nat] /\ UNCHANGED <<status, counter, zeroed, calls, late>>
      BY <1>3 DEF RpsInv, RpsTypeOK, compareMax
    <2> HIDE DEF c
    <2> QED BY <2>1, <2>2, <2>3, RpsInvLocal
  <1>4. CASE storeMax(w)
    <2> DEFINE c == [NoCall EXCEPT !.at = "done"]
    <2>1. call[w].at # "increment" /\ c \in Call /\ c.at # "increment"
      BY <1>4, NoCallType DEF storeMax
    <2>2. call' = [call EXCEPT ![w] = c]
      BY <1>4 DEF storeMax
    <2>3. max' \in [Indexes -> Nat] /\ UNCHANGED <<status, counter, zeroed, calls, late>>
      BY <1>4 DEF RpsInv, RpsTypeOK, storeMax, Call
    <2> HIDE DEF c
    <2> QED BY <2>1, <2>2, <2>3, RpsInvLocal
  <1> QED BY <1>1, <1>2, <1>3, <1>4 DEF updateRps

(* Steps that leave the counters and the calls alone. *)
LEMMA RpsInvOther ==
    ASSUME RpsInv, max' \in [Indexes -> Nat],
           UNCHANGED <<status, counter, zeroed, call, calls, late>>
    PROVE  RpsInv'
  <1>1. ASSUME NEW s \in Statuses, NEW i \in Indexes
        PROVE  Pending(s, i)' = Pending(s, i)
    BY DEF Pending
  <1> QED BY <1>1 DEF RpsInv, RpsTypeOK, Account, Fresh, Balanced

(* The account holds in every reachable state of the server. *)
LEMMA RpsInvNext ==
    ASSUME RpsInv, [Next]_vars
    PROVE  RpsInv'
  <1> SUFFICES ASSUME ~UNCHANGED rpsVars
               PROVE  RpsInv'
    BY RpsInvOther DEF rpsVars, RpsInv, RpsTypeOK
  <1>1. CASE mainThread
    <2>1. mainResetMaxRps
      BY <1>1 DEF mainThread, mainInitGeoip, mainFind, mainTested, mainListen, setNobody
    <2> QED BY <2>1, RpsInvOther DEF mainResetMaxRps, resetMaxRps, RpsInv, RpsTypeOK
  <1>2. CASE statusThread
    BY <1>2, RpsInvZero, RpsInvChange DEF statusThread, rpsStatusHandler
  <1>3. ASSUME NEW w \in Workers, receive(w)
        PROVE  RpsInv'
    BY <1>3, RpsInvRead DEF receive
  <1>4. ASSUME NEW w \in Workers, countRequest(w)
        PROVE  RpsInv'
    BY <1>4, RpsInvUpdate DEF countRequest
  <1>5. ASSUME NEW w \in Workers, Counted(w)
        PROVE  RpsInv'
    <2>1. call[w].at # "increment" /\ NoCall \in Call /\ NoCall.at # "increment"
      BY <1>5, NoCallType DEF Counted
    <2> QED BY <1>5, <2>1, RpsInvLocal DEF Counted, RpsInv, RpsTypeOK
  <1>6. CASE loader \/ \E p \in Protocols : bind(p)
    BY <1>6 DEF loader, bind
  <1>7. CASE \E t \in Searchers : findLocation(t) \/ (t # "main" /\ finishFind(t))
    BY <1>7 DEF findLocation, finishFind
  <1>8. CASE UNCHANGED vars
    BY <1>8 DEF vars
  <1> QED BY <1>1, <1>2, <1>3, <1>4, <1>5, <1>6, <1>7, <1>8 DEF Next, beginFind, noFind

(* Whatever the workers, the status thread and main do, every call of      *)
(* updateRps counts once in the period whose status it read (rps.c:16-72). *)
THEOREM CallsCountedCorrect == Spec => []CallsCounted
  <1>1. Init => RpsInv
    BY RpsInvInit DEF Init
  <1>2. RpsInv /\ [Next]_vars => RpsInv'
    BY RpsInvNext
  <1>3. RpsInv => CallsCounted
    <2> SUFFICES ASSUME RpsInv, NEW s \in Statuses, NEW i \in Indexes, s = status \/ zeroed = 0
                 PROVE  Balanced(s, i)
      BY DEF CallsCounted, Balanced
    <2>1. ~(s # status /\ i < zeroed)
      BY RpsAssumption DEF Indexes
    <2> QED BY <2>1 DEF RpsInv, Account
  <1> QED BY <1>1, <1>2, <1>3, PTL DEF Spec
-----------------------------------------------------------------------------
(* The search: how many turns its loop needs *)

(* The least number of a set of numbers. *)
LEMMA LeastNumber ==
    ASSUME NEW S \in SUBSET Nat, S # {}
    PROVE  \E k \in S : \A j \in S : k <= j
  <1>1. PICK k \in S : \A j \in S : <<j, k>> \notin OpToRel(<, Nat)
    BY NatLessThanWellFounded, WFMin
  <1>2. \A j \in S : ~(j < k)
    BY <1>1 DEF OpToRel
  <1> QED  BY <1>2

LastTurn == GEOIP_MAX_ITERATION + 1
FirstIndex == [delimiter |-> 2, index |-> GEOIP_FILE_LINES \div 2]
AreTurns(turn, table, ip, n) ==
    turn = [i \in 0..n |-> IF i = 0 THEN FirstIndex ELSE SearchStep(table, ip, turn[i - 1])]

(* The turns of a search are well defined. *)
LEMMA TurnsAre ==
    ASSUME NEW table, NEW ip
    PROVE  /\ Turns(table, ip)[0] = FirstIndex
           /\ \A i \in 1..LastTurn : Turns(table, ip)[i] = SearchStep(table, ip, Turns(table, ip)[i - 1])
  <1>0. LastTurn \in Nat
    BY GeoipAssumption DEF LastTurn
  <1> DEFINE Bad == {n \in Nat : ~\E turn : AreTurns(turn, table, ip, n)}
  <1>1. ASSUME NEW n \in Nat, NEW turn, AreTurns(turn, table, ip, n)
        PROVE  \E f : AreTurns(f, table, ip, n + 1)
    <2> DEFINE f == [i \in 0..n + 1 |-> IF i = n + 1 THEN SearchStep(table, ip, turn[n]) ELSE turn[i]]
    <2>1. \A i \in 0..n : f[i] = turn[i] /\ turn[i] = IF i = 0 THEN FirstIndex ELSE SearchStep(table, ip, turn[i - 1])
      BY <1>1 DEF AreTurns
    <2>2. ASSUME NEW i \in 0..n + 1
          PROVE  f[i] = IF i = 0 THEN FirstIndex ELSE SearchStep(table, ip, f[i - 1])
      <3>1. CASE i = n + 1
        BY <3>1
      <3>2. CASE i # n + 1
        <4>1. i \in 0..n /\ (i # 0 => i - 1 \in 0..n)
          BY <3>2
        <4> HIDE DEF f
        <4> QED  BY <2>1, <4>1
      <3> QED  BY <3>1, <3>2
    <2>3. f = [i \in 0..n + 1 |-> f[i]]
      OBVIOUS
    <2> HIDE DEF f
    <2>4. AreTurns(f, table, ip, n + 1)
      BY <2>2, <2>3 DEF AreTurns
    <2> QED  BY <2>4
  <1>2. \E f : AreTurns(f, table, ip, 0)
    <2> DEFINE f == [i \in 0..0 |-> FirstIndex]
    <2>1. AreTurns(f, table, ip, 0)
      BY DEF AreTurns
    <2> QED  BY <2>1
  <1>3. Bad = {}
    <2> SUFFICES ASSUME Bad # {} PROVE FALSE
      OBVIOUS
    <2>0. Bad \in SUBSET Nat
      OBVIOUS
    <2>1. PICK k \in Bad : \A j \in Bad : k <= j
      <3> HIDE DEF Bad
      <3> QED  BY <2>0, LeastNumber
    <2>2. k # 0 /\ k \in Nat
      BY <1>2
    <2>3. k - 1 \in Nat /\ k - 1 \notin Bad /\ (k - 1) + 1 = k
      BY <2>1, <2>2
    <2> QED  BY <1>1, <2>2, <2>3
  <1>4. PICK turn : AreTurns(turn, table, ip, LastTurn)
    BY <1>0, <1>3
  <1>5. Turns(table, ip) = CHOOSE f : AreTurns(f, table, ip, LastTurn)
    BY DEF Turns, AreTurns, LastTurn, FirstIndex
  <1>6. AreTurns(Turns(table, ip), table, ip, LastTurn)
    BY <1>4, <1>5
  <1> QED  BY <1>0, <1>6 DEF AreTurns

AreHalves(halved, n) ==
    halved = [i \in 0..n |-> IF i = 0 THEN GEOIP_FILE_LINES ELSE halved[i - 1] \div 2]

(* The steps of the search are well defined. *)
LEMMA HalvedIs ==
    /\ Halved[0] = GEOIP_FILE_LINES
    /\ \A i \in 1..GEOIP_MAX_ITERATION : Halved[i] = Halved[i - 1] \div 2
    /\ \A i \in 0..GEOIP_MAX_ITERATION : Halved[i] \in Nat
  <1>0. GEOIP_MAX_ITERATION \in Nat /\ GEOIP_FILE_LINES \in Nat
    BY GeoipAssumption
  <1> DEFINE Bad == {n \in Nat : ~\E halved : AreHalves(halved, n)}
  <1>1. ASSUME NEW n \in Nat, NEW halved, AreHalves(halved, n)
        PROVE  \E f : AreHalves(f, n + 1)
    <2> DEFINE f == [i \in 0..n + 1 |-> IF i = n + 1 THEN halved[n] \div 2 ELSE halved[i]]
    <2>1. \A i \in 0..n : f[i] = halved[i] /\ halved[i] = IF i = 0 THEN GEOIP_FILE_LINES ELSE halved[i - 1] \div 2
      BY <1>1 DEF AreHalves
    <2>2. ASSUME NEW i \in 0..n + 1
          PROVE  f[i] = IF i = 0 THEN GEOIP_FILE_LINES ELSE f[i - 1] \div 2
      <3>1. CASE i = n + 1
        BY <3>1
      <3>2. CASE i # n + 1
        <4>1. i \in 0..n /\ (i # 0 => i - 1 \in 0..n)
          BY <3>2
        <4> HIDE DEF f
        <4> QED  BY <2>1, <4>1
      <3> QED  BY <3>1, <3>2
    <2>3. f = [i \in 0..n + 1 |-> f[i]]
      OBVIOUS
    <2> HIDE DEF f
    <2>4. AreHalves(f, n + 1)
      BY <2>2, <2>3 DEF AreHalves
    <2> QED  BY <2>4
  <1>2. \E f : AreHalves(f, 0)
    <2> DEFINE f == [i \in 0..0 |-> GEOIP_FILE_LINES]
    <2>1. AreHalves(f, 0)
      BY DEF AreHalves
    <2> QED  BY <2>1
  <1>3. Bad = {}
    <2> SUFFICES ASSUME Bad # {} PROVE FALSE
      OBVIOUS
    <2>0. Bad \in SUBSET Nat
      OBVIOUS
    <2>1. PICK k \in Bad : \A j \in Bad : k <= j
      <3> HIDE DEF Bad
      <3> QED  BY <2>0, LeastNumber
    <2>2. k # 0 /\ k \in Nat
      BY <1>2
    <2>3. k - 1 \in Nat /\ k - 1 \notin Bad /\ (k - 1) + 1 = k
      BY <2>1, <2>2
    <2> QED  BY <1>1, <2>2, <2>3
  <1>4. PICK halved : AreHalves(halved, GEOIP_MAX_ITERATION)
    BY <1>0, <1>3
  <1>5. Halved = CHOOSE f : AreHalves(f, GEOIP_MAX_ITERATION)
    BY DEF Halved, AreHalves
  <1>6. AreHalves(Halved, GEOIP_MAX_ITERATION)
    BY <1>4, <1>5
  <1>7. /\ Halved[0] = GEOIP_FILE_LINES
        /\ \A i \in 1..GEOIP_MAX_ITERATION : Halved[i] = Halved[i - 1] \div 2
    BY <1>0, <1>6 DEF AreHalves
  <1>8. \A i \in 0..GEOIP_MAX_ITERATION : Halved[i] \in Nat
    <2> DEFINE Wrong == {i \in 0..GEOIP_MAX_ITERATION : Halved[i] \notin Nat}
    <2>1. SUFFICES ASSUME Wrong # {} PROVE FALSE
      OBVIOUS
    <2>2. Wrong \in SUBSET Nat
      BY <1>0
    <2>3. PICK k \in Wrong : \A j \in Wrong : k <= j
      <3> HIDE DEF Wrong
      <3> QED  BY <2>1, <2>2, LeastNumber
    <2>4. k \in 1..GEOIP_MAX_ITERATION
      BY <1>0, <1>7, <2>3
    <2>5. k - 1 \in 0..GEOIP_MAX_ITERATION /\ k - 1 \notin Wrong
      BY <1>0, <2>3, <2>4
    <2> QED  BY <1>7, <2>3, <2>4, <2>5
  <1> QED  BY <1>7, <1>8

(* Dividing by twice as much is halving once more. *)
LEMMA DivTwice ==
    ASSUME NEW n \in Nat, NEW d \in Nat \ {0}
    PROVE  n \div d \in Nat /\ n \div (2 * d) = (n \div d) \div 2
  <1> DEFINE q == n \div d
             r == n % d
             p == q \div 2
  <1>1. q \in Nat /\ r \in 0..d - 1 /\ n = q * d + r
    OBVIOUS
  <1> HIDE DEF q, r
  <1>2. p \in Nat /\ (q = 2 * p \/ q = 2 * p + 1)
    BY <1>1
  <1> HIDE DEF p
  <1>3. PICK e \in 0..2 * d - 1 : n = p * (2 * d) + e
    <2>1. CASE q = 2 * p
      <3>1. r \in 0..2 * d - 1 /\ n = p * (2 * d) + r
        BY <1>1, <1>2, <2>1
      <3> QED  BY <3>1
    <2>2. CASE q = 2 * p + 1
      <3>1. d + r \in 0..2 * d - 1 /\ n = p * (2 * d) + (d + r)
        BY <1>1, <1>2, <2>2
      <3> QED  BY <3>1
    <2> QED  BY <1>2, <2>1, <2>2
  <1>4. n \div (2 * d) = p
    <2> DEFINE t == 2 * d
    <2>1. t \in Nat /\ t > 0 /\ e \in 0..t - 1 /\ n = p * t + e
      BY <1>3
    <2> HIDE DEF t
    <2>2. n \div t = p
      BY <1>2, <2>1
    <2> QED  BY <2>2 DEF t
  <1> QED  BY <1>1, <1>4 DEF q, p

(* A file with all the lines, which the loader reads as a table. *)
Complete(f) == f \in Files /\ Len(f) = GEOIP_FILE_LINES

(* What is known of such a file. *)
LEMMA FileIs ==
    ASSUME NEW f, Complete(f)
    PROVE  /\ GEOIP_FILE_LINES \in Nat \ {0} /\ MaxIp \in Nat
           /\ \A k \in 1..GEOIP_FILE_LINES :
                f[k].startIp \in Nat /\ f[k].endIp \in Nat /\ f[k].startIp <= f[k].endIp
           /\ \A k \in 1..GEOIP_FILE_LINES - 1 : f[k + 1].startIp = f[k].endIp + 1
           /\ f[1].startIp = 0 /\ f[GEOIP_FILE_LINES].endIp = MaxIp
  <1> DEFINE S == [startIp : 0..MaxIp, endIp : 0..MaxIp]
  <1>1. /\ f \in Files /\ Len(f) = GEOIP_FILE_LINES /\ f \in Seq(S) /\ Sorted(f)
        /\ \A k \in DOMAIN f : f[k].startIp <= f[k].endIp
        /\ GEOIP_FILE_LINES \in Nat \ {0} /\ MaxIp \in Nat
    BY GeoipAssumption DEF Complete
  <1>2. DOMAIN f = 1..GEOIP_FILE_LINES /\ \A k \in 1..GEOIP_FILE_LINES : f[k] \in S
    <2> HIDE DEF S
    <2> QED  BY <1>1, LenProperties
  <1>3. f # <<>>
    BY <1>1, EmptySeq
  <1>4. f[1].startIp = 0 /\ f[GEOIP_FILE_LINES].endIp = MaxIp
    BY <1>1, <1>3, GeoipAssumption
  <1>5. \A k \in 1..GEOIP_FILE_LINES - 1 : f[k + 1].startIp = f[k].endIp + 1
    BY <1>1 DEF Sorted
  <1>6. \A k \in 1..GEOIP_FILE_LINES : f[k].startIp \in Nat /\ f[k].endIp \in Nat
    BY <1>1, <1>2
  <1>7. \A k \in 1..GEOIP_FILE_LINES : f[k].startIp <= f[k].endIp
    BY <1>1, <1>2
  <1> QED
    <2> HIDE DEF S
    <2> QED  BY <1>1, <1>4, <1>5, <1>6, <1>7

(* Its lines are in order, ... *)
LEMMA LinesInOrder ==
    ASSUME NEW f, Complete(f), NEW i \in 1..GEOIP_FILE_LINES, NEW j \in 1..GEOIP_FILE_LINES, i < j
    PROVE  f[i].endIp < f[j].startIp
  <1>1. /\ GEOIP_FILE_LINES \in Nat
        /\ \A k \in 1..GEOIP_FILE_LINES :
            f[k].startIp \in Nat /\ f[k].endIp \in Nat /\ f[k].startIp <= f[k].endIp
        /\ \A k \in 1..GEOIP_FILE_LINES - 1 : f[k + 1].startIp = f[k].endIp + 1
    BY FileIs
  <1> DEFINE Bad == {k \in Nat : i + k + 1 <= GEOIP_FILE_LINES /\ ~(f[i].endIp < f[i + k + 1].startIp)}
  <1>2. Bad = {}
    <2> SUFFICES ASSUME Bad # {} PROVE FALSE
      OBVIOUS
    <2>1. PICK k \in Bad : \A l \in Bad : k <= l
      <3>1. Bad \in SUBSET Nat
        OBVIOUS
      <3> HIDE DEF Bad
      <3> QED  BY <3>1, LeastNumber
    <2>2. k # 0
      BY <1>1
    <2>3. k - 1 \in Nat /\ i + (k - 1) + 1 = i + k /\ i + k \in 1..GEOIP_FILE_LINES - 1
      BY <1>1, <2>1, <2>2
    <2>4. f[i].endIp < f[i + k].startIp
      <3>1. k - 1 \notin Bad
        <4>1. k - 1 \in Nat /\ k \in Nat /\ ~(k <= k - 1)
          BY <2>1, <2>3
        <4> HIDE DEF Bad
        <4> QED  BY <2>1, <4>1
      <3> QED  BY <1>1, <2>3, <3>1
    <2>5. f[i + k].startIp <= f[i + k].endIp /\ f[i + k + 1].startIp = f[i + k].endIp + 1
          /\ f[i + k].startIp \in Nat /\ f[i + k].endIp \in Nat
      BY <1>1, <2>3
    <2> QED  BY <1>1, <2>1, <2>4, <2>5
  <1>3. j - i - 1 \in Nat /\ i + (j - i - 1) + 1 = j /\ j <= GEOIP_FILE_LINES
    BY <1>1
  <1>4. j - i - 1 \notin Bad
    <2> HIDE DEF Bad
    <2> QED  BY <1>2
  <1> QED  BY <1>3, <1>4

(* ... and one of them covers the address. *)
LEMMA LineOf ==
    ASSUME NEW f, Complete(f), NEW ip \in 0..MaxIp
    PROVE  \E t \in 0..GEOIP_FILE_LINES - 1 : f[t + 1].startIp <= ip /\ ip <= f[t + 1].endIp
  <1>1. /\ GEOIP_FILE_LINES \in Nat \ {0} /\ MaxIp \in Nat
        /\ \A k \in 1..GEOIP_FILE_LINES : f[k].startIp \in Nat /\ f[k].endIp \in Nat
        /\ \A k \in 1..GEOIP_FILE_LINES - 1 : f[k + 1].startIp = f[k].endIp + 1
        /\ f[1].startIp = 0 /\ f[GEOIP_FILE_LINES].endIp = MaxIp
    BY FileIs
  <1> DEFINE Up == {k \in 1..GEOIP_FILE_LINES : ip <= f[k].endIp}
  <1>2. PICK k \in Up : \A l \in Up : k <= l
    <2>1. Up \in SUBSET Nat /\ GEOIP_FILE_LINES \in Up
      BY <1>1
    <2> HIDE DEF Up
    <2> QED  BY <2>1, LeastNumber
  <1>3. f[k].startIp <= ip
    <2>1. CASE k = 1
      BY <1>1, <2>1
    <2>2. CASE k # 1
      <3>1. k - 1 \in 1..GEOIP_FILE_LINES - 1 /\ (k - 1) + 1 = k /\ k - 1 \notin Up
        BY <1>1, <1>2, <2>2
      <3>2. f[k - 1].endIp < ip /\ f[k].startIp = f[k - 1].endIp + 1
        BY <1>1, <3>1
      <3> QED  BY <1>1, <3>1, <3>2
    <2> QED  BY <2>1, <2>2
  <1>4. k - 1 \in 0..GEOIP_FILE_LINES - 1 /\ (k - 1) + 1 = k
    BY <1>1, <1>2
  <1> QED  BY <1>2, <1>3, <1>4

(* A table has the addresses of the file. *)
TableOf(table, f) ==
    /\ DOMAIN table = 0..GEOIP_FILE_LINES - 1
    /\ \A i \in DOMAIN table : table[i].startIp = f[i + 1].startIp /\ table[i].endIp = f[i + 1].endIp

(* So a line says in which direction the one that is looked for is. *)
LEMMA LineTells ==
    ASSUME NEW f, Complete(f), NEW table, TableOf(table, f), NEW ip \in 0..MaxIp,
           NEW t \in 0..GEOIP_FILE_LINES - 1, f[t + 1].startIp <= ip, ip <= f[t + 1].endIp,
           NEW i \in 0..GEOIP_FILE_LINES - 1
    PROVE  /\ Covers(table, i, ip) <=> i = t
           /\ table[i].startIp > ip <=> t < i
  <1>1. /\ GEOIP_FILE_LINES \in Nat
        /\ \A k \in 1..GEOIP_FILE_LINES :
            f[k].startIp \in Nat /\ f[k].endIp \in Nat /\ f[k].startIp <= f[k].endIp
    BY FileIs
  <1>2. i + 1 \in 1..GEOIP_FILE_LINES /\ t + 1 \in 1..GEOIP_FILE_LINES
    BY <1>1
  <1>3. table[i].startIp = f[i + 1].startIp /\ table[i].endIp = f[i + 1].endIp /\ i \in DOMAIN table
    BY DEF TableOf
  <1>4. t < i => f[t + 1].endIp < f[i + 1].startIp
    BY <1>2, LinesInOrder
  <1>5. i < t => f[i + 1].endIp < f[t + 1].startIp
    BY <1>2, LinesInOrder
  <1> QED  BY <1>1, <1>2, <1>3, <1>4, <1>5 DEF Covers

(* A step of the search: the nearer half of the bound on what is left, with  *)
(* one line more, and from zero on one line each turn.                       *)
Near(a, b, n) == a - b <= n /\ b - a <= n
Narrowing(s, t, j, n) ==
    \/ s.index = t
    \/ /\ s.delimiter \in Nat \ {0} /\ s.index \in 0..GEOIP_FILE_LINES - 1
       /\ j < n => /\ GEOIP_FILE_LINES \div s.delimiter = Halved[j + 1]
                   /\ Halved[j + 1] <= s.index /\ s.index <= GEOIP_FILE_LINES - Halved[j + 1]
                   /\ Near(t, s.index, Halved[j + 1] + j)
       /\ j >= n - 1 => /\ GEOIP_FILE_LINES \div s.delimiter = 0
                        /\ Near(t, s.index, 2 * (n - 1) - j)

(* One turn of the loop. *)
LEMMA TurnNarrows ==
    ASSUME NEW f, Complete(f), NEW table, TableOf(table, f), NEW ip \in 0..MaxIp,
           NEW t \in 0..GEOIP_FILE_LINES - 1, f[t + 1].startIp <= ip, ip <= f[t + 1].endIp,
           NEW n \in 1..GEOIP_MAX_ITERATION, Halved[n] = 0,
           NEW j \in Nat, NEW s, Narrowing(s, t, j, n)
    PROVE  Narrowing(SearchStep(table, ip, s), t, j + 1, n)
  <1>0. GEOIP_FILE_LINES \in Nat \ {0} /\ GEOIP_MAX_ITERATION \in Nat /\ t \in Nat
    BY FileIs, GeoipAssumption
  <1>1. CASE s.index = t
    <2>1. Covers(table, s.index, ip)
      BY <1>1, LineTells
    <2>2. SearchStep(table, ip, s) = s
      BY <2>1 DEF SearchStep
    <2> QED  BY <1>1, <2>2 DEF Narrowing
  <1>2. CASE s.index # t
    <2> DEFINE d == 2 * s.delimiter
               h == GEOIP_FILE_LINES \div d
               step == IF h = 0 THEN 1 ELSE h
               index == IF t < s.index THEN s.index - step ELSE s.index + step
    <2>1. /\ s.delimiter \in Nat \ {0} /\ s.index \in 0..GEOIP_FILE_LINES - 1 /\ s.index \in Nat
          /\ j < n => /\ GEOIP_FILE_LINES \div s.delimiter = Halved[j + 1]
                      /\ Halved[j + 1] <= s.index /\ s.index <= GEOIP_FILE_LINES - Halved[j + 1]
                      /\ Near(t, s.index, Halved[j + 1] + j)
          /\ j >= n - 1 => /\ GEOIP_FILE_LINES \div s.delimiter = 0
                           /\ Near(t, s.index, 2 * (n - 1) - j)
      BY <1>0, <1>2 DEF Narrowing
    <2>2. ~Covers(table, s.index, ip) /\ (table[s.index].startIp > ip <=> t < s.index) /\ s.index \in DOMAIN table
      <3>1. (Covers(table, s.index, ip) <=> s.index = t) /\ (table[s.index].startIp > ip <=> t < s.index)
        BY <2>1, LineTells
      <3>2. s.index \in DOMAIN table
        BY <2>1 DEF TableOf
      <3> QED  BY <1>2, <3>1, <3>2
    <2>3. SearchStep(table, ip, s) = [delimiter |-> d, index |-> index]
      BY <2>2 DEF SearchStep
    <2>4. d \in Nat \ {0} /\ h \in Nat /\ h = (GEOIP_FILE_LINES \div s.delimiter) \div 2
          /\ GEOIP_FILE_LINES \div s.delimiter \in Nat
      <3>1. d \in Nat \ {0}
        BY <2>1
      <3> HIDE DEF d
      <3>2. h \in Nat
        BY <1>0, <3>1, DivTwice
      <3> QED  BY <1>0, <2>1, <3>1, <3>2, DivTwice DEF d
    <2> HIDE DEF d, h
    <2>5. index \in 0..GEOIP_FILE_LINES - 1
      <3>1. CASE h = 0
        <4>1. step = 1
          BY <3>1
        <4>2. s.index \in 0..GEOIP_FILE_LINES - 1 /\ t \in 0..GEOIP_FILE_LINES - 1 /\ t # s.index
          BY <1>2, <2>1
        <4> DEFINE a == s.index
        <4>3. a \in 0..GEOIP_FILE_LINES - 1 /\ t # a /\ index = IF t < a THEN a - 1 ELSE a + 1
          BY <4>1, <4>2
        <4> HIDE DEF a, index
        <4> QED  BY <1>0, <4>3
      <3>2. CASE h # 0
        <4>1. j < n /\ 2 * h <= Halved[j + 1] /\ Halved[j + 1] \in Nat
          BY <1>0, <2>1, <2>4, <3>2
        <4> QED  BY <1>0, <2>1, <2>4, <3>2, <4>1
      <3> QED  BY <3>1, <3>2
    <2>6. j + 1 < n => /\ h = Halved[j + 2]
                       /\ Halved[j + 2] <= index /\ index <= GEOIP_FILE_LINES - Halved[j + 2]
                       /\ Near(t, index, Halved[j + 2] + (j + 1))
      <3> SUFFICES ASSUME j + 1 < n PROVE
                   /\ h = Halved[j + 2]
                   /\ Halved[j + 2] <= index /\ index <= GEOIP_FILE_LINES - Halved[j + 2]
                   /\ Near(t, index, Halved[j + 2] + (j + 1))
        OBVIOUS
      <3>1. j + 1 \in 0..GEOIP_MAX_ITERATION /\ j + 2 \in 1..GEOIP_MAX_ITERATION /\ (j + 2) - 1 = j + 1
        BY <1>0
      <3>2. Halved[j + 2] = Halved[j + 1] \div 2 /\ Halved[j + 1] \in Nat
        BY <3>1, HalvedIs
      <3>3. h = Halved[j + 2] /\ (Halved[j + 1] = 2 * h \/ Halved[j + 1] = 2 * h + 1)
        BY <2>1, <2>4, <3>2
      <3> DEFINE g == Halved[j + 1]
      <3>4. g \in Nat /\ (g = 2 * h \/ g = 2 * h + 1) /\ g <= s.index /\ s.index <= GEOIP_FILE_LINES - g
            /\ t - s.index <= g + j /\ s.index - t <= g + j
        BY <2>1, <3>2, <3>3 DEF Near
      <3> HIDE DEF g
      <3>5. h <= index /\ index <= GEOIP_FILE_LINES - h
        BY <1>0, <1>2, <2>1, <2>4, <3>4
      <3>6. Near(t, index, h + (j + 1))
        BY <1>0, <1>2, <2>1, <2>4, <3>4 DEF Near
      <3> QED  BY <3>3, <3>5, <3>6
    <2>7. j + 1 >= n - 1 => h = 0 /\ Near(t, index, 2 * (n - 1) - (j + 1))
      <3> SUFFICES ASSUME j + 1 >= n - 1 PROVE h = 0 /\ Near(t, index, 2 * (n - 1) - (j + 1))
        OBVIOUS
      <3>1. CASE j >= n - 1
        <4>1. h = 0
          BY <2>1, <2>4, <3>1
        <4> QED  BY <1>0, <1>2, <2>1, <3>1, <4>1 DEF Near
      <3>2. CASE j = n - 2
        <4>1. j < n /\ j + 1 = n - 1 /\ n - 1 \in 0..GEOIP_MAX_ITERATION /\ n \in 1..GEOIP_MAX_ITERATION
          BY <1>0, <3>2
        <4>2. Halved[n] = Halved[n - 1] \div 2 /\ Halved[n - 1] \in Nat
          BY <4>1, HalvedIs
        <4>3. GEOIP_FILE_LINES \div s.delimiter = Halved[n - 1] /\ Near(t, s.index, Halved[n - 1] + j)
          BY <2>1, <4>1
        <4>4. Halved[n - 1] <= 1 /\ h = 0
          BY <2>4, <4>2, <4>3
        <4> QED  BY <1>0, <1>2, <2>1, <3>2, <4>2, <4>3, <4>4 DEF Near
      <3> QED  BY <3>1, <3>2
    <2>8. [delimiter |-> d, index |-> index].delimiter = d /\ [delimiter |-> d, index |-> index].index = index
      OBVIOUS
    <2>9. (j + 1) + 1 = j + 2
      OBVIOUS
    <2> HIDE DEF index
    <2> QED  BY <2>3, <2>4, <2>5, <2>6, <2>7, <2>8, <2>9 DEF Narrowing, h
  <1> QED  BY <1>1, <1>2

(* findGeoip finds the line of every address in every complete file: the     *)
(* step of the loop is halved until it is zero, what the floors of the       *)
(* halves leave is made up for in steps of one, and no index is out of the   *)
(* table (geoip.c:136-174).                                                  *)
THEOREM SearchFinds ==
    ASSUME NEW f, Complete(f), NEW table, TableOf(table, f), NEW ip \in 0..MaxIp
    PROVE  /\ Covers(table, Search(table, ip), ip)
           /\ \A i \in 0..LastTurn : Turns(table, ip)[i].index \in DOMAIN table
  <1>0. GEOIP_FILE_LINES \in Nat \ {0} /\ GEOIP_MAX_ITERATION \in Nat \ {0} /\ LastTurn = GEOIP_MAX_ITERATION + 1
    BY GeoipAssumption DEF LastTurn
  <1>1. PICK n \in 0..GEOIP_MAX_ITERATION : Halved[n] = 0 /\ 2 * n <= GEOIP_MAX_ITERATION + 1
    BY SearchAssumption
  <1>2. n \in 1..GEOIP_MAX_ITERATION
    BY <1>0, <1>1, HalvedIs
  <1>3. PICK t \in 0..GEOIP_FILE_LINES - 1 : f[t + 1].startIp <= ip /\ ip <= f[t + 1].endIp
    BY LineOf
  <1> DEFINE s == Turns(table, ip)
             Bad == {j \in 0..LastTurn : ~Narrowing(s[j], t, j, n)}
  <1>4. Narrowing(s[0], t, 0, n)
    <2>1. s[0] = FirstIndex
      BY TurnsAre
    <2>2. Halved[1] = GEOIP_FILE_LINES \div 2
      <3>1. 1 \in 1..GEOIP_MAX_ITERATION /\ 1 - 1 = 0
        BY <1>0
      <3> QED  BY <3>1, HalvedIs
    <2> DEFINE h == GEOIP_FILE_LINES \div 2
    <2>3. /\ h \in Nat /\ h <= GEOIP_FILE_LINES - h /\ h \in 0..GEOIP_FILE_LINES - 1
          /\ t - h <= h /\ h - t <= h
      BY <1>0
    <2>4. 0 >= n - 1 => h = 0 /\ t = 0
      <3> SUFFICES ASSUME 0 >= n - 1 PROVE h = 0 /\ t = 0
        OBVIOUS
      <3>1. n = 1
        BY <1>2
      <3>2. h = 0
        BY <1>1, <2>2, <3>1
      <3> QED  BY <2>3, <3>2
    <2> HIDE DEF h
    <2>5. FirstIndex.delimiter = 2 /\ FirstIndex.index = h
      BY DEF FirstIndex, h
    <2>6. GEOIP_FILE_LINES \div 2 = h
      BY DEF h
    <2> QED  BY <1>2, <2>1, <2>2, <2>3, <2>4, <2>5, <2>6 DEF Narrowing, Near
  <1>5. Bad = {}
    <2>1. SUFFICES ASSUME Bad # {} PROVE FALSE
      OBVIOUS
    <2>2. Bad \in SUBSET Nat
      BY <1>0
    <2>3. PICK k \in Bad : \A l \in Bad : k <= l
      <3> HIDE DEF Bad
      <3> QED  BY <2>1, <2>2, LeastNumber
    <2>4. k \in 1..LastTurn /\ k - 1 \in Nat /\ (k - 1) + 1 = k /\ k - 1 \notin Bad /\ k - 1 \in 0..LastTurn
      BY <1>0, <1>4, <2>3
    <2>5. s[k] = SearchStep(table, ip, s[k - 1])
      BY <2>4, TurnsAre
    <2>6. Narrowing(s[k - 1], t, k - 1, n)
      BY <2>4
    <2> HIDE DEF s
    <2>7. Narrowing(SearchStep(table, ip, s[k - 1]), t, (k - 1) + 1, n)
      BY <1>1, <1>2, <1>3, <2>4, <2>6, TurnNarrows
    <2> QED  BY <2>3, <2>4, <2>5, <2>7
  <1>6. LastTurn \in 0..LastTurn
    BY <1>0
  <1>7. Narrowing(s[LastTurn], t, LastTurn, n)
    BY <1>5, <1>6
  <1>8. s[LastTurn].index = t
    <2> DEFINE last == s[LastTurn]
    <2>1. last.index = t \/ (last.index \in 0..GEOIP_FILE_LINES - 1 /\ Near(t, last.index, 2 * (n - 1) - LastTurn))
      BY <1>0, <1>1, <1>2, <1>7 DEF Narrowing
    <2> HIDE DEF last
    <2>2. 2 * (n - 1) - LastTurn < 0
      BY <1>0, <1>1, <1>2
    <2>3. last.index = t
      BY <1>0, <1>1, <1>2, <2>1, <2>2 DEF Near
    <2> QED  BY <2>3 DEF last
  <1>9. Search(table, ip) = t
    BY <1>0, <1>8 DEF Search
  <1>10. Covers(table, Search(table, ip), ip)
    BY <1>3, <1>9, LineTells
  <1>11. \A i \in 0..LastTurn : Turns(table, ip)[i].index \in DOMAIN table
    BY <1>3, <1>5 DEF Narrowing, TableOf
  <1> QED  BY <1>10, <1>11

(* What the loop needs of its constants holds of those in the code           *)
(* (geoip.c:10 and 21): 22 halvings of 2912124.                              *)
THEOREM ParametersSuffice ==
    ASSUME GEOIP_FILE_LINES = 2912124, GEOIP_MAX_ITERATION = 50
    PROVE  \E n \in 0..GEOIP_MAX_ITERATION : Halved[n] = 0 /\ 2 * n <= GEOIP_MAX_ITERATION + 1
  <1>1. \A i \in 0..49 : Halved[i + 1] = Halved[i] \div 2
    <2>1. \A i \in 1..50 : Halved[i] = Halved[i - 1] \div 2
      BY HalvedIs
    <2>2. \A i \in 0..49 : i + 1 \in 1..50 /\ (i + 1) - 1 = i
      OBVIOUS
    <2> QED  BY <2>1, <2>2
  <1>2. Halved[0] = 2912124
    BY HalvedIs
  <1>3. Halved[5] = 91003
    BY <1>1, <1>2
  <1>4. Halved[10] = 2843
    BY <1>1, <1>3
  <1>5. Halved[15] = 88
    BY <1>1, <1>4
  <1>6. Halved[20] = 2
    BY <1>1, <1>5
  <1>7. Halved[22] = 0
    BY <1>1, <1>6
  <1> QED  BY <1>7
-----------------------------------------------------------------------------
(* The table of locations *)

(* A table that is loaded, but perhaps for the lon of its last line. *)
Loaded(f, lon) ==
    [i \in 0..GEOIP_FILE_LINES - 1 |->
        [startIp |-> f[i + 1].startIp, endIp |-> f[i + 1].endIp, lat |-> "loaded",
         lon |-> IF i = GEOIP_FILE_LINES - 1 THEN lon ELSE "loaded"]]

LastLine == GEOIP_FILE_LINES - 1

(* The loader has stored cell c of line i. *)
CellStored(i, c) == i < line \/ (i = line /\ c < cell)

(* Every line is what the loader has stored of it, over what initGeoip left. *)
LineIs(i) ==
    geoip[i] = [startIp |-> IF CellStored(i, 1) THEN file[i + 1].startIp ELSE 0,
                endIp |-> IF CellStored(i, 2) THEN file[i + 1].endIp ELSE 0,
                lat |-> IF CellStored(i, 3) THEN "loaded"
                        ELSE IF i = LastLine THEN "NOT_LOADING" ELSE "zero",
                lon |-> IF CellStored(i, 4) THEN "loaded" ELSE "zero"]

(* The loader is within the file, and it does not stop within a line. *)
Loading ==
    /\ file \in Files
    /\ line \in 0 .. Len(file) /\ cell \in 1 .. 4
    /\ cell # 1 => line < Len(file)
    /\ main = "init" => line = 0 /\ cell = 1

Lines ==
    /\ main # "init" /\ noLocations => geoip = [i \in {0} |-> Empty]
    /\ main # "init" /\ ~noLocations =>
        geoip = [i \in 0 .. LastLine |-> geoip[i]] /\ \A i \in 0 .. LastLine : LineIs(i)

(* A search that is past the first test has a table of lines, and past the   *)
(* second one the loader has stored the mark of the last line; what it finds *)
(* is the line of the file that covers its address.                          *)
Find ==
    [at : {"out", "first", "last", "search", "done"}, ip : 0 .. MaxIp, index : 0 .. LastLine,
     searched : BOOLEAN]

Passed(f) == f.at = "search" \/ (f.at = "done" /\ f.searched)

Finds(f) ==
    /\ f.at # "out" => main # "init"
    /\ f.at = "last" \/ Passed(f) => ~noLocations
    /\ Passed(f) => CellStored(LastLine, 3)
    /\ f.at = "done" =>
        IF f.searched
        THEN file[f.index + 1].startIp <= f.ip /\ f.ip <= file[f.index + 1].endIp
        ELSE f.index = 0

Finding == find \in [Searchers -> Find] /\ \A t \in Searchers : Finds(find[t])

(* No worker has begun to count before main has made the table. *)
Calling == main = "init" => \A w \in Workers : call[w].at = "out"

GeoipInv == Loading /\ Lines /\ Finding /\ Calling /\ noLocations \in BOOLEAN

(* A file has at most as many lines as the table. *)
LEMMA FilesAre ==
    ASSUME NEW f \in Files
    PROVE  GEOIP_FILE_LINES \in Nat \ {0} /\ Len(f) \in Nat /\ Len(f) <= GEOIP_FILE_LINES
  <1> DEFINE Address == [startIp : 0 .. MaxIp, endIp : 0 .. MaxIp]
  <1>1. GEOIP_FILE_LINES \in Nat \ {0}
    BY GeoipAssumption
  <1>2. f \in Seq(Address) /\ Len(f) <= GEOIP_FILE_LINES
    BY Zenon, GeoipAssumption
  <1> HIDE DEF Address
  <1>3. Len(f) \in Nat
    BY ONLY <1>2
  <1> QED  BY ONLY <1>1, <1>2, <1>3

(* What the loader has done, without the length of the file. *)
LEMMA LoadingIs ==
    ASSUME Loading
    PROVE  /\ LastLine \in Nat /\ GEOIP_FILE_LINES = LastLine + 1
           /\ line \in 0 .. GEOIP_FILE_LINES /\ cell \in 1 .. 4
           /\ line < Len(file) => line \in 0 .. LastLine
           /\ CellStored(LastLine, 3) => Len(file) = GEOIP_FILE_LINES
  <1> DEFINE n == Len(file)
  <1>1. file \in Files /\ line \in 0 .. n /\ cell \in 1 .. 4 /\ (cell # 1 => line < n)
    BY DEF Loading
  <1>2. GEOIP_FILE_LINES \in Nat \ {0} /\ n \in Nat /\ n <= GEOIP_FILE_LINES
    BY <1>1, FilesAre
  <1> HIDE DEF n
  <1>3. /\ LastLine \in Nat /\ GEOIP_FILE_LINES = LastLine + 1
        /\ line \in 0 .. GEOIP_FILE_LINES /\ cell \in 1 .. 4
        /\ line < n => line \in 0 .. LastLine
        /\ CellStored(LastLine, 3) => n = GEOIP_FILE_LINES
    BY <1>1, <1>2 DEF LastLine, CellStored
  <1> QED  BY ONLY <1>3 DEF n

(* There is no table at first. *)
LEMMA GeoipInvInit ==
    ASSUME Init
    PROVE  GeoipInv
  <1>1. file \in Files /\ line = 0 /\ cell = 1 /\ main = "init" /\ noLocations \in BOOLEAN
    BY DEF Init, GeoipInit
  <1>2. Loading
    <2>1. Len(file) \in Nat
      BY <1>1, FilesAre
    <2> QED  BY <1>1, <2>1 DEF Loading
  <1>3. Finding
    <2>1. find = [t \in Searchers |-> NoFind]
      BY DEF Init, GeoipInit
    <2>2. NoFind \in Find /\ NoFind.at = "out"
      BY GeoipAssumption DEF NoFind, Find, LastLine
    <2> QED  BY <2>1, <2>2 DEF Finding, Finds, Passed
  <1>4. Calling
    BY DEF Init, RpsInit, NoCall, Calling
  <1> QED  BY <1>1, <1>2, <1>3, <1>4 DEF GeoipInv, Lines

(* initGeoip makes the table. *)
LEMMA GeoipInvMake ==
    ASSUME GeoipInv, mainInitGeoip
    PROVE  GeoipInv'
  <1>0. /\ main = "init" /\ main' = "test" /\ geoip' = initGeoip(noLocations)
        /\ UNCHANGED <<file, line, cell, find, noLocations>>
    BY DEF mainInitGeoip, MainGoesOn
  <1>1. line = 0 /\ cell = 1 /\ LastLine \in Nat /\ GEOIP_FILE_LINES - 1 = LastLine
    BY <1>0, LoadingIs DEF GeoipInv, Loading
  <1>2. Loading'
    BY <1>0 DEF GeoipInv, Loading
  <1>3. ~noLocations => geoip' = [i \in 0 .. LastLine |-> geoip'[i]] /\ \A i \in 0 .. LastLine : LineIs(i)'
    <2> SUFFICES ASSUME ~noLocations
                 PROVE  geoip' = [i \in 0 .. LastLine |-> geoip'[i]] /\ \A i \in 0 .. LastLine : LineIs(i)'
      OBVIOUS
    <2>1. geoip' = [i \in 0 .. LastLine |->
                        IF i = LastLine THEN [Empty EXCEPT !.lat = "NOT_LOADING"] ELSE Empty]
      BY <1>0, <1>1 DEF initGeoip
    <2>2. \A i \in 0 .. LastLine : ~CellStored(i, 1)' /\ ~CellStored(i, 2)'
                                   /\ ~CellStored(i, 3)' /\ ~CellStored(i, 4)'
      BY <1>0, <1>1 DEF CellStored
    <2>3. \A i \in 0 .. LastLine : LineIs(i)'
      BY <2>1, <2>2 DEF LineIs, Empty
    <2> QED  BY <2>1, <2>3
  <1>4. Lines'
    BY <1>0, <1>3 DEF Lines, initGeoip
  <1>5. \A t \in Searchers : find[t].at = "out"
    BY <1>0 DEF GeoipInv, Finding, Finds
  <1>6. Finding'
    BY <1>0, <1>5 DEF GeoipInv, Finding, Finds, Passed
  <1> QED  BY <1>0, <1>2, <1>4, <1>6 DEF GeoipInv, Calling

(* The unsigned field undoes what atoi does to the addresses of a line. *)
LEMMA AddressKept ==
    ASSUME GeoipInv, line < Len(file)
    PROVE  LET l == file[line + 1] IN
               Unsigned(atoi(l.startIp)) = l.startIp /\ Unsigned(atoi(l.endIp)) = l.endIp
  <1>1. file[line + 1].startIp \in 0 .. MaxIp /\ file[line + 1].endIp \in 0 .. MaxIp /\ MaxIp \in Nat
    <2>1. file \in Files /\ line \in 0 .. Len(file) /\ Len(file) \in Nat
      BY FilesAre DEF GeoipInv, Loading
    <2>2. line + 1 \in 1 .. Len(file)
      BY <2>1
    <2> DEFINE Address == [startIp : 0 .. MaxIp, endIp : 0 .. MaxIp]
    <2>3. file \in Seq(Address) /\ MaxIp \in Nat
      BY Zenon, <2>1, GeoipAssumption
    <2>4. file[line + 1] \in Address
      <3> HIDE DEF Address
      <3> QED  BY ONLY <2>2, <2>3
    <2> QED  BY <2>3, <2>4
  <1> QED  BY <1>1 DEF Unsigned, atoi

(* The loader stores the next cell. *)
LEMMA GeoipInvLoad ==
    ASSUME GeoipInv, loader
    PROVE  GeoipInv'
  <1>0. /\ main # "init" /\ ~noLocations /\ line < Len(file)
        /\ cell' = (cell % 4) + 1 /\ line' = IF cell = 4 THEN line + 1 ELSE line
        /\ UNCHANGED <<file, find, main, noLocations>>
    BY DEF loader, loadCell, serverVars
  <1>1. /\ LastLine \in Nat /\ line \in 0 .. LastLine /\ cell \in 1 .. 4
        /\ main # "init" /\ main' # "init" /\ ~noLocations
    BY <1>0, LoadingIs DEF GeoipInv
  <1>2. /\ geoip = [i \in 0 .. LastLine |-> geoip[i]]
        /\ \A i \in 0 .. LastLine : LineIs(i)
    BY <1>1 DEF GeoipInv, Lines
  <1>3. /\ geoip' = [geoip EXCEPT ![line][Cells[cell]] = Stored]
        /\ cell' = (cell % 4) + 1 /\ line' = IF cell = 4 THEN line + 1 ELSE line
        /\ file' = file
    BY DEF loader, loadCell
  <1>4. geoip' = [i \in 0 .. LastLine |->
                    IF i = line THEN [geoip[line] EXCEPT ![Cells[cell]] = Stored] ELSE geoip[i]]
    BY <1>1, <1>2, <1>3
  <1>5. ASSUME NEW i \in 0 .. LastLine, NEW c \in 1 .. 4
        PROVE  CellStored(i, c)' <=> CellStored(i, c) \/ (i = line /\ c = cell)
    BY <1>1, <1>3 DEF CellStored
  <1>6. ASSUME NEW i \in 0 .. LastLine
        PROVE  LineIs(i)'
    <2>1. CASE i # line
      <3>1. geoip'[i] = geoip[i]
        BY <1>4, <2>1
      <3>2. /\ CellStored(i, 1)' <=> CellStored(i, 1)
            /\ CellStored(i, 2)' <=> CellStored(i, 2)
            /\ CellStored(i, 3)' <=> CellStored(i, 3)
            /\ CellStored(i, 4)' <=> CellStored(i, 4)
        BY <1>5, <2>1
      <3>3. LineIs(i)
        BY <1>2
      <3> QED  BY <1>3, <3>1, <3>2, <3>3 DEF LineIs
    <2>2. CASE i = line
      <3> DEFINE mark == IF i = LastLine THEN "NOT_LOADING" ELSE "zero"
      <3>1. geoip'[i] = [geoip[i] EXCEPT ![Cells[cell]] = Stored]
        BY <1>4, <2>2
      <3>2. geoip[i] = [startIp |-> IF 1 < cell THEN file[i + 1].startIp ELSE 0,
                        endIp |-> IF 2 < cell THEN file[i + 1].endIp ELSE 0,
                        lat |-> IF 3 < cell THEN "loaded" ELSE mark,
                        lon |-> IF 4 < cell THEN "loaded" ELSE "zero"]
        <4>1. LineIs(i) /\ \A c \in 1 .. 4 : CellStored(i, c) <=> c < cell
          BY <1>1, <1>2, <2>2 DEF CellStored
        <4> QED  BY <4>1 DEF LineIs
      <3> HIDE DEF mark
      <3>3. geoip'[i] = [startIp |-> file[i + 1].startIp,
                         endIp |-> IF 2 <= cell THEN file[i + 1].endIp ELSE 0,
                         lat |-> IF 3 <= cell THEN "loaded" ELSE mark,
                         lon |-> IF 4 <= cell THEN "loaded" ELSE "zero"]
        <4>1. CASE cell = 1
          <5>1. Cells[cell] = "startIp" /\ Stored = file[i + 1].startIp
            BY <1>0, <2>2, <4>1, AddressKept DEF Cells, Stored
          <5>2. geoip'[i] = [geoip[i] EXCEPT !.startIp = file[i + 1].startIp]
            BY <3>1, <5>1
          <5>3. geoip[i] = [startIp |-> 0, endIp |-> 0, lat |-> mark, lon |-> "zero"]
            BY <3>2, <4>1
          <5> QED  BY <4>1, <5>2, <5>3
        <4>2. CASE cell = 2
          <5>1. Cells[cell] = "endIp" /\ Stored = file[i + 1].endIp
            BY <1>0, <2>2, <4>2, AddressKept DEF Cells, Stored
          <5>2. geoip'[i] = [geoip[i] EXCEPT !.endIp = file[i + 1].endIp]
            BY <3>1, <5>1
          <5>3. geoip[i] = [startIp |-> file[i + 1].startIp, endIp |-> 0, lat |-> mark, lon |-> "zero"]
            BY <3>2, <4>2
          <5> QED  BY <4>2, <5>2, <5>3
        <4>3. CASE cell = 3
          <5>1. Cells[cell] = "lat" /\ Stored = "loaded"
            BY <2>2, <4>3 DEF Cells, Stored
          <5>2. geoip'[i] = [geoip[i] EXCEPT !.lat = "loaded"]
            BY <3>1, <5>1
          <5>3. geoip[i] = [startIp |-> file[i + 1].startIp, endIp |-> file[i + 1].endIp, lat |-> mark, lon |-> "zero"]
            BY <3>2, <4>3
          <5> QED  BY <4>3, <5>2, <5>3
        <4>4. CASE cell = 4
          <5>1. Cells[cell] = "lon" /\ Stored = "loaded"
            BY <2>2, <4>4 DEF Cells, Stored
          <5>2. geoip'[i] = [geoip[i] EXCEPT !.lon = "loaded"]
            BY <3>1, <5>1
          <5>3. geoip[i] = [startIp |-> file[i + 1].startIp, endIp |-> file[i + 1].endIp, lat |-> "loaded", lon |-> "zero"]
            BY <3>2, <4>4
          <5> QED  BY <4>4, <5>2, <5>3
        <4> QED  BY <1>1, <4>1, <4>2, <4>3, <4>4
      <3>4. \A c \in 1 .. 4 : CellStored(i, c)' <=> c <= cell
        <4>1. \A c \in 1 .. 4 : CellStored(i, c) <=> c < cell
          BY <1>1, <2>2 DEF CellStored
        <4>2. ASSUME NEW c \in 1 .. 4
              PROVE  CellStored(i, c)' <=> c <= cell
          <5>1. CellStored(i, c)' <=> CellStored(i, c) \/ (i = line /\ c = cell)
            BY <1>5
          <5> QED  BY <1>1, <2>2, <4>1, <5>1
        <4> QED  BY <4>2
      <3>5. /\ CellStored(i, 1)' /\ (CellStored(i, 2)' <=> 2 <= cell)
            /\ (CellStored(i, 3)' <=> 3 <= cell) /\ (CellStored(i, 4)' <=> 4 <= cell)
        BY <1>1, <3>4
      <3> QED  BY <1>3, <3>3, <3>5 DEF LineIs, mark
    <2> QED  BY <2>1, <2>2
  <1>7. Lines'
    BY <1>0, <1>4, <1>6 DEF Lines
  <1>8. Loading'
    <2>1. file \in Files /\ line \in 0 .. Len(file) /\ Len(file) \in Nat
      BY FilesAre DEF GeoipInv, Loading
    <2> QED  BY <1>0, <1>1, <2>1 DEF Loading
  <1>9. CellStored(LastLine, 3) => CellStored(LastLine, 3)'
    BY <1>1, <1>5
  <1>10. Finding'
    BY <1>0, <1>3, <1>9 DEF GeoipInv, Finding, Finds, Passed
  <1> QED  BY <1>0, <1>7, <1>8, <1>10 DEF GeoipInv, Calling

(* A table that is loaded but for the lon of its last line *)
LEMMA LoadedIs ==
    ASSUME GeoipInv, main # "init", ~noLocations, CellStored(LastLine, 3)
    PROVE  /\ Len(file) = GEOIP_FILE_LINES /\ file \in Files
           /\ \E lon \in {"zero", "loaded"} : geoip = Loaded(file, lon)
           /\ Complete(file) /\ TableOf(geoip, file)
  <1>1. /\ LastLine \in Nat /\ GEOIP_FILE_LINES - 1 = LastLine /\ line \in Nat /\ cell \in 1 .. 4
        /\ Len(file) = GEOIP_FILE_LINES /\ file \in Files
    BY LoadingIs DEF GeoipInv, Loading
  <1>2. /\ LastLine \in Nat /\ GEOIP_FILE_LINES - 1 = LastLine /\ line \in Nat /\ cell \in 1 .. 4
    BY <1>1
  <1>3. /\ geoip = [i \in 0 .. LastLine |-> geoip[i]]
        /\ \A i \in 0 .. LastLine : LineIs(i)
    BY DEF GeoipInv, Lines
  <1> DEFINE lon == IF CellStored(LastLine, 4) THEN "loaded" ELSE "zero"
  <1>4. ASSUME NEW i \in 0 .. LastLine
        PROVE  geoip[i] = [startIp |-> file[i + 1].startIp, endIp |-> file[i + 1].endIp,
                           lat |-> "loaded", lon |-> IF i = LastLine THEN lon ELSE "loaded"]
    <2>1. CellStored(i, 1) /\ CellStored(i, 2) /\ CellStored(i, 3) /\ (i # LastLine => CellStored(i, 4))
      BY <1>2 DEF CellStored
    <2>2. LineIs(i)
      BY <1>3
    <2> QED  BY <2>1, <2>2 DEF LineIs
  <1>5. geoip = Loaded(file, lon)
    <2> HIDE DEF lon
    <2> QED  BY <1>2, <1>3, <1>4 DEF Loaded
  <1>6. lon \in {"zero", "loaded"}
    OBVIOUS
  <1>7. Complete(file)
    BY <1>1 DEF Complete
  <1>8. TableOf(geoip, file)
    BY <1>1, <1>3, <1>4 DEF TableOf
  <1> QED  BY <1>1, <1>5, <1>6, <1>7, <1>8

(* One step of a search, of main or of a worker *)
LEMMA GeoipInvFind ==
    ASSUME GeoipInv, NEW t \in Searchers,
           \/ \E ip \in 0 .. MaxIp : startFind(t, ip)
           \/ findGeoip(t) \/ endFind(t),
           main # "init", main' # "init", noLocations' = noLocations
    PROVE  GeoipInv'
  <1>0. UNCHANGED <<geoip, file, line, cell>>
    BY DEF startFind, findGeoip, testFirst, testLast, search, endFind
  <1>1. Loading' /\ Lines'
    <2>1. Loading'
      BY <1>0 DEF GeoipInv, Loading
    <2>2. Lines'
      <3>1. ASSUME NEW i \in 0 .. LastLine, LineIs(i)
            PROVE  LineIs(i)'
        BY <1>0, <3>1 DEF LineIs, CellStored
      <3> QED  BY <1>0, <3>1 DEF GeoipInv, Lines
    <2> QED  BY <2>1, <2>2
  <1>2. /\ find \in [Searchers -> Find] /\ find[t] \in Find /\ \A u \in Searchers : Finds(find[u])
        /\ MaxIp \in Nat /\ 0 \in 0 .. LastLine /\ LastLine = GEOIP_FILE_LINES - 1
    BY GeoipAssumption DEF GeoipInv, Finding, LastLine
  <1>3. SUFFICES \E f \in Find : find' = [find EXCEPT ![t] = f] /\ Finds(f)
    BY <1>0, <1>1, <1>2 DEF GeoipInv, Finding, Finds, Passed, Calling, CellStored
  <1>4. CASE (\E ip \in 0 .. MaxIp : startFind(t, ip)) \/ endFind(t)
    <2>1. ASSUME NEW ip \in 0 .. MaxIp, startFind(t, ip)
          PROVE  \E f \in Find : find' = [find EXCEPT ![t] = f] /\ Finds(f)
      <3> DEFINE f == [NoFind EXCEPT !.at = "first", !.ip = ip]
      <3>1. find' = [find EXCEPT ![t] = f]
        BY <2>1 DEF startFind
      <3>2. f \in Find /\ f.at = "first"
        BY <1>2 DEF Find, NoFind
      <3>3. Finds(f)
        BY <3>2 DEF Finds, Passed
      <3> QED  BY <3>1, <3>2, <3>3
    <2>2. CASE endFind(t)
      <3>1. find' = [find EXCEPT ![t] = NoFind]
        BY <2>2 DEF endFind
      <3>2. NoFind \in Find /\ Finds(NoFind)
        BY <1>2 DEF NoFind, Find, Finds, Passed
      <3> QED  BY <3>1, <3>2
    <2> QED  BY <1>4, <2>1, <2>2
  <1>5. CASE testFirst(t)
    <2>1. find[t].at = "first"
      BY <1>5 DEF testFirst
    <2>2. CASE geoip[0].endIp = 0
      <3> DEFINE f == [find[t] EXCEPT !.at = "done", !.index = 0, !.searched = FALSE]
      <3>1. find' = [find EXCEPT ![t] = f]
        BY <1>2, <1>5, <2>2 DEF testFirst, Return, Find
      <3>2. f \in Find /\ Finds(f)
        BY <1>2, <2>1 DEF Find, Finds, Passed
      <3> QED  BY <3>1, <3>2
    <2>3. CASE geoip[0].endIp # 0
      <3> DEFINE f == [find[t] EXCEPT !.at = "last"]
      <3>1. find' = [find EXCEPT ![t] = f]
        BY <1>2, <1>5, <2>3 DEF testFirst
      <3>2. ~noLocations
        BY <2>3 DEF GeoipInv, Lines, Empty
      <3>3. f \in Find /\ Finds(f)
        BY <1>2, <2>1, <3>2 DEF Find, Finds, Passed
      <3> QED  BY <3>1, <3>3
    <2> QED  BY <2>2, <2>3
  <1>6. CASE testLast(t)
    <2>1. find[t].at = "last" /\ ~noLocations
      BY <1>2, <1>6 DEF testLast, Finds
    <2>2. CASE geoip[LastLine].lat = "NOT_LOADING"
      <3> DEFINE f == [find[t] EXCEPT !.at = "done", !.index = 0, !.searched = FALSE]
      <3>1. find' = [find EXCEPT ![t] = f]
        BY <1>2, <1>6, <2>2 DEF testLast, Return, Find
      <3>2. f \in Find /\ Finds(f)
        BY <1>2, <2>1 DEF Find, Finds, Passed
      <3> QED  BY <3>1, <3>2
    <2>3. CASE geoip[LastLine].lat # "NOT_LOADING"
      <3> DEFINE f == [find[t] EXCEPT !.at = "search"]
      <3>1. find' = [find EXCEPT ![t] = f]
        BY <1>2, <1>6, <2>3 DEF testLast
      <3>2. CellStored(LastLine, 3)
        <4>1. LastLine \in 0 .. LastLine
          BY <1>2
        <4>2. LineIs(LastLine)
          BY <2>1, <4>1 DEF GeoipInv, Lines
        <4> QED  BY <2>3, <4>2 DEF LineIs
      <3>3. f \in Find /\ Finds(f)
        BY <1>2, <2>1, <3>2 DEF Find, Finds, Passed
      <3> QED  BY <3>1, <3>3
    <2> QED  BY <2>2, <2>3
  <1>7. CASE search(t)
    <2> DEFINE index == Search(geoip, find[t].ip)
               f == [find[t] EXCEPT !.at = "done", !.index = index, !.searched = TRUE]
    <2>1. find[t].at = "search" /\ ~noLocations /\ CellStored(LastLine, 3) /\ find[t].ip \in 0 .. MaxIp
      BY <1>2, <1>7 DEF search, Finds, Passed, Find
    <2>2. find' = [find EXCEPT ![t] = f]
      BY <1>2, <1>7 DEF search, Return, Find
    <2>3. PICK lon \in {"zero", "loaded"} :
            geoip = Loaded(file, lon) /\ Complete(file) /\ TableOf(geoip, file)
      BY <1>2, <2>1, LoadedIs
    <2>4. Covers(geoip, Search(geoip, find[t].ip), find[t].ip)
      BY <2>1, <2>3, SearchFinds
    <2>5. Covers(Loaded(file, lon), index, find[t].ip)
      BY <2>3, <2>4
    <2> HIDE DEF index
    <2>6. /\ index \in 0 .. LastLine
          /\ file[index + 1].startIp <= find[t].ip /\ find[t].ip <= file[index + 1].endIp
      BY <1>2, <2>5 DEF Covers, Loaded
    <2>7. f \in Find
      BY <1>2, <2>6 DEF Find
    <2>8. f.at = "done" /\ f.index = index /\ f.searched /\ f.ip = find[t].ip
      BY <1>2 DEF Find
    <2>9. Finds(f)
      BY <2>1, <2>6, <2>8 DEF Finds, Passed
    <2> QED  BY <2>2, <2>7, <2>9
  <1> QED  BY <1>4, <1>5, <1>6, <1>7 DEF findGeoip

(* The table is as the loader has left it in every reachable state of the    *)
(* server, and so is what the searches have found.                           *)
LEMMA GeoipInvNext ==
    ASSUME GeoipInv, [Next]_vars
    PROVE  GeoipInv'
  <1>0. "main" \in Searchers /\ 0 \in 0 .. MaxIp /\ NoCall.at = "out"
    BY ServerAssumption, GeoipAssumption DEF NoCall
  <1>1. ASSUME UNCHANGED <<geoipVars, noLocations>>, main' = "init" => main = "init", Calling',
               main # "init" \/ main' = "init"
        PROVE  GeoipInv'
    <2>1. UNCHANGED <<geoip, file, line, cell, find, noLocations>>
      BY <1>1 DEF geoipVars
    <2>2. ASSUME NEW i \in 0 .. LastLine, LineIs(i)
          PROVE  LineIs(i)'
      BY <2>1, <2>2 DEF LineIs, CellStored
    <2>3. Lines'
      BY <1>1, <2>1, <2>2 DEF GeoipInv, Lines
    <2>4. Loading'
      BY <1>1, <2>1 DEF GeoipInv, Loading
    <2>5. Finding'
      BY <1>1, <2>1 DEF GeoipInv, Finding, Finds, Passed, CellStored
    <2> QED  BY <1>1, <2>1, <2>3, <2>4, <2>5 DEF GeoipInv
  <1>2. CASE mainThread
    <2>1. CASE mainInitGeoip
      BY <2>1, GeoipInvMake
    <2>2. CASE mainFind
      BY <1>0, <2>2, GeoipInvFind DEF mainFind, MainGoesOn
    <2>3. CASE mainTested
      BY <1>0, <2>3, GeoipInvFind DEF mainTested
    <2>4. CASE mainListen \/ setNobody \/ mainResetMaxRps
      BY <1>1, <2>4 DEF mainListen, setNobody, mainResetMaxRps, MainGoesOn, Calling
    <2> QED  BY <1>2, <2>1, <2>2, <2>3, <2>4 DEF mainThread
  <1>3. CASE loader
    BY <1>3, GeoipInvLoad
  <1>4. CASE statusThread \/ \E p \in Protocols : bind(p)
    <2>1. /\ UNCHANGED <<geoipVars, noLocations>> /\ main # "init" /\ main' # "init"
      BY <1>4 DEF statusThread, bind, Started, serverVars
    <2> QED  BY <1>1, <2>1 DEF Calling
  <1>5. ASSUME NEW w \in Workers, receive(w)
        PROVE  GeoipInv'
    BY <1>1, <1>5 DEF receive, Started, Calling
  <1>6. ASSUME NEW w \in Workers, call[w].at # "out"
        PROVE  main # "init"
    BY <1>6 DEF GeoipInv, Calling
  <1>7. ASSUME NEW w \in Workers, countRequest(w)
        PROVE  GeoipInv'
    <2>1. call[w].at # "out"
      BY <1>7 DEF countRequest, updateRps, increment, loadCounter, compareMax, storeMax
    <2> QED  BY <1>1, <1>6, <1>7, <2>1 DEF countRequest, serverVars, Calling
  <1>8. ASSUME NEW w \in Workers, beginFind(w) \/ noFind(w)
        PROVE  GeoipInv'
    <2>1. main # "init" /\ UNCHANGED <<main, noLocations>>
      BY <1>6, <1>8 DEF beginFind, noFind, Counted, serverVars
    <2>2. CASE beginFind(w)
      BY <2>1, <2>2, GeoipInvFind DEF beginFind
    <2>3. CASE noFind(w)
      BY <1>1, <2>1, <2>3 DEF noFind, Calling
    <2> QED  BY <1>8, <2>2, <2>3
  <1>9. ASSUME NEW t \in Searchers, findLocation(t) \/ finishFind(t)
        PROVE  GeoipInv'
    <2>1. find[t].at # "out" /\ UNCHANGED <<main, noLocations>> /\ (findGeoip(t) \/ endFind(t))
      BY <1>9 DEF findLocation, finishFind, findGeoip, testFirst, testLast, search, endFind, serverVars
    <2>2. main # "init"
      BY <2>1 DEF GeoipInv, Finding, Finds
    <2> QED  BY <2>1, <2>2, GeoipInvFind
  <1>10. CASE UNCHANGED vars
    <2>1. UNCHANGED <<geoipVars, noLocations, main, call>>
      BY <1>10 DEF vars, serverVars, rpsVars
    <2>2. Calling'
      BY <2>1 DEF GeoipInv, Calling
    <2> QED  BY <1>1, <2>1, <2>2
  <1> QED  BY <1>2, <1>3, <1>4, <1>5, <1>7, <1>8, <1>9, <1>10 DEF Next

(* A search that gets past the two tests finds a loaded line that covers its *)
(* address although the loader may still be at work, and any other returns   *)
(* the first line (geoip.c:126-182), for any file and any number of workers. *)
THEOREM FoundCorrect == Spec => []FoundIsLoaded
  <1>1. Init => GeoipInv
    BY GeoipInvInit
  <1>2. GeoipInv /\ [Next]_vars => GeoipInv'
    BY GeoipInvNext
  <1>3. GeoipInv => FoundIsLoaded
    <2> SUFFICES ASSUME GeoipInv, NEW t \in Searchers, find[t].at = "done"
                 PROVE  IF find[t].searched
                        THEN /\ Covers(geoip, find[t].index, find[t].ip)
                             /\ geoip[find[t].index].lat = "loaded"
                             /\ geoip[find[t].index].lon = "loaded" \/ find[t].index = GEOIP_FILE_LINES - 1
                        ELSE find[t].index = 0 /\ 0 \in DOMAIN geoip
      BY DEF FoundIsLoaded
    <2>0. /\ find[t] \in Find /\ Finds(find[t]) /\ main # "init"
          /\ 0 \in 0 .. LastLine /\ LastLine = GEOIP_FILE_LINES - 1
      BY GeoipAssumption DEF GeoipInv, Finding, Finds, LastLine
    <2>1. CASE find[t].searched
      <3>1. ~noLocations /\ CellStored(LastLine, 3)
        BY <2>0, <2>1 DEF Finds, Passed
      <3>2. PICK lon \in {"zero", "loaded"} : geoip = Loaded(file, lon)
        BY <2>0, <3>1, LoadedIs
      <3>3. /\ find[t].index \in 0 .. LastLine
            /\ file[find[t].index + 1].startIp <= find[t].ip /\ find[t].ip <= file[find[t].index + 1].endIp
        BY <2>0, <2>1 DEF Finds, Find
      <3> QED  BY <2>0, <2>1, <3>2, <3>3 DEF Loaded, Covers
    <2>2. CASE ~find[t].searched
      BY <2>0, <2>2 DEF GeoipInv, Lines, Finds
    <2> QED  BY <2>1, <2>2
  <1> QED  BY <1>1, <1>2, <1>3, PTL DEF Spec

(* A table whose last line has its lat answers every address, and goes on to *)
(* (geoip.c:45-110 with 136-182): the safety half of LocationsLoaded.        *)
AllFound ==
    main # "init" /\ ~noLocations /\ geoip[GEOIP_FILE_LINES - 1].lat = "loaded" =>
        \A ip \in 0..MaxIp :
            /\ Covers(geoip, Search(geoip, ip), ip)
            /\ \A i \in 0..LastTurn : Turns(geoip, ip)[i].index \in DOMAIN geoip

(* From the last line's lat on, every address is found in the table.         *)
THEOREM AllFoundCorrect == Spec => []AllFound
  <1>1. Init => GeoipInv
    BY GeoipInvInit
  <1>2. GeoipInv /\ [Next]_vars => GeoipInv'
    BY GeoipInvNext
  <1>3. GeoipInv => AllFound
    <2> SUFFICES ASSUME GeoipInv, main # "init", ~noLocations, geoip[LastLine].lat = "loaded"
                 PROVE  \A ip \in 0..MaxIp :
                            /\ Covers(geoip, Search(geoip, ip), ip)
                            /\ \A i \in 0..LastTurn : Turns(geoip, ip)[i].index \in DOMAIN geoip
      BY DEF AllFound, LastLine
    <2>1. CellStored(LastLine, 3)
      <3>1. LastLine \in 0 .. LastLine
        BY LoadingIs DEF GeoipInv
      <3>2. LineIs(LastLine)
        BY <3>1 DEF GeoipInv, Lines
      <3> QED  BY <3>2 DEF LineIs
    <2>2. Complete(file) /\ TableOf(geoip, file)
      BY <2>1, LoadedIs
    <2> QED  BY <2>2, SearchFinds
  <1> QED  BY <1>1, <1>2, <1>3, PTL DEF Spec
=============================================================================
