-------------------------------- MODULE Rps --------------------------------
(* Requests per second (rps.c): two counters per kind of request that take   *)
(* turns, one counting while the other shows the last period, and the        *)
(* highest value seen.  Every access to an atomic variable is a step.        *)
EXTENDS Integers, FiniteSets

CONSTANTS
    Workers,               \* TCP and UDP workers
    RPS_DIFFERENT_VALUES   \* kinds of requests: protocol + ipVersion

ASSUME RpsAssumption == RPS_DIFFERENT_VALUES \in Nat \ {0} /\ IsFiniteSet(Workers)

VARIABLES
    status,   \* the counter in use
    counter,  \* odd and even
    max,
    zeroed,   \* values the status thread has zeroed in this round
    call,     \* updateRps of a worker: where it is, its counter and its locals
    calls,    \* history: calls that chose a counter in its current or last period
    late      \* history: increments, since a counter was zeroed, of earlier calls

rpsVars == <<status, counter, max, zeroed, call, calls, late>>

Statuses == {"EVEN", "ODD"}
Indexes == 0..RPS_DIFFERENT_VALUES - 1
Other(s) == IF s = "EVEN" THEN "ODD" ELSE "EVEN"
NoCall == [at |-> "out", status |-> "EVEN", index |-> 0, value |-> 0, late |-> FALSE]
Zeroes == [s \in Statuses |-> [i \in Indexes |-> 0]]

RpsInit ==
    /\ status = "EVEN" /\ zeroed = 0
    /\ counter = Zeroes /\ calls = Zeroes /\ late = Zeroes
    /\ max = [i \in Indexes |-> 0]
    /\ call = [w \in Workers |-> NoCall]

-----------------------------------------------------------------------------
(* updateRps. *)
readStatus(w, index) ==
    /\ call[w].at = "out"
    /\ call' = [call EXCEPT ![w] = [NoCall EXCEPT !.at = "increment", !.status = status, !.index = index]]
    /\ calls' = [calls EXCEPT ![status][index] = @ + 1]
    /\ UNCHANGED <<status, counter, max, zeroed, late>>

increment(w) ==
    /\ call[w].at = "increment"
    /\ LET s == call[w].status  i == call[w].index IN
        /\ counter' = [counter EXCEPT ![s][i] = @ + 1]
        /\ late' = [late EXCEPT ![s][i] = IF call[w].late THEN @ + 1 ELSE @]
    /\ call' = [call EXCEPT ![w].at = "compare"]
    /\ UNCHANGED <<status, max, zeroed, calls>>

loadCounter(w, from, to) ==
    /\ call[w].at = from
    /\ call' = [call EXCEPT ![w].at = to, ![w].value = counter[call[w].status][call[w].index]]
    /\ UNCHANGED <<status, counter, max, zeroed, calls, late>>

compareMax(w) ==
    /\ call[w].at = "compareMax"
    /\ call' = [call EXCEPT ![w] = IF @.value > max[@.index] THEN [@ EXCEPT !.at = "load"]
                                                             ELSE [NoCall EXCEPT !.at = "done"]]
    /\ UNCHANGED <<status, counter, max, zeroed, calls, late>>

storeMax(w) ==
    /\ call[w].at = "store"
    /\ max' = [max EXCEPT ![call[w].index] = call[w].value]
    /\ call' = [call EXCEPT ![w] = [NoCall EXCEPT !.at = "done"]]
    /\ UNCHANGED <<status, counter, zeroed, calls, late>>

updateRps(w) ==
    \/ increment(w) \/ loadCounter(w, "compare", "compareMax") \/ compareMax(w)
    \/ loadCounter(w, "load", "store") \/ storeMax(w)

-----------------------------------------------------------------------------
(* rpsStatusHandler: zero the values of the counter that is not in use, then *)
(* put it in use.                                                            *)
Delayed(w, index) == call[w].at = "increment" /\ call[w].status = Other(status) /\ call[w].index = index

zero ==
    /\ zeroed < RPS_DIFFERENT_VALUES
    /\ counter' = [counter EXCEPT ![Other(status)][zeroed] = 0]
    /\ late' = [late EXCEPT ![Other(status)][zeroed] = 0]
    /\ call' = [w \in Workers |-> IF Delayed(w, zeroed) THEN [call[w] EXCEPT !.late = TRUE] ELSE call[w]]
    /\ zeroed' = zeroed + 1
    /\ UNCHANGED <<status, max, calls>>

(* Mutant: the counter is put in use as it was left. *)
changeStatusOnly ==
    /\ zeroed = 0
    /\ status' = Other(status)
    /\ calls' = [calls EXCEPT ![Other(status)] = [i \in Indexes |-> 0]]
    /\ UNCHANGED <<counter, max, zeroed, call, late>>

changeStatus ==
    /\ zeroed = RPS_DIFFERENT_VALUES
    /\ status' = Other(status)
    /\ calls' = [calls EXCEPT ![Other(status)] = [i \in Indexes |-> 0]]
    /\ zeroed' = 0
    /\ UNCHANGED <<counter, max, call, late>>

rpsStatusHandler == zero \/ changeStatus

resetMaxRps(index) ==
    /\ max' = [max EXCEPT ![index] = 0]
    /\ UNCHANGED <<status, counter, zeroed, call, calls, late>>

-----------------------------------------------------------------------------
(* Every call of updateRps counts once, in the period whose status it read:  *)
(* a counter, but for one that is being zeroed, is the number of calls that  *)
(* chose it in its period, less the ones about to increment it, and more     *)
(* only by calls that were delayed for a whole period.                       *)
Pending(s, i) == {w \in Workers : /\ call[w].at = "increment" /\ ~call[w].late
                                  /\ call[w].status = s /\ call[w].index = i}
CallsCounted ==
    \A s \in Statuses, i \in Indexes :
        s = status \/ zeroed = 0 =>
            counter[s][i] + Cardinality(Pending(s, i)) = calls[s][i] + late[s][i]
=============================================================================
