------------------------------ MODULE Interval ------------------------------
(***************************************************************************)
(* The announce interval (interval.c) and the threads that share it: the   *)
(* interval changer, which moves the interval second by second towards     *)
(* requireInterval; the garbage collector thread, which runs only when the *)
(* interval has arrived and then sets the next requireInterval from the    *)
(* load average; and the TCP workers that serve /api/set.  The three       *)
(* fields are _Atomic and there is no lock: every load and store is a step *)
(* of its own.                                                             *)
(***************************************************************************)
EXTENDS Integers

CONSTANTS
    minInterval, maxInterval,   \* --min-interval, --max-interval
    startInterval,              \* -i, which parseArguments does not clamp
    INTERVAL_STEP_S,
    UIntMax,                    \* largest unsigned int
    Setters,                    \* workers that serve /api/set
    SetValues,                  \* intervals /api/set asks for, not 0
    MaxSets                     \* bound: number of /api/set requests

UInt == 0 .. UIntMax

ASSUME RangeAssumption ==
    /\ UIntMax \in Nat
    /\ minInterval \in UInt \ {0} /\ maxInterval \in UInt
    /\ minInterval <= maxInterval /\ maxInterval < UIntMax
ASSUME StepAssumption == INTERVAL_STEP_S \in UInt \ {0}
ASSUME StartAssumption == startInterval \in UInt \ {0}
ASSUME SetAssumption == SetValues \subseteq UInt \ {0} /\ MaxSets \in Nat

VARIABLES
    interval, requireInterval, previousInterval,
    changer,        \* interval changer: pc, and the interval it loaded
    gc,             \* garbage collector: pc, the interval it loaded, localInterval
    setter,         \* each worker: pc, and the value it stores
    sets            \* /api/set requests so far

fields == <<interval, requireInterval, previousInterval>>
vars == <<fields, changer, gc, setter, sets>>

TypeOK ==
    /\ interval \in UInt /\ requireInterval \in UInt /\ previousInterval \in UInt
    /\ changer \in [pc: {"less", "lessRequire", "greater", "greaterRequire", "inc", "dec"},
                    seen: UInt]
    /\ gc \in [pc: {"check", "checkRequire", "collect", "update", "previous", "require"},
               seen: UInt, localInterval: UInt]
    /\ setter \in [Setters -> [pc: {"idle", "interval", "require", "previous"}, value: UInt]]
    /\ sets \in 0 .. MaxSets

Init ==
    /\ interval = startInterval
    /\ requireInterval = startInterval
    /\ previousInterval = startInterval
    /\ changer = [pc |-> "less", seen |-> 0]
    /\ gc = [pc |-> "check", seen |-> 0, localInterval |-> 0]
    /\ setter = [s \in Setters |-> [pc |-> "idle", value |-> 0]]
    /\ sets = 0

(* unsigned arithmetic *)
AddU(x, y) == IF x + y > UIntMax THEN x + y - UIntMax - 1 ELSE x + y
SubU(x, y) == IF y <= x THEN x - y ELSE x + UIntMax + 1 - y

(* Mutant: the lower bound is not applied. *)
niceIntervalNoMin(value) == IF value > maxInterval THEN maxInterval ELSE value

niceInterval(value) ==
    IF value < minInterval THEN minInterval
    ELSE IF value > maxInterval THEN maxInterval ELSE value

-----------------------------------------------------------------------------
(* stepInterval, called by intervalChangerHandler between two sleeps *)

compareLess ==
    /\ changer.pc = "less"
    /\ changer' = [pc |-> "lessRequire", seen |-> interval]
    /\ UNCHANGED <<fields, gc, setter, sets>>

compareLessRequire ==
    /\ changer.pc = "lessRequire"
    /\ changer' = [pc |-> IF changer.seen < requireInterval THEN "inc" ELSE "greater", seen |-> 0]
    /\ UNCHANGED <<fields, gc, setter, sets>>

compareGreater ==
    /\ changer.pc = "greater"
    /\ changer' = [pc |-> "greaterRequire", seen |-> interval]
    /\ UNCHANGED <<fields, gc, setter, sets>>

compareGreaterRequire ==
    /\ changer.pc = "greaterRequire"
    /\ changer' = [pc |-> IF changer.seen > requireInterval THEN "dec" ELSE "less", seen |-> 0]
    /\ UNCHANGED <<fields, gc, setter, sets>>

increase ==
    /\ changer.pc = "inc"
    /\ interval' = AddU(interval, 1)
    /\ changer' = [pc |-> "less", seen |-> 0]
    /\ UNCHANGED <<requireInterval, previousInterval, gc, setter, sets>>

(* Mutant: the interval never goes down. *)
decreaseNot ==
    /\ changer.pc = "dec"
    /\ changer' = [pc |-> "less", seen |-> 0]
    /\ UNCHANGED <<fields, gc, setter, sets>>

decrease ==
    /\ changer.pc = "dec"
    /\ interval' = SubU(interval, 1)
    /\ changer' = [pc |-> "less", seen |-> 0]
    /\ UNCHANGED <<requireInterval, previousInterval, gc, setter, sets>>

stepInterval ==
    \/ compareLess \/ compareLessRequire \/ compareGreater \/ compareGreaterRequire
    \/ increase \/ decrease

-----------------------------------------------------------------------------
(* garbageCollectorArgsHandler *)

checkInterval ==
    /\ gc.pc = "check"
    /\ gc' = [gc EXCEPT !.pc = "checkRequire", !.seen = interval]
    /\ UNCHANGED <<fields, changer, setter, sets>>

(* Mutant: the collector does not wait for the interval to arrive. *)
checkRequireNot ==
    /\ gc.pc = "checkRequire"
    /\ gc' = [gc EXCEPT !.pc = "collect", !.seen = 0]
    /\ UNCHANGED <<fields, changer, setter, sets>>

(* sleep(THREAD_GARBAGE_LITTLE_SLEEP) and try again while the interval moves *)
checkRequire ==
    /\ gc.pc = "checkRequire"
    /\ gc' = [gc EXCEPT !.pc = IF gc.seen = requireInterval THEN "collect" ELSE "check",
                        !.seen = 0]
    /\ UNCHANGED <<fields, changer, setter, sets>>

(* runGarbageCollectorL: module Tracker *)
collect ==
    /\ gc.pc = "collect"
    /\ gc' = [gc EXCEPT !.pc = "update"]
    /\ UNCHANGED <<fields, changer, setter, sets>>

(* updateInterval loads requireInterval and moves its copy by the load:    *)
(* all averages low, all high, or neither.  getloadavg may fail.           *)
NextInterval(value) ==
    {niceInterval(SubU(value, INTERVAL_STEP_S)), niceInterval(AddU(value, INTERVAL_STEP_S)),
     niceInterval(value)}

updateInterval(value) ==
    /\ gc.pc = "update"
    /\ gc' = [gc EXCEPT !.pc = "previous", !.localInterval = value]
    /\ UNCHANGED <<fields, changer, setter, sets>>

getloadavgFailed ==
    /\ gc.pc = "update"
    /\ gc' = [gc EXCEPT !.pc = "check"]
    /\ UNCHANGED <<fields, changer, setter, sets>>

setPrevious ==
    /\ gc.pc = "previous"
    /\ previousInterval' = requireInterval
    /\ gc' = [gc EXCEPT !.pc = "require"]
    /\ UNCHANGED <<interval, requireInterval, changer, setter, sets>>

setRequire ==
    /\ gc.pc = "require"
    /\ requireInterval' = gc.localInterval
    /\ gc' = [gc EXCEPT !.pc = "check", !.localInterval = 0]
    /\ UNCHANGED <<interval, previousInterval, changer, setter, sets>>

Collector ==
    \/ checkInterval \/ checkRequire \/ collect
    \/ \E value \in NextInterval(requireInterval) : updateInterval(value)
    \/ getloadavgFailed
    \/ setPrevious \/ setRequire

-----------------------------------------------------------------------------
(* forceUpdateInterval, called for /api/set *)

ApiSet(s, value) ==
    /\ setter[s].pc = "idle"
    /\ sets < MaxSets
    /\ sets' = sets + 1
    /\ setter' = [setter EXCEPT ![s] = [pc |-> "interval", value |-> niceInterval(value)]]
    /\ UNCHANGED <<fields, changer, gc>>

forceInterval(s) ==
    /\ setter[s].pc = "interval"
    /\ interval' = setter[s].value
    /\ setter' = [setter EXCEPT ![s].pc = "require"]
    /\ UNCHANGED <<requireInterval, previousInterval, changer, gc, sets>>

forceRequire(s) ==
    /\ setter[s].pc = "require"
    /\ requireInterval' = setter[s].value
    /\ setter' = [setter EXCEPT ![s].pc = "previous"]
    /\ UNCHANGED <<interval, previousInterval, changer, gc, sets>>

forcePrevious(s) ==
    /\ setter[s].pc = "previous"
    /\ previousInterval' = setter[s].value
    /\ setter' = [setter EXCEPT ![s] = [pc |-> "idle", value |-> 0]]
    /\ UNCHANGED <<interval, requireInterval, changer, gc, sets>>

forceUpdateInterval(s) == forceInterval(s) \/ forceRequire(s) \/ forcePrevious(s)

-----------------------------------------------------------------------------
Next ==
    \/ stepInterval
    \/ Collector
    \/ \E s \in Setters : forceUpdateInterval(s) \/ \E value \in SetValues : ApiSet(s, value)

(* The threads wake from their sleeps and keep running. *)
Fairness ==
    /\ WF_vars(stepInterval) /\ WF_vars(Collector)
    /\ \A s \in Setters : WF_vars(forceUpdateInterval(s))

Spec == Init /\ [][Next]_vars /\ Fairness

-----------------------------------------------------------------------------
(* The interval that clients are told leaves the configured range by one   *)
(* second at most: a comparison of stepInterval can be overtaken by        *)
(* /api/set between its load and its ++ or --, but not twice.              *)
WithinOneSecond == minInterval - 1 <= interval /\ interval <= maxInterval + 1

Distance(x, y) == IF x < y THEN y - x ELSE x - y

(* Until the first /api/set the collector asks for a new interval only     *)
(* after the changer reached the last one, so the two are never more than  *)
(* one step apart: between two announces the interval moves by one step.   *)
OneStepApart == sets = 0 => Distance(interval, requireInterval) <= INTERVAL_STEP_S

(* The garbage collector is never locked out by an interval that does not  *)
(* arrive: whatever /api/set stores in between, it runs again and again.   *)
CollectorRunsForever == []<>(gc.pc = "collect")
=============================================================================
