----------------------------- MODULE Arguments -----------------------------
(* parseArguments of argument.c as functions: what one option does to the    *)
(* configuration, and what happens to it after the last one.  A number is    *)
(* what atoi makes of the argument, cast to the type of its field; of a text *)
(* only whether it is given is kept.                                         *)
EXTENDS Integers

CONSTANTS
    UShortMax, UIntMax,              \* largest unsigned short and unsigned int
    Processors,                      \* sysconf(_SC_NPROCESSORS_ONLN)
    ARGUMENT_MIN_INTERVAL_DEFAULT,
    ARGUMENT_MAX_INTERVAL_DEFAULT

ASSUME ArgumentsAssumption ==
    /\ {UShortMax, UIntMax, Processors} \subseteq Nat \ {0}
    /\ UShortMax >= 3 /\ UIntMax >= 60      \* the defaults of -t and -m
    /\ ARGUMENT_MIN_INTERVAL_DEFAULT \in 1..ARGUMENT_MAX_INTERVAL_DEFAULT
    /\ ARGUMENT_MAX_INTERVAL_DEFAULT \in 1..UIntMax

UShorts == {"port", "socketTimeout"}
UInts == {"interval", "maxPeersPerResponse", "minInterval", "maxInterval"}
Longs == {"workers", "nofile", "core", "failed", "maxLoadAvg"}
Texts == {"charset", "locale", "xForwardedFor"}
Flags == {"keepAlive", "noTcp", "noUdp", "noLocations"}

WithValue == UShorts \cup UInts \cup Longs \cup Texts
Fields == WithValue \cup Flags
Options == Fields \cup {"help", "unknown"}

DefaultNumber(f) ==
    CASE f = "port" -> 3000 % (UShortMax + 1)
      [] f = "socketTimeout" -> 3
      [] f = "interval" -> ARGUMENT_MAX_INTERVAL_DEFAULT
      [] f = "maxPeersPerResponse" -> 60
      [] f = "minInterval" -> ARGUMENT_MIN_INTERVAL_DEFAULT
      [] f = "maxInterval" -> ARGUMENT_MAX_INTERVAL_DEFAULT
      [] f = "workers" -> Processors
      [] f \in Longs \ {"workers"} -> 0

Defaults == [f \in Fields |-> IF f \in Texts \cup Flags THEN FALSE ELSE DefaultNumber(f)]

(* The value of an option, number being what atoi returns for it: 0 for the  *)
(* last option of the command line, which has no value.                      *)
Cast(option, number) ==
    IF option \in UShorts THEN number % (UShortMax + 1)
    ELSE IF option \in UInts THEN number % (UIntMax + 1)
    ELSE number

Value(option, given, number) ==
    IF option \in Texts THEN given
    ELSE IF option \in Flags THEN TRUE
    ELSE Cast(option, IF given THEN number ELSE 0)

Assign(arguments, option, given, number) ==
    [arguments EXCEPT ![option] = Value(option, given, number)]

Smallest(m, n) == IF m < n THEN m ELSE n
Greatest(m, n) == IF m > n THEN m ELSE n

(* Mutant: minInterval is not held below the default maximum. *)
ClampedMaxOnly(arguments) ==
    LET min == Greatest(ARGUMENT_MIN_INTERVAL_DEFAULT, arguments["minInterval"])
        max == Smallest(ARGUMENT_MAX_INTERVAL_DEFAULT, Greatest(min, arguments["maxInterval"]))
    IN  [arguments EXCEPT !["minInterval"] = min, !["maxInterval"] = max]

Clamped(arguments) ==
    LET min == Smallest(ARGUMENT_MAX_INTERVAL_DEFAULT,
                        Greatest(ARGUMENT_MIN_INTERVAL_DEFAULT, arguments["minInterval"]))
        max == Smallest(ARGUMENT_MAX_INTERVAL_DEFAULT, Greatest(min, arguments["maxInterval"]))
    IN  [arguments EXCEPT !["minInterval"] = min, !["maxInterval"] = max]

(* Otherwise showHelp ends the program. *)
Accepted(arguments) ==
    /\ \A f \in UShorts \cup UInts \cup {"workers"} : arguments[f] # 0
    /\ ~(arguments["noTcp"] /\ arguments["noUdp"])
=============================================================================
