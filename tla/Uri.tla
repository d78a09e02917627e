-------------------------------- MODULE Uri --------------------------------
(* parseUri and parseXForwardedFor of uri.c as folds over the characters of  *)
(* a request.  The name of a parameter counts as one character, and so does  *)
(* an address in the header; everything else is a character of its own.      *)
EXTENDS Integers, Sequences, SequencesExt

CONSTANTS
    Names,                   \* names of parameters getParam knows, and others
    URI_PARAM_VALUE_LENGTH,
    URI_PATH_LENGTH

ASSUME UriAssumption ==
    {URI_PARAM_VALUE_LENGTH, URI_PATH_LENGTH} \subseteq Nat \ {0} /\ "info_hash" \in Names

Unset == <<"unset">>

(* The characters of values, with the two digits that stand for them after a *)
(* percent sign.                                                             *)
Hex == [c \in {"0", "1", "&"} |-> CASE c = "0" -> <<"3", "0">>
                                    [] c = "1" -> <<"3", "1">>
                                    [] c = "&" -> <<"2", "6">>]

(* strtol of the two digits. *)
Decoded(digits) == CHOOSE c \in DOMAIN Hex : Hex[c] = digits

(* atoi: the number the digits at the start of a value make. *)
atoi(value) ==
    FoldLeft(LAMBDA n, c : IF n[2] /\ c \in {"0", "1"}
                           THEN <<10 * n[1] + (IF c = "1" THEN 1 ELSE 0), TRUE>>
                           ELSE <<n[1], FALSE>>,
             <<0, TRUE>>, value)[1]

(* getParam: parameters are stored by name, and every info_hash is added to  *)
(* the block of hashes as well.                                              *)
getParam(query, param, value) ==
    IF \E n \in Names : param = <<n>>
    THEN [query EXCEPT !.params[Head(param)] = value,
                       !.hashes = IF param = <<"info_hash">> THEN Append(@, value) ELSE @]
    ELSE query

EmptyQuery == [path |-> <<>>, params |-> [n \in Names |-> Unset], hashes |-> <<>>]

UriStart == [status |-> "PATH", param |-> <<>>, value |-> <<>>, percent |-> 0,
             digits |-> <<>>, query |-> EmptyQuery]

PathChar(s, current) ==
    IF current = "?"
    THEN [s EXCEPT !.status = "PARAM"]
    ELSE IF Len(s.query.path) < URI_PATH_LENGTH /\ (s.query.path # <<>> \/ current # "/")
    THEN [s EXCEPT !.query.path = Append(@, current)]
    ELSE s

(* Mutant: the name of the last parameter is kept. *)
NextParamKept(s) ==
    [s EXCEPT !.query = getParam(@, s.param, s.value), !.status = "PARAM"]

NextParam(s) ==
    [s EXCEPT !.query = getParam(@, s.param, s.value), !.param = <<>>, !.status = "PARAM"]

ParamChar(s, current) ==
    IF Len(s.param) < URI_PARAM_VALUE_LENGTH THEN [s EXCEPT !.param = Append(@, current)] ELSE s

ValueChar(s, current) ==
    IF Len(s.value) >= URI_PARAM_VALUE_LENGTH THEN s
    ELSE IF current = "%" THEN [s EXCEPT !.percent = 1]
    ELSE IF s.percent = 1 THEN [s EXCEPT !.percent = 2, !.digits = <<current>>]
    ELSE IF s.percent = 2
    THEN [s EXCEPT !.percent = 0, !.value = Append(@, Decoded(s.digits \o <<current>>))]
    ELSE [s EXCEPT !.value = Append(@, current)]

parseChar(s, current) ==
    CASE s.status = "END" -> s
      [] s.status # "END" /\ current = " " ->
            [s EXCEPT !.query = getParam(@, s.param, s.value), !.status = "END"]
      [] s.status = "PATH" /\ current # " " -> PathChar(s, current)
      [] s.status \in {"PARAM", "VALUE"} /\ current = "=" ->
            [s EXCEPT !.value = <<>>, !.status = "VALUE"]
      [] s.status \in {"PARAM", "VALUE"} /\ current = "&" -> NextParam(s)
      [] s.status = "PARAM" /\ current \notin {" ", "=", "&"} -> ParamChar(s, current)
      [] s.status = "VALUE" /\ current \notin {" ", "=", "&"} -> ValueChar(s, current)

parseUri(message) == FoldLeft(parseChar, UriStart, message).query

(* parseXForwardedFor: the block is reset at the first character after a     *)
(* separator, so that it ends up with the last address of the header.        *)
Separators == {" ", ","}

ForwardedChar(s, current) ==
    IF current \in Separators
    THEN [s EXCEPT !.reset = TRUE]
    ELSE [block |-> IF s.reset THEN <<current>> ELSE Append(s.block, current), reset |-> FALSE]

LastForwarded(value) == FoldLeft(ForwardedChar, [block |-> <<>>, reset |-> TRUE], value).block

(* The address the peer gets: client when the feature is off, the header is  *)
(* missing or part of the request line, or an address without a colon is not *)
(* valid; any header with a colon in its last address counts as IPv6, and    *)
(* inet_pton leaves zeroes when it is not valid.                             *)
parseXForwardedFor(enabled, place, value, client) ==
    LET address == LastForwarded(value)
    IN  CASE ~enabled \/ place # "headers" -> client
          [] enabled /\ place = "headers" /\ address \in {<<"v4">>, <<"v6">>} -> Head(address)
          [] enabled /\ place = "headers" /\ address = <<"bad:">> -> "zero"
          [] enabled /\ place = "headers" /\ address \notin {<<"v4">>, <<"v6">>, <<"bad:">>} -> client
=============================================================================
