------------------------------ MODULE MCServer ------------------------------
EXTENDS Server

(* Every way to cut the addresses into GEOIP_FILE_LINES ranges, a file that  *)
(* is too short, and no file.                                                *)
Cuts == {c \in [1..GEOIP_FILE_LINES - 1 -> 1..MaxIp - 1] : \A i \in 1..GEOIP_FILE_LINES - 2 : c[i] < c[i + 1]}
RangesOf(c) ==
    [i \in 1..GEOIP_FILE_LINES |->
        [startIp |-> IF i = 1 THEN 0 ELSE c[i - 1] + 1,
         endIp |-> IF i = GEOIP_FILE_LINES THEN MaxIp ELSE c[i]]]
MCFiles == {RangesOf(c) : c \in Cuts} \cup {<<>>, <<[startIp |-> 0, endIp |-> 1]>>}
MCSearchers == {"main", "w1"}
=============================================================================
