------------------------------- MODULE Geoip -------------------------------
(* The table of locations (geoip.c): a thread loads it from a file while     *)
(* the workers already search it.  Addresses and locations are abstract: a   *)
(* line has its two addresses, and its lat and lon are stored or not.        *)
EXTENDS Integers, Sequences

CONSTANTS
    GEOIP_FILE_LINES,
    GEOIP_MAX_ITERATION,
    Searchers,     \* threads that call findGeoip
    MaxIp,         \* the largest address
    Files          \* files the loader may find: sequences of [startIp, endIp]; <<>> when there is none

(* The lines of a file are sorted and without gaps, begin at 0 with a line   *)
(* that has more than one address, and a file with GEOIP_FILE_LINES lines    *)
(* covers all addresses.                                                     *)
Sorted(f) == \A i \in 1..Len(f) - 1 : f[i + 1].startIp = f[i].endIp + 1
ASSUME GeoipAssumption ==
    /\ {GEOIP_FILE_LINES, GEOIP_MAX_ITERATION, MaxIp} \subseteq Nat \ {0}
    /\ \A f \in Files :
        /\ f \in Seq([startIp : 0..MaxIp, endIp : 0..MaxIp])
        /\ Len(f) <= GEOIP_FILE_LINES /\ Sorted(f)
        /\ \A i \in DOMAIN f : f[i].startIp <= f[i].endIp
        /\ f # <<>> => f[1].startIp = 0 /\ f[1].endIp > 0
        /\ Len(f) = GEOIP_FILE_LINES => f[GEOIP_FILE_LINES].endIp = MaxIp

VARIABLES
    geoip,   \* the table, indexed from 0
    file,    \* the file there is
    line,    \* the loader: lineNumber and the cell it is to store
    cell,
    find     \* findGeoip of a thread: where it is, the address, and the index it returns

geoipVars == <<geoip, file, line, cell, find>>

Cells == <<"startIp", "endIp", "lat", "lon">>
Empty == [startIp |-> 0, endIp |-> 0, lat |-> "zero", lon |-> "zero"]
NoFind == [at |-> "out", ip |-> 0, index |-> 0, searched |-> FALSE]

initGeoip(noLocations) ==
    IF noLocations
    THEN [i \in {0} |-> Empty]
    ELSE [[i \in 0..GEOIP_FILE_LINES - 1 |-> Empty] EXCEPT ![GEOIP_FILE_LINES - 1].lat = "NOT_LOADING"]

GeoipInit ==
    /\ geoip = [i \in {} |-> Empty]
    /\ file \in Files
    /\ line = 0 /\ cell = 1
    /\ find = [t \in Searchers |-> NoFind]

-----------------------------------------------------------------------------
(* loadGeoipHandler: one cell after the other.  atoi makes an int of an      *)
(* address, so the upper half of the addresses comes out negative, and the   *)
(* unsigned field turns it back.                                             *)
atoi(address) == IF address > MaxIp \div 2 THEN address - (MaxIp + 1) ELSE address
Unsigned(n) == IF n < 0 THEN n + (MaxIp + 1) ELSE n

Stored == CASE Cells[cell] = "startIp" -> Unsigned(atoi(file[line + 1].startIp))
            [] Cells[cell] = "endIp" -> Unsigned(atoi(file[line + 1].endIp))
            [] Cells[cell] \in {"lat", "lon"} -> "loaded"

(* Mutant: the cells of a line are stored in another order. *)
loadCellLatFirst ==
    /\ line < Len(file)
    /\ LET c == <<"lat", "startIp", "endIp", "lon">>[cell] IN
        geoip' = [geoip EXCEPT ![line] = [@ EXCEPT ![c] =
            CASE c = "startIp" -> Unsigned(atoi(file[line + 1].startIp))
              [] c = "endIp" -> Unsigned(atoi(file[line + 1].endIp))
              [] c \in {"lat", "lon"} -> "loaded"]]
    /\ cell' = (cell % 4) + 1
    /\ line' = IF cell = 4 THEN line + 1 ELSE line
    /\ UNCHANGED <<file, find>>

(* Mutant: the loader leaves the last line out. *)
loadCellButLast ==
    /\ line < GEOIP_FILE_LINES - 1 /\ line < Len(file)
    /\ geoip' = [geoip EXCEPT ![line][Cells[cell]] = Stored]
    /\ cell' = (cell % 4) + 1
    /\ line' = IF cell = 4 THEN line + 1 ELSE line
    /\ UNCHANGED <<file, find>>

loadCell ==
    /\ line < Len(file)
    /\ geoip' = [geoip EXCEPT ![line][Cells[cell]] = Stored]
    /\ cell' = (cell % 4) + 1
    /\ line' = IF cell = 4 THEN line + 1 ELSE line
    /\ UNCHANGED <<file, find>>

-----------------------------------------------------------------------------
(* findGeoip: the two tests, then the search, which is over lines that do    *)
(* not change any more.                                                      *)
Covers(table, index, ip) == index \in DOMAIN table /\ table[index].startIp <= ip /\ ip <= table[index].endIp

(* One turn of the loop, unless it has ended; an index out of the table ends *)
(* it, too.                                                                  *)
SearchStep(table, ip, s) ==
    LET delimiter == 2 * s.delimiter
        step == IF GEOIP_FILE_LINES \div delimiter = 0 THEN 1 ELSE GEOIP_FILE_LINES \div delimiter
    IN  IF s.index \notin DOMAIN table \/ Covers(table, s.index, ip) THEN s
        ELSE [delimiter |-> delimiter,
              index |-> IF table[s.index].startIp > ip THEN s.index - step ELSE s.index + step]

(* The turns of the loop, the first one with the index in the middle. *)
Turns(table, ip) ==
    LET turn[i \in 0..GEOIP_MAX_ITERATION + 1] ==
            IF i = 0 THEN [delimiter |-> 2, index |-> GEOIP_FILE_LINES \div 2]
            ELSE SearchStep(table, ip, turn[i - 1])
    IN  turn

Search(table, ip) == Turns(table, ip)[GEOIP_MAX_ITERATION + 1].index

(* The step of the search: GEOIP_FILE_LINES halved n times. *)
Halved ==
    LET halved[n \in 0..GEOIP_MAX_ITERATION] ==
            IF n = 0 THEN GEOIP_FILE_LINES ELSE halved[n - 1] \div 2
    IN  halved

(* The loop may take twice as many turns as it halves its step: 2912124 is   *)
(* zero after 22 halvings, and 51 turns are allowed.                         *)
ASSUME SearchAssumption ==
    \E n \in 0..GEOIP_MAX_ITERATION : Halved[n] = 0 /\ 2 * n <= GEOIP_MAX_ITERATION + 1

startFind(t, ip) ==
    /\ find[t].at = "out"
    /\ find' = [find EXCEPT ![t] = [NoFind EXCEPT !.at = "first", !.ip = ip]]
    /\ UNCHANGED <<geoip, file, line, cell>>

Return(t, index, searched) ==
    find' = [find EXCEPT ![t].at = "done", ![t].index = index, ![t].searched = searched]

testFirst(t) ==
    /\ find[t].at = "first"
    /\ IF geoip[0].endIp = 0 THEN Return(t, 0, FALSE) ELSE find' = [find EXCEPT ![t].at = "last"]
    /\ UNCHANGED <<geoip, file, line, cell>>

testLast(t) ==
    /\ find[t].at = "last"
    /\ IF geoip[GEOIP_FILE_LINES - 1].lat = "NOT_LOADING"
       THEN Return(t, 0, FALSE)
       ELSE find' = [find EXCEPT ![t].at = "search"]
    /\ UNCHANGED <<geoip, file, line, cell>>

search(t) ==
    /\ find[t].at = "search"
    /\ Return(t, Search(geoip, find[t].ip), TRUE)
    /\ UNCHANGED <<geoip, file, line, cell>>

endFind(t) ==
    /\ find[t].at = "done"
    /\ find' = [find EXCEPT ![t] = NoFind]
    /\ UNCHANGED <<geoip, file, line, cell>>

findGeoip(t) == testFirst(t) \/ testLast(t) \/ search(t)

-----------------------------------------------------------------------------
(* A search that gets past the two tests, which only look at the ends of the *)
(* table, finds a line of the table that covers its address and is loaded,   *)
(* although the loader may still be at work (the lon of the last line is     *)
(* stored after the mark is gone); any other returns the first line.         *)
FoundIsLoaded ==
    \A t \in Searchers : find[t].at = "done" =>
        IF find[t].searched
        THEN /\ Covers(geoip, find[t].index, find[t].ip)
             /\ geoip[find[t].index].lat = "loaded"
             /\ geoip[find[t].index].lon = "loaded" \/ find[t].index = GEOIP_FILE_LINES - 1
        ELSE find[t].index = 0 /\ 0 \in DOMAIN geoip
=============================================================================
