------------------------------- MODULE Server -------------------------------
(* main of server.c: it creates the table of locations and its loader, tests *)
(* the search, starts the listeners, the status thread of the requests per   *)
(* second and the other threads, and drops its privileges.  The workers, per *)
(* request, count it and look its address up.                                *)
EXTENDS Rps, Geoip

CONSTANTS
    Protocols,     \* the protocols that are not switched off
    Privileged,    \* the port needs the privileges of root
    MaxRequests    \* bound: requests

ASSUME ServerAssumption ==
    /\ Protocols # {} /\ Privileged \in BOOLEAN /\ MaxRequests \in Nat
    /\ "main" \in Searchers \ Workers /\ Searchers \subseteq Workers \cup {"main"}

VARIABLES
    main,         \* where main is
    noLocations,  \* the option
    bound,        \* protocols whose listener has bound its port and started its workers
    nobody,       \* the privileges are dropped
    reset,        \* values of max that main has reset
    requests      \* requests so far

serverVars == <<main, noLocations, bound, nobody, reset, requests>>
vars == <<rpsVars, geoipVars, serverVars>>

Init ==
    /\ RpsInit /\ GeoipInit
    /\ main = "init" /\ noLocations \in BOOLEAN
    /\ bound = {} /\ nobody = FALSE /\ reset = 0 /\ requests = 0

Running == main # "exit"
MainGoesOn(from, to) == main = from /\ main' = to

-----------------------------------------------------------------------------
mainInitGeoip ==
    /\ MainGoesOn("init", "test")
    /\ geoip' = initGeoip(noLocations)
    /\ UNCHANGED <<rpsVars, file, line, cell, find, noLocations, bound, nobody, reset, requests>>

(* findGeoip(geoip, 0), and the exit if what it finds does not begin at 0.   *)
mainFind ==
    /\ MainGoesOn("test", "tested")
    /\ startFind("main", 0)
    /\ UNCHANGED <<rpsVars, noLocations, bound, nobody, reset, requests>>

mainTested ==
    /\ main = "tested" /\ find["main"].at = "done"
    /\ main' = IF geoip[find["main"].index].startIp = 0 THEN "listen" ELSE "exit"
    /\ endFind("main")
    /\ UNCHANGED <<rpsVars, noLocations, bound, nobody, reset, requests>>

(* The listeners and the status thread are started. *)
mainListen ==
    /\ MainGoesOn("listen", "sleep")
    /\ UNCHANGED <<rpsVars, geoipVars, noLocations, bound, nobody, reset, requests>>

(* sleep(1) is meant to let the listeners bind, but nothing makes main wait  *)
(* for them.                                                                 *)
setNobody ==
    /\ MainGoesOn("sleep", "reset")
    /\ nobody' = TRUE
    /\ UNCHANGED <<rpsVars, geoipVars, noLocations, bound, reset, requests>>

mainResetMaxRps ==
    /\ main = "reset"
    /\ resetMaxRps(reset)
    /\ reset' = reset + 1
    /\ main' = IF reset + 1 = RPS_DIFFERENT_VALUES THEN "join" ELSE "reset"
    /\ UNCHANGED <<geoipVars, noLocations, bound, nobody, requests>>

Started == main \in {"sleep", "reset", "join"}

bind(p) ==
    /\ Started /\ p \notin bound
    /\ IF nobody /\ Privileged
       THEN main' = "exit" /\ UNCHANGED bound
       ELSE bound' = bound \cup {p} /\ UNCHANGED main
    /\ UNCHANGED <<rpsVars, geoipVars, noLocations, nobody, reset, requests>>

-----------------------------------------------------------------------------
(* Other threads: as long as the process lives. *)
loader ==
    /\ Running /\ main # "init" /\ ~noLocations
    /\ loadCell
    /\ UNCHANGED <<rpsVars, serverVars>>

statusThread ==
    /\ Started
    /\ rpsStatusHandler
    /\ UNCHANGED <<geoipVars, serverVars>>

receive(w) ==
    /\ Started /\ bound # {} /\ requests < MaxRequests
    /\ w \in Searchers => find[w].at = "out"
    /\ \E index \in Indexes : readStatus(w, index)
    /\ requests' = requests + 1
    /\ UNCHANGED <<geoipVars, main, noLocations, bound, nobody, reset>>

countRequest(w) == Running /\ updateRps(w) /\ UNCHANGED <<geoipVars, serverVars>>

(* The broadcast of an IPv4 announce looks the address of the peer up, other *)
(* requests do not.                                                          *)
Counted(w) ==
    /\ Running /\ call[w].at = "done"
    /\ call' = [call EXCEPT ![w] = NoCall]
    /\ UNCHANGED <<status, counter, max, zeroed, calls, late, serverVars>>

beginFind(w) == w \in Searchers /\ Counted(w) /\ \E ip \in 0..MaxIp : startFind(w, ip)
noFind(w) == Counted(w) /\ UNCHANGED geoipVars

findLocation(t) == Running /\ findGeoip(t) /\ UNCHANGED <<rpsVars, serverVars>>
finishFind(w) == Running /\ endFind(w) /\ UNCHANGED <<rpsVars, serverVars>>

-----------------------------------------------------------------------------
mainThread == mainInitGeoip \/ mainFind \/ mainTested \/ mainListen \/ setNobody \/ mainResetMaxRps

Next ==
    \/ mainThread \/ loader \/ statusThread
    \/ \E p \in Protocols : bind(p)
    \/ \E w \in Workers : receive(w) \/ countRequest(w) \/ beginFind(w) \/ noFind(w)
    \/ \E t \in Searchers : findLocation(t) \/ (t # "main" /\ finishFind(t))

(* main and the loader go on. *)
Spec ==
    /\ Init /\ [][Next]_vars
    /\ WF_vars(mainThread) /\ WF_vars(loader) /\ WF_vars(findLocation("main"))

-----------------------------------------------------------------------------
(* A complete file is of use in the end: unless the process exits, every     *)
(* address is found in the table, and main has got past its test.            *)
LocationsLoaded ==
    ~noLocations /\ Len(file) = GEOIP_FILE_LINES ~>
        \/ main = "exit"
        \/ /\ main = "join"
           /\ \A ip \in 0..MaxIp : Covers(geoip, Search(geoip, ip), ip)
           /\ geoip[GEOIP_FILE_LINES - 1].lat = "loaded"
=============================================================================
