------------------------------ MODULE HashMap ------------------------------
(***************************************************************************)
(* What a hash list promises to its users: it maps hashes to data, and a   *)
(* call is about the hash it is given.  Module HashList has the linked     *)
(* lists of list.c and is shown to implement it.                           *)
(***************************************************************************)
CONSTANTS
    Hashes, Data,
    NoData      \* the hash is not in the list

VARIABLES
    contents,   \* the data of each hash
    call,       \* the call that has begun: its hash, or what a walk has left
    result      \* what the last call that returned an item or NULL returned

mapVars == <<contents, call, result>>

NoCall == [op |-> "none"]
Present == {h \in Hashes : contents[h] # NoData}

MapInit == contents = [h \in Hashes |-> NoData] /\ call = NoCall /\ result = NoData

Begin(op, h) ==
    /\ call = NoCall
    /\ call' = [op |-> op, hash |-> h]
    /\ UNCHANGED <<contents, result>>

Return == call' = NoCall

(* setHash of a new hash, with the data its caller allocates *)
Put(d) ==
    /\ call.op = "set" /\ call.hash \notin Present
    /\ \A g \in Hashes : contents[g] # d
    /\ contents' = [contents EXCEPT ![call.hash] = d]
    /\ result' = d
    /\ Return

(* getHash, setHash of a hash that is there, and the look for the hash that *)
(* a caller would delete                                                    *)
Lookup ==
    /\ \/ call.op = "get"
       \/ call.op = "set" /\ call.hash \in Present
       \/ call.op = "delete" /\ call.hash \notin Present
    /\ result' = contents[call.hash]
    /\ Return
    /\ UNCHANGED contents

(* deleteItem of the hash that was looked for *)
Remove ==
    /\ call.op = "delete" /\ call.hash \in Present
    /\ contents' = [contents EXCEPT ![call.hash] = NoData]
    /\ Return
    /\ UNCHANGED result

-----------------------------------------------------------------------------
BeginWalk ==
    /\ call = NoCall
    /\ call' = [op |-> "map", left |-> Present]
    /\ UNCHANGED <<contents, result>>

(* mapList calls back for one more hash, which the callback may delete. *)
Visit(h) ==
    /\ call.op = "map" /\ h \in call.left
    /\ contents' \in {contents, [contents EXCEPT ![h] = NoData]}
    /\ call' = [call EXCEPT !.left = @ \ {h}]
    /\ UNCHANGED result

(* The callback for a hash that is left stops the walk (LIST_BREAK_RETURN). *)
Break == call.op = "map" /\ call.left # {} /\ Return /\ UNCHANGED <<contents, result>>

EndWalk == call.op = "map" /\ call.left = {} /\ Return /\ UNCHANGED <<contents, result>>

-----------------------------------------------------------------------------
MapNext ==
    \/ \E op \in {"set", "get", "delete"}, h \in Hashes : Begin(op, h)
    \/ (\E d \in Data : Put(d)) \/ Lookup \/ Remove
    \/ BeginWalk \/ (\E h \in Hashes : Visit(h)) \/ Break \/ EndWalk

MapSpec == MapInit /\ [][MapNext]_mapVars
=============================================================================
