----------------------------- MODULE MCHashList -----------------------------
(* An instance of HashList for TLC: the byte that selects a leaf does not  *)
(* follow the order of the hashes, and two hashes share a leaf.            *)
EXTENDS HashList

MCByte == [h \in Hashes |-> h % 2]
=============================================================================
