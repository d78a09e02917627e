--------------------------- MODULE MCSocketTable ---------------------------
(* Instances of SocketTable for TLC. *)
EXTENDS SocketTable

OneLeaf == [fd \in Fds |-> 1]
=============================================================================
