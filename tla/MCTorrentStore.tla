--------------------------- MODULE MCTorrentStore ---------------------------
(* Instances of TorrentStore for TLC. *)
EXTENDS TorrentStore, TLC

MCEventsTold == {URI_EVENT_ID_COMPLETED, URI_EVENT_ID_STARTED, URI_EVENT_ID_STOPPED}
MCEventsKnown == MCEventsTold \cup {URI_EVENT_ID_CONTINUE, URI_EVENT_ID_PAUSED}
MCEventsUdp == MCEventsTold \cup {URI_EVENT_ID_NONE}

Symmetry == Permutations(Peers)
=============================================================================
