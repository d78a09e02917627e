----------------------------- MODULE MCTracker -----------------------------
(* Instances of Tracker for TLC. *)
EXTENDS Tracker, TLC

MCEvents == {URI_EVENT_ID_COMPLETED, URI_EVENT_ID_STARTED, URI_EVENT_ID_STOPPED}
MCEventsTwo == {URI_EVENT_ID_STARTED, URI_EVENT_ID_STOPPED}

OneLeaf == [h \in Hashes |-> 1]

Symmetry == Permutations(Workers)

OneScrape == {<<1>>}
TwoScrapes == {<<2, 1>>}
=============================================================================
