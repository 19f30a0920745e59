---------------------------- MODULE MCEventFeed ----------------------------
(* Small instances of EventFeed for TLC. *)
EXTENDS EventFeed, TLC

\* The slots are interchangeable, and so are the publishers.
ConnSymmetry == Permutations(Conns)
FeedSymmetry == ConnSymmetry \cup Permutations(Publishers)
=============================================================================
