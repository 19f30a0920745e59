------------------------- MODULE MCInstanceLifecycle -------------------------
(* Small instances of InstanceLifecycle for TLC. *)
EXTENDS InstanceLifecycle, TLC

\* Callers are interchangeable.  Used in runs without liveness only.
CallerSymmetry == Permutations(Callers)
=============================================================================
