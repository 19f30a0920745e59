-------------------------- MODULE MCConfigRegistry --------------------------
(* Small instances of ConfigRegistry for TLC. *)
EXTENDS ConfigRegistry, TLC

\* Callers and ids are interchangeable.
CallerSymmetry   == Permutations(Callers)
IdSymmetry       == Permutations(Ids)
RegistrySymmetry == CallerSymmetry \cup IdSymmetry
=============================================================================
