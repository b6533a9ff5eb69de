-------------------------- MODULE MCNccInterfaces --------------------------
(* Instances of NccInterfaces for TLC. *)
EXTENDS NccInterfaces, TLC

\* The connections are interchangeable.
Symmetry == Permutations(Conns)
=============================================================================
