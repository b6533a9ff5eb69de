-------------------------- MODULE MCDamaScheduling --------------------------
(* An instance of DamaScheduling for TLC. *)
EXTENDS DamaScheduling, TLC

\* A terminal with CRA and a small maximum, one without and a large one.
MCContracts ==
  {[cra |-> 0, maxRbdc |-> 6, maxVbdc |-> 2], [cra |-> 2, maxRbdc |-> 3, maxVbdc |-> 1]}

\* A command that lowers the maximum and injects a request.
MCPepCommands == {[cra |-> 0, maxRbdc |-> 3, rbdc |-> 3]}

Symmetry == Permutations(Terminals)
=============================================================================
