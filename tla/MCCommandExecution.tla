-------------------------- MODULE MCCommandExecution --------------------------
(* Small instances of CommandExecution. *)
EXTENDS CommandExecution, TLC

Symmetry == Permutations(Commands) \cup Permutations(Connections)
                \cup Permutations(Sessions)
===============================================================================
