---------------------------- MODULE MCConfigSync ----------------------------
(* Small instances of ConfigSync for TLC.                                  *)
EXTENDS ConfigSync, TLC

CONSTANTS a1, a2, k1

\* Every row has an address of its own.
OwnAddress == [a \in Assocs |-> a]

Symmetry == Permutations(Assocs)

=============================================================================
