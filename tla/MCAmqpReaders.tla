--------------------------- MODULE MCAmqpReaders ---------------------------
(* Small instances of AmqpReaders for TLC. *)
EXTENDS AmqpReaders, TLC

Symmetry == Permutations(Topics) \cup Permutations(Readers)

=============================================================================
