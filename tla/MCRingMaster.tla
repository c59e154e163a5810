---------------------------- MODULE MCRingMaster ----------------------------
(* Small instances of RingMaster for TLC. *)
EXTENDS RingMaster, TLC

CONSTANTS w1, w2

MCWorkerSets == {{w1}, {w1, w2}}

Symmetry == Permutations(Readers)

=============================================================================
