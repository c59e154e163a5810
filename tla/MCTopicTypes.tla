---------------------------- MODULE MCTopicTypes ----------------------------
(* Small instances of TopicTypes for TLC. *)
EXTENDS TopicTypes, TLC

CONSTANTS t1, t2, t3, b1, b2

\* The config maps two of three client topics to one bus topic.
SharedBus == (t1 :> b1) @@ (t2 :> b1) @@ (t3 :> b2)

Symmetry == Permutations(Readers) \cup Permutations(Types)
              \cup Permutations({t1, t2})

=============================================================================
