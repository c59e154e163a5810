--------------------------- MODULE MCMqttReaders ---------------------------
(* Small instances of MqttReaders for TLC. *)
EXTENDS MqttReaders, TLC

Symmetry == Permutations(Topics) \cup Permutations(Readers)

=============================================================================
