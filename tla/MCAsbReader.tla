---------------------------- MODULE MCAsbReader ----------------------------
(* Small instances of AsbReader for TLC. *)
EXTENDS AsbReader, TLC

\* Clients, listeners and background threads are interchangeable.
Symmetry == Permutations(Clients) \cup Permutations(Listeners)
              \cup Permutations(Threads)

=============================================================================
