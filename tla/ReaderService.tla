--------------------------- MODULE ReaderService ---------------------------
(***************************************************************************)
(* What a network promises its readers: who has begun to be served with    *)
(* the messages of its topic is served until it is dropped; nothing that   *)
(* happens to other readers changes that.  The readers of a topic may      *)
(* begin together, when its subscription does.  When the network stops,    *)
(* all its readers cease to be served at once, so that none of them waits  *)
(* for messages any more.                                                  *)
(***************************************************************************)
CONSTANT Readers

VARIABLES running,  \* the network has not stopped
          served    \* the readers that receive the messages of their topics

vars == <<running, served>>

TypeOK == running \in BOOLEAN /\ served \subseteq Readers

Init == running = TRUE /\ served = {}

Join(S) ==
  /\ running
  /\ S # {}
  /\ S \cap served = {}
  /\ served' = served \cup S
  /\ UNCHANGED running

Leave(r) ==
  /\ r \in served
  /\ served' = served \ {r}
  /\ UNCHANGED running

Stop ==
  /\ running
  /\ running' = FALSE
  /\ served' = {}

Next ==
  \/ \E S \in SUBSET Readers : Join(S)
  \/ \E r \in Readers : Leave(r)
  \/ Stop

Spec == Init /\ [][Next]_vars

=============================================================================
