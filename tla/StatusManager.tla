--------------------------- MODULE StatusManager ---------------------------
(***************************************************************************)
(* StatusCallbackManager: the status of a connection, the callbacks of the *)
(* network that set it, and the listeners that are told of it, each call   *)
(* in a thread of its own.                                                 *)
(***************************************************************************)
EXTENDS Naturals

CONSTANTS Setters,    \* calls of set_status, each made once
          SetTo,      \* the status that each of them sets
          Listeners   \* status listeners, each registered at most once

Statuses == {"Normal", "Degraded", "Inoperable", "Failed"}

ASSUME SetToAssumption == SetTo \in [Setters -> Statuses]

VARIABLES status,     \* the status
          pc,         \* for each setter, where it is in set_status
          listeners,  \* the registered listeners
          added,      \* the listeners that have ever been registered
          spawned,    \* for each listener and status, threads about to call it
          told        \* for each listener, the statuses it has been called with
                      \* since they were last set

vars == <<status, pc, listeners, added, spawned, told>>

-----------------------------------------------------------------------------
\* new() does not start with the default of the enumeration.
InitialStatus == "Normal"

Init ==
  /\ status = InitialStatus
  /\ pc = [s \in Setters |-> "idle"]
  /\ listeners = {}
  /\ added = {}
  /\ spawned = [l \in Listeners |-> [v \in Statuses |-> 0]]
  /\ told = [l \in Listeners |-> {}]

\* set_status does nothing when the status is already what it should be.
NextStep(s) == IF status # SetTo[s] THEN "store" ELSE "done"

LoadStatus(s) ==
  /\ pc[s] = "idle"
  /\ pc' = [pc EXCEPT ![s] = NextStep(s)]
  /\ UNCHANGED <<status, listeners, added, spawned, told>>

StoreStatus(s) ==
  /\ pc[s] = "store"
  /\ status' = SetTo[s]
  /\ told' = [l \in Listeners |-> told[l] \ {SetTo[s]}]
  /\ pc' = [pc EXCEPT ![s] = "call"]
  /\ UNCHANGED <<listeners, added, spawned>>

NoneSpawned(v) == spawned

\* call_status_listeners, under the read lock: a thread for each listener.
SpawnedFor(v) ==
  [l \in Listeners |-> IF l \in listeners THEN [spawned[l] EXCEPT ![v] = @ + 1]
                                          ELSE spawned[l]]

CallListeners(s) ==
  /\ pc[s] = "call"
  /\ spawned' = SpawnedFor(SetTo[s])
  /\ pc' = [pc EXCEPT ![s] = "done"]
  /\ UNCHANGED <<status, listeners, added, told>>

NotToldAtOnce(l) == spawned

\* A thread that tells the new listener the status there is.
SpawnedAtOnce(l) == [spawned EXCEPT ![l][status] = @ + 1]

\* add_listener holds the write lock throughout.
AddListener(l) ==
  /\ l \notin added
  /\ listeners' = listeners \cup {l}
  /\ added' = added \cup {l}
  /\ spawned' = SpawnedAtOnce(l)
  /\ UNCHANGED <<status, pc, told>>

RemoveListener(l) ==
  /\ l \in listeners
  /\ listeners' = listeners \ {l}
  /\ UNCHANGED <<status, pc, added, spawned, told>>

\* One of the spawned threads runs on_status_change; they run in any order.
OnStatusChange(l, v) ==
  /\ spawned[l][v] > 0
  /\ spawned' = [spawned EXCEPT ![l][v] = @ - 1]
  /\ told' = [told EXCEPT ![l] = @ \cup {v}]
  /\ UNCHANGED <<status, pc, listeners, added>>

SetStep(s) == LoadStatus(s) \/ StoreStatus(s) \/ CallListeners(s)

Next ==
  \/ \E s \in Setters : SetStep(s)
  \/ \E l \in Listeners : \/ AddListener(l) \/ RemoveListener(l)
                          \/ \E v \in Statuses : OnStatusChange(l, v)

Spec == Init /\ [][Next]_vars

\* A call of set_status that has begun runs on, and spawned threads run.
Fairness ==
  /\ \A s \in Setters : WF_vars(StoreStatus(s) \/ CallListeners(s))
  /\ \A l \in Listeners, v \in Statuses : WF_vars(OnStatusChange(l, v))

FairSpec == Spec /\ Fairness

-----------------------------------------------------------------------------
(* Properties. *)

\* Types: the status is never the one that is never used.
TypeOK ==
  /\ status \in Statuses
  /\ pc \in [Setters -> {"idle", "store", "call", "done"}]
  /\ listeners \subseteq added
  /\ added \subseteq Listeners
  /\ spawned \in [Listeners -> [Statuses -> Nat]]
  /\ told \in [Listeners -> SUBSET Statuses]

\* The status reaches every listener, one that registers while it changes
\* included: it has been told, a thread is to tell it, or a call of
\* set_status is still to spawn that thread.
NeverMissed ==
  \A l \in listeners :
    \/ status \in told[l]
    \/ spawned[l][status] > 0
    \/ \E s \in Setters : pc[s] = "call" /\ SetTo[s] = status

\* A listener that stays gets to know the status that stays.
EventuallyTold ==
  \A l \in Listeners, v \in Statuses :
    <>[](l \in listeners /\ status = v) => <>(v \in told[l])

\* Failed: "CAL is unusable and return to an operational state is not
\* possible.  Identical to Inoperable state but recovery is not possible."
\* The code does not keep this: set_status stores whatever it is given.
FailedIsFinal == [][status = "Failed" => status' = "Failed"]_vars

=============================================================================
