----------------------------- MODULE RingMaster -----------------------------
(***************************************************************************)
(* ReaderRingMaster: the distribution of the messages of one bus topic to  *)
(* the senders of its readers.  handle_msg is called by one worker (the    *)
(* event loop of MQTT, the consumer of AMQP) or by several (two consumers  *)
(* of one AMQP topic, the writers of a loopback network), while readers    *)
(* are cloned and dropped.                                                 *)
(***************************************************************************)
EXTENDS Integers, Sequences, FiniteSets, SequencesExt

CONSTANTS Readers,      \* readers; each has a sender with an id of its own
          WorkerSets,   \* the sets of workers that may call handle_msg
          Filters,      \* values of time_based_filter; 0 for None
          MaxTime,      \* bound: the clock stops here
          MaxMessages   \* bound: messages that arrive

Workers == UNION WorkerSets

ASSUME FiltersAssumption == Filters \subseteq Nat
ASSUME WorkersAssumption == \A W \in WorkerSets : IsFiniteSet(W)
ASSUME BoundsAssumption == MaxTime \in Nat /\ MaxMessages \in Nat \ {0}

VARIABLES workers,   \* the workers of this network
          filter,    \* the time_based_filter of this topic
          now,       \* the clock
          last,      \* last_received; -1 for None
          senders,   \* the vector of senders, by reader
          open,      \* the ringmaster is in the table of its network
          pc,        \* for each worker, where it is in handle_msg
          msg,       \* for each worker, its message
          pos,       \* for each worker, its position in senders
          arrived,   \* number of messages that have arrived
          taken,     \* messages that have passed the filter
          filtered,  \* messages that have not
          got        \* for each reader, what has been sent to it

config == <<workers, filter>>
sending == <<pc, msg, pos>>
history == <<arrived, taken, filtered, got>>
vars == <<config, now, last, senders, open, sending, history>>

\* A message, the number of its arrival and the Instant it is stamped with.
Message == [n : 1..MaxMessages, at : 0..MaxTime]

Idle(w) == pc[w] = "idle"

-----------------------------------------------------------------------------
Init ==
  /\ workers \in WorkerSets
  /\ filter \in Filters
  /\ now = 0
  /\ last = -1
  /\ senders = <<>>
  /\ open = TRUE
  /\ pc = [w \in Workers |-> "idle"]
  /\ msg = [w \in Workers |-> [n |-> 1, at |-> 0]]
  /\ pos = [w \in Workers |-> 1]
  /\ arrived = 0
  /\ taken = {}
  /\ filtered = {}
  /\ got = [r \in Readers |-> <<>>]

Goto(w, place) == pc' = [pc EXCEPT ![w] = place]

Tick ==
  /\ now < MaxTime
  /\ now' = now + 1
  /\ UNCHANGED <<config, last, senders, open, sending, history>>

AnyWorker(w) == TRUE

\* Messages are handled one after the other by the tasks that receive them.
MayHandle(w) == w \in workers

\* handle_msg finds the ringmaster, keeps the read lock of the table until
\* it returns, and stamps the message.
HandleMsg(w) ==
  /\ MayHandle(w)
  /\ Idle(w)
  /\ open
  /\ arrived < MaxMessages
  /\ arrived' = arrived + 1
  /\ msg' = [msg EXCEPT ![w] = [n |-> arrived + 1, at |-> now]]
  /\ Goto(w, "filter")
  /\ UNCHANGED <<config, now, last, senders, open, pos, taken, filtered, got>>

\* Instant::duration_since saturates at zero.
DurationSince(t, earlier) == IF t < earlier THEN 0 ELSE t - earlier

Distance(t, earlier) == IF t < earlier THEN earlier - t ELSE t - earlier

\* Two ways to get the comparison wrong.
IsFilteredBothWays(t) == last # -1 /\ Distance(t, last) < filter

IsFilteredAtLimit(t) == last # -1 /\ filter # 0 /\ DurationSince(t, last) <= filter

\* Whether the filter drops a message stamped t.
IsFiltered(t) == last # -1 /\ DurationSince(t, last) < filter

\* The comparison and the assignment are in one critical section of the mutex.
Filter(w) ==
  /\ pc[w] = "filter"
  /\ \/ /\ IsFiltered(msg[w].at)
        /\ filtered' = filtered \cup {msg[w]}
        /\ Goto(w, "idle")
        /\ UNCHANGED <<last, taken>>
     \/ /\ ~IsFiltered(msg[w].at)
        /\ last' = IF filter = 0 THEN last ELSE msg[w].at
        /\ taken' = taken \cup {msg[w]}
        /\ Goto(w, "decode")
        /\ UNCHANGED filtered
  /\ UNCHANGED <<config, now, senders, open, msg, pos, arrived, got>>

\* A message that cannot be decoded is dropped; otherwise the read lock of
\* senders is taken.
Decode(w) ==
  /\ pc[w] = "decode"
  /\ \/ Goto(w, "idle") /\ UNCHANGED pos
     \/ Goto(w, "send") /\ pos' = [pos EXCEPT ![w] = 1]
  /\ UNCHANGED <<config, now, last, senders, open, msg, history>>

SendOne(w) ==
  /\ pc[w] = "send"
  /\ pos[w] <= Len(senders)
  /\ got' = [got EXCEPT ![senders[pos[w]]] = Append(@, msg[w])]
  /\ pos' = [pos EXCEPT ![w] = @ + 1]
  /\ UNCHANGED <<config, now, last, senders, open, pc, msg, arrived, taken, filtered>>

SendDone(w) ==
  /\ pc[w] = "send"
  /\ pos[w] > Len(senders)
  /\ Goto(w, "idle")
  /\ UNCHANGED <<config, now, last, senders, open, msg, pos, history>>

-----------------------------------------------------------------------------
(* Changes of the vector take the write lock of senders. *)

NoLock == TRUE

WriteLockFree == \A w \in Workers : pc[w] # "send"

AddSender(r) ==
  /\ WriteLockFree
  /\ r \notin ToSet(senders)
  /\ got[r] = <<>>  \* not a reader dropped before
  /\ senders' = Append(senders, r)
  /\ UNCHANGED <<config, now, last, open, sending, history>>

\* Vec::swap_remove: the last element takes the place of the removed one.
SwapRemove(s, i) ==
  [j \in 1..(Len(s) - 1) |-> IF j = i THEN s[Len(s)] ELSE s[j]]

RemoveSender(r) ==
  /\ WriteLockFree
  /\ \E i \in 1..Len(senders) : senders[i] = r /\ senders' = SwapRemove(senders, i)
  /\ UNCHANGED <<config, now, last, open, sending, history>>

\* The entry leaves the table, under the table's write lock: no handle_msg is
\* in progress.
Shutdown ==
  /\ open
  /\ \A w \in Workers : Idle(w)
  /\ open' = FALSE
  /\ senders' = <<>>
  /\ UNCHANGED <<config, now, last, sending, history>>

-----------------------------------------------------------------------------
WorkerStep(w) == HandleMsg(w) \/ Filter(w) \/ Decode(w) \/ SendOne(w) \/ SendDone(w)

Next ==
  \/ Tick \/ Shutdown
  \/ \E w \in Workers : WorkerStep(w)
  \/ \E r \in Readers : AddSender(r) \/ RemoveSender(r)

Spec == Init /\ [][Next]_vars

-----------------------------------------------------------------------------
(* Safety. *)

\* Types.
TypeOK ==
  /\ workers \in WorkerSets
  /\ filter \in Filters
  /\ now \in 0..MaxTime
  /\ last \in -1..MaxTime
  /\ senders \in Seq(Readers)
  /\ IsInjective(senders)
  /\ open \in BOOLEAN
  /\ pc \in [Workers -> {"idle", "filter", "decode", "send"}]
  /\ msg \in [Workers -> Message]
  /\ pos \in [Workers -> 1..(Cardinality(Readers) + 1)]
  /\ arrived \in 0..MaxMessages
  /\ taken \subseteq Message
  /\ filtered \subseteq Message
  /\ got \in [Readers -> Seq(Message)]

FarApart(m1, m2) == Distance(m1.at, m2.at) >= filter

\* Two messages a reader gets were received at least the filter apart, also
\* when several workers pass the filter together: CAL-005431.
Spaced ==
  \A r \in Readers : \A m1, m2 \in ToSet(got[r]) : m1 # m2 => FarApart(m1, m2)

\* With one worker the filter drops nothing else: before a message that is
\* dropped one was taken less than the filter earlier.
FilterExact ==
  Cardinality(workers) = 1 =>
    \A m \in filtered : \E x \in taken : x.n < m.n /\ ~FarApart(x, m)

\* With one worker each reader gets messages in the order they arrived, and
\* none twice: CAL-016076, "received in the order given".
InOrder ==
  Cardinality(workers) = 1 =>
    \A r \in Readers : \A i, j \in 1..Len(got[r]) : i < j => got[r][i].n < got[r][j].n

\* Whatever readers are cloned or dropped meanwhile, every message that is
\* distributed gets to each reader there is at its end, once.
EveryReader ==
  [][\A w \in Workers : SendDone(w) =>
       \A r \in ToSet(senders) :
         Cardinality({i \in 1..Len(got[r]) : got[r][i] = msg[w]}) = 1]_vars

=============================================================================
