-------------------------- MODULE RingMasterProofs --------------------------
(***************************************************************************)
(* The time-based filter spaces the messages of every reader, for every    *)
(* set of readers and workers and every filter.  The comparison is with    *)
(* last_received only, so the proof needs that every message that has      *)
(* passed the filter is no later than last_received; that follows from the *)
(* saturation of Instant::duration_since, without which a worker that is   *)
(* late at the mutex would turn last_received back.                        *)
(***************************************************************************)
EXTENDS RingMaster, FiniteSetTheorems, TLAPS

\* The types the argument needs.
Types ==
  /\ filter \in Nat
  /\ now \in 0..MaxTime
  /\ last \in -1..MaxTime
  /\ arrived \in 0..MaxMessages
  /\ senders \in Seq(Readers)
  /\ pc \in [Workers -> {"idle", "filter", "decode", "send"}]
  /\ msg \in [Workers -> Message]
  /\ pos \in [Workers -> Nat \ {0}]
  /\ taken \subseteq Message
  /\ got \in [Readers -> Seq(Message)]

\* What a reader has got, and what is about to be sent, passed the filter.
OnlyTaken ==
  /\ \A w \in Workers : pc[w] \in {"decode", "send"} => msg[w] \in taken
  /\ \A r \in Readers : \A i \in 1..Len(got[r]) : got[r][i] \in taken

\* last_received is the latest message that has passed the filter.
LastIsLatest == filter # 0 => \A m \in taken : m.at <= last

\* Messages that have passed the filter are far apart.
TakenSpaced == \A m1, m2 \in taken : m1 # m2 => FarApart(m1, m2)

SpacedInv == Types /\ OnlyTaken /\ LastIsLatest /\ TakenSpaced

\* The vector stays one of readers, whatever is removed from it.
LEMMA SwapRemoveType ==
  ASSUME NEW s \in Seq(Readers), NEW i \in 1..Len(s)
  PROVE  SwapRemove(s, i) \in Seq(Readers)
<1>1. \A j \in 1..(Len(s) - 1) :
        /\ Len(s) - 1 \in Nat
        /\ (IF j = i THEN s[Len(s)] ELSE s[j]) \in Readers
  OBVIOUS
<1>2. Len(s) - 1 \in Nat
  OBVIOUS
<1> DEFINE f == [j \in 1..(Len(s) - 1) |-> IF j = i THEN s[Len(s)] ELSE s[j]]
<1>3. f \in [1..(Len(s) - 1) -> Readers]
  BY <1>1
<1>4. f \in Seq(Readers)
  BY <1>2, <1>3
<1> QED
  BY <1>4 DEF SwapRemove

\* Nothing has arrived yet.
LEMMA SpacedInit == Init => SpacedInv
<1> SUFFICES ASSUME Init PROVE SpacedInv
  OBVIOUS
<1>1. /\ filter \in Nat /\ now \in 0..MaxTime /\ last \in -1..MaxTime
      /\ arrived \in 0..MaxMessages /\ senders \in Seq(Readers)
  BY FiltersAssumption, BoundsAssumption DEF Init
<1>2. msg \in [Workers -> Message] /\ pos \in [Workers -> Nat \ {0}]
  BY BoundsAssumption DEF Init, Message
<1>3. /\ pc \in [Workers -> {"idle", "filter", "decode", "send"}]
      /\ taken \subseteq Message /\ got \in [Readers -> Seq(Message)]
  BY DEF Init
<1>4. OnlyTaken /\ LastIsLatest /\ TakenSpaced
  BY DEF Init, OnlyTaken, LastIsLatest, TakenSpaced
<1> QED
  BY <1>1, <1>2, <1>3, <1>4 DEF SpacedInv, Types

\* A message that passes the filter is far from, and later than, all before it.
LEMMA FilterSpaces ==
  ASSUME SpacedInv, NEW w \in Workers, Filter(w)
  PROVE  SpacedInv'
<1> DEFINE m == msg[w]
<1>1. Types /\ OnlyTaken /\ LastIsLatest /\ TakenSpaced /\ m \in Message
  BY DEF SpacedInv, Types
<1>2. m.at \in 0..MaxTime /\ m.at \in Nat /\ last \in Int /\ filter \in Nat
  BY <1>1, BoundsAssumption DEF Types, Message
<1>3. \A x \in taken : x.at \in Int
  BY <1>1, BoundsAssumption DEF Types, Message
<1>4. CASE IsFiltered(m.at) /\ UNCHANGED <<last, taken>> /\ Goto(w, "idle")
  <2>1. UNCHANGED <<filter, now, last, senders, msg, pos, arrived, taken, got>>
    BY <1>4 DEF Filter, config
  <2>2. Types'
    BY <2>1, <1>1, <1>4 DEF Types, Goto
  <2>3. OnlyTaken'
    BY <2>1, <1>1, <1>4 DEF Types, OnlyTaken, Goto
  <2>4. LastIsLatest' /\ TakenSpaced'
    BY <2>1, <1>1 DEF LastIsLatest, TakenSpaced, FarApart, Distance
  <2> QED
    BY <2>2, <2>3, <2>4 DEF SpacedInv
<1>5. CASE /\ ~IsFiltered(m.at)
           /\ last' = IF filter = 0 THEN last ELSE m.at
           /\ taken' = taken \cup {m}
           /\ Goto(w, "decode")
  <2>1. UNCHANGED <<filter, now, senders, msg, pos, arrived, got>>
    BY DEF Filter, config
  <2>2. Types'
    BY <2>1, <1>1, <1>2, <1>5 DEF Types, Goto
  <2>3. OnlyTaken'
    BY <2>1, <1>1, <1>5 DEF Types, OnlyTaken, Goto
  <2>4. \A x \in taken : FarApart(x, m) /\ FarApart(m, x) /\ (filter # 0 => x.at <= m.at)
    <3> SUFFICES ASSUME NEW x \in taken
                 PROVE  FarApart(x, m) /\ FarApart(m, x) /\ (filter # 0 => x.at <= m.at)
      OBVIOUS
    <3>1. CASE filter = 0
      BY <3>1, <1>2, <1>3 DEF FarApart, Distance
    <3>2. CASE filter # 0
      <4>1. x.at <= last /\ x.at \in Nat
        BY <3>2, <1>1, BoundsAssumption DEF LastIsLatest, Types, Message
      <4>2. DurationSince(m.at, last) >= filter
        BY <1>5, <4>1, <1>2 DEF IsFiltered, DurationSince
      <4>3. m.at - last >= filter
        BY <3>2, <4>2, <1>2 DEF DurationSince
      <4> QED
        BY <4>1, <4>3, <1>2 DEF FarApart, Distance
    <3> QED
      BY <3>1, <3>2
  <2>5. LastIsLatest'
    BY <2>1, <2>4, <1>2, <1>5 DEF LastIsLatest
  <2>6. TakenSpaced'
    BY <2>1, <2>4, <1>1, <1>5 DEF TakenSpaced, FarApart, Distance
  <2> QED
    BY <2>2, <2>3, <2>5, <2>6 DEF SpacedInv
<1> QED
  BY <1>4, <1>5 DEF Filter

\* What is sent has passed the filter.
LEMMA SendOneSpaces ==
  ASSUME SpacedInv, NEW w \in Workers, SendOne(w)
  PROVE  SpacedInv'
<1> DEFINE r == senders[pos[w]]
<1>1. Types /\ OnlyTaken /\ LastIsLatest /\ TakenSpaced
  BY DEF SpacedInv
<1>2. UNCHANGED <<filter, now, last, senders, pc, msg, arrived, taken>>
  BY DEF SendOne, config
<1>3. r \in Readers /\ msg[w] \in taken /\ msg[w] \in Message
  BY <1>1 DEF SendOne, Types, OnlyTaken
<1>4. got' = [got EXCEPT ![r] = Append(got[r], msg[w])]
  BY DEF SendOne
<1>5. pos' \in [Workers -> Nat \ {0}]
  BY <1>1 DEF SendOne, Types
<1>6. got' \in [Readers -> Seq(Message)]
  BY <1>1, <1>3, <1>4 DEF Types
<1>7. Types'
  BY <1>1, <1>2, <1>5, <1>6 DEF Types
<1>8. ASSUME NEW q \in Readers, NEW i \in 1..Len(got'[q])
      PROVE  got'[q][i] \in taken
  <2>1. got[q] \in Seq(Message)
    BY <1>1 DEF Types
  <2>2. CASE q = r
    <3>1. got'[q] = Append(got[q], msg[w])
      BY <2>2, <1>1, <1>4 DEF Types
    <3>2. i = Len(got[q]) + 1 \/ i \in 1..Len(got[q])
      BY <3>1, <2>1, <1>8
    <3> QED
      BY <3>1, <3>2, <2>1, <1>1, <1>3 DEF OnlyTaken
  <2>3. CASE q # r
    <3>1. got'[q] = got[q]
      BY <2>3, <1>1, <1>4 DEF Types
    <3> QED
      BY <3>1, <1>1, <1>8 DEF OnlyTaken
  <2> QED
    BY <2>2, <2>3
<1>9. OnlyTaken'
  BY <1>1, <1>2, <1>8 DEF OnlyTaken
<1>10. LastIsLatest' /\ TakenSpaced'
  BY <1>1, <1>2 DEF LastIsLatest, TakenSpaced, FarApart, Distance
<1> QED
  BY <1>7, <1>9, <1>10 DEF SpacedInv

\* Steps that neither take a message nor send one.
LEMMA OthersSpace ==
  ASSUME SpacedInv, Types',
         UNCHANGED <<filter, last, taken, got>>,
         \A w \in Workers : pc'[w] \in {"decode", "send"}
                              => pc[w] \in {"decode", "send"} /\ msg'[w] = msg[w]
  PROVE  SpacedInv'
<1>1. OnlyTaken'
  BY DEF SpacedInv, OnlyTaken
<1>2. LastIsLatest' /\ TakenSpaced'
  BY DEF SpacedInv, LastIsLatest, TakenSpaced, FarApart, Distance
<1> QED
  BY <1>1, <1>2 DEF SpacedInv

\* Every step keeps the invariant.
LEMMA SpacedStep == SpacedInv /\ [Next]_vars => SpacedInv'
<1> SUFFICES ASSUME SpacedInv, [Next]_vars PROVE SpacedInv'
  OBVIOUS
<1>0. Types
  BY DEF SpacedInv
<1>1. CASE Tick
  <2>1. Types'
    BY <1>0, <1>1, BoundsAssumption DEF Types, Tick, config, sending, history
  <2> QED
    BY <1>1, <2>1, OthersSpace DEF Tick, config, sending, history
<1>2. CASE Shutdown
  <2>1. Types'
    BY <1>0, <1>2 DEF Types, Shutdown, config, sending, history
  <2> QED
    BY <1>2, <2>1, OthersSpace DEF Shutdown, config, sending, history
<1>3. ASSUME NEW w \in Workers, HandleMsg(w)
      PROVE  SpacedInv'
  <2>1. [n |-> arrived + 1, at |-> now] \in Message
    BY <1>0, <1>3, BoundsAssumption DEF Types, HandleMsg, Message
  <2>2. Types'
    BY <1>0, <1>3, <2>1, BoundsAssumption DEF Types, HandleMsg, Goto, config
  <2>3. \A v \in Workers : pc'[v] \in {"decode", "send"}
                             => pc[v] \in {"decode", "send"} /\ msg'[v] = msg[v]
    BY <1>0, <1>3 DEF Types, HandleMsg, Goto
  <2> QED
    BY <1>3, <2>2, <2>3, OthersSpace DEF HandleMsg, config
<1>4. ASSUME NEW w \in Workers, Filter(w)
      PROVE  SpacedInv'
  BY <1>4, FilterSpaces
<1>5. ASSUME NEW w \in Workers, Decode(w)
      PROVE  SpacedInv'
  <2>0. UNCHANGED <<filter, now, last, senders, msg, arrived, taken, got>>
    BY <1>5 DEF Decode, config, history
  <2>1. Types'
    <3>1. pc' \in [Workers -> {"idle", "filter", "decode", "send"}]
      BY <1>0, <1>5 DEF Types, Decode, Goto
    <3>2. pos' = pos \/ pos' = [pos EXCEPT ![w] = 1]
      BY <1>5 DEF Decode
    <3>3. pos' \in [Workers -> Nat \ {0}]
      BY <1>0, <3>2 DEF Types
    <3> QED
      BY <1>0, <2>0, <3>1, <3>3 DEF Types
  <2>2. \A v \in Workers : pc'[v] \in {"decode", "send"}
                             => pc[v] \in {"decode", "send"} /\ msg'[v] = msg[v]
    BY <1>0, <1>5 DEF Types, Decode, Goto
  <2> QED
    BY <2>0, <2>1, <2>2, OthersSpace
<1>6. ASSUME NEW w \in Workers, SendOne(w)
      PROVE  SpacedInv'
  BY <1>6, SendOneSpaces
<1>7. ASSUME NEW w \in Workers, SendDone(w)
      PROVE  SpacedInv'
  <2>1. Types'
    BY <1>0, <1>7 DEF Types, SendDone, Goto, config, history
  <2>2. \A v \in Workers : pc'[v] \in {"decode", "send"}
                             => pc[v] \in {"decode", "send"} /\ msg'[v] = msg[v]
    BY <1>0, <1>7 DEF Types, SendDone, Goto
  <2> QED
    BY <1>7, <2>1, <2>2, OthersSpace DEF SendDone, config, history
<1>8. ASSUME NEW r \in Readers, AddSender(r)
      PROVE  SpacedInv'
  <2>1. Types'
    BY <1>0, <1>8 DEF Types, AddSender, config, sending, history
  <2> QED
    BY <1>8, <2>1, OthersSpace DEF AddSender, config, sending, history
<1>9. ASSUME NEW r \in Readers, RemoveSender(r)
      PROVE  SpacedInv'
  <2>1. senders' \in Seq(Readers)
    BY <1>0, <1>9, SwapRemoveType DEF Types, RemoveSender
  <2>2. Types'
    BY <1>0, <1>9, <2>1 DEF Types, RemoveSender, config, sending, history
  <2> QED
    BY <1>9, <2>2, OthersSpace DEF RemoveSender, config, sending, history
<1>10. CASE UNCHANGED vars
  <2>1. Types'
    BY <1>0, <1>10 DEF Types, vars, config, sending, history
  <2> QED
    BY <1>10, <2>1, OthersSpace DEF vars, config, sending, history
<1> QED
  BY <1>1, <1>2, <1>3, <1>4, <1>5, <1>6, <1>7, <1>8, <1>9, <1>10
     DEF Next, WorkerStep

\* What a reader has got has passed the filter, so it is spaced.
LEMMA SpacedFollows == SpacedInv => Spaced
<1> SUFFICES ASSUME SpacedInv,
                    NEW r \in Readers, NEW m1 \in ToSet(got[r]), NEW m2 \in ToSet(got[r]),
                    m1 # m2
             PROVE  FarApart(m1, m2)
  BY DEF Spaced
<1>1. got[r] \in Seq(Message)
  BY DEF SpacedInv, Types
<1>2. m1 \in taken /\ m2 \in taken
  BY <1>1 DEF ToSet, SpacedInv, OnlyTaken
<1> QED
  BY <1>2 DEF SpacedInv, TakenSpaced

\* CAL-005431: two messages that a reader of ReaderRingMaster::distribute_msg
\* gets were received at least the time-based filter apart, however many
\* workers distribute messages at once.
THEOREM FilterSpacesMessages == Spec => []Spaced
<1> QED
  BY SpacedInit, SpacedStep, SpacedFollows, PTL DEF Spec

-----------------------------------------------------------------------------
(***************************************************************************)
(* What a network with one worker gives every reader: messages in the      *)
(* order of their arrival, and a filter that drops nothing it need not.    *)
(* The argument is that the one worker is at the newest message; it fails  *)
(* with two, where the later message may pass the filter first.            *)
(***************************************************************************)

Alone == Cardinality(workers) = 1

\* Only workers of the network are busy.
BusyAreWorkers ==
  /\ workers \in WorkerSets
  /\ \A w \in Workers : pc[w] # "idle" => w \in workers

\* No reader has two senders.
SendersDistinct == IsInjective(senders)

\* last_received is the time of a message that was taken.
LastWasTaken ==
  /\ last <= now
  /\ last # -1 => \E m \in taken : m.at = last

\* What has been taken, and what is at the filter, has arrived.
TakenArrived ==
  /\ \A m \in taken : m.n <= arrived
  /\ \A w \in Workers : pc[w] = "filter" => msg[w].n <= arrived /\ msg[w].at <= now

\* A message that w has not yet passed to the filter is the newest.
NewestAtFilter(w) ==
  pc[w] = "filter" =>
    /\ last <= msg[w].at
    /\ \A m \in taken : m.n < msg[w].n

\* What a reader has got is older than message n.
GotOlder(r, n) == \A i \in 1..Len(got[r]) : got[r][i].n < n

\* A message that w has taken is newer than what is in the rings to which w
\* has not yet sent it.
NewestToSend(w) ==
  /\ pc[w] \in {"filter", "decode"} => \A r \in Readers : GotOlder(r, msg[w].n)
  /\ pc[w] = "send" =>
       \A j \in 1..Len(senders) : pos[w] <= j => GotOlder(senders[j], msg[w].n)

AloneInv == Alone => \A w \in Workers : NewestAtFilter(w) /\ NewestToSend(w)

OrderInv ==
  /\ SpacedInv
  /\ BusyAreWorkers
  /\ SendersDistinct
  /\ LastWasTaken
  /\ TakenArrived
  /\ AloneInv
  /\ FilterExact
  /\ InOrder

-----------------------------------------------------------------------------
(* Lemmas about the operators. *)

\* Two busy workers of a network that has one are the same.
LEMMA OnlyOneBusy ==
  ASSUME BusyAreWorkers, Alone,
         NEW v \in Workers, NEW w \in workers, pc[v] # "idle"
  PROVE  v = w
  <1>1. IsFiniteSet(workers) /\ v \in workers
    BY WorkersAssumption DEF BusyAreWorkers
  <1>2. PICK x : workers = {x}
    BY <1>1, FS_Singleton DEF Alone
  <1>3. QED
    BY <1>1, <1>2

\* Removing a sender leaves the others distinct.
LEMMA SwapRemoveDistinct ==
  ASSUME NEW s \in Seq(Readers), IsInjective(s), NEW i \in 1..Len(s)
  PROVE  IsInjective(SwapRemove(s, i))
  <1> DEFINE f == SwapRemove(s, i)
  <1>1. Len(s) \in Nat /\ DOMAIN s = 1..Len(s) /\ DOMAIN f = 1..(Len(s) - 1)
    BY DEF SwapRemove
  <1>2. SUFFICES ASSUME NEW a \in 1..(Len(s) - 1), NEW b \in 1..(Len(s) - 1), f[a] = f[b]
                 PROVE  a = b
    BY <1>1 DEF IsInjective
  <1> DEFINE at(j) == IF j = i THEN Len(s) ELSE j
  <1>3. f[a] = s[at(a)] /\ f[b] = s[at(b)] /\ at(a) \in 1..Len(s) /\ at(b) \in 1..Len(s)
    BY <1>1 DEF SwapRemove
  <1>4. at(a) = at(b)
    BY <1>1, <1>2, <1>3 DEF IsInjective
  <1>5. QED
    BY <1>1, <1>4

\* A new sender is distinct from those there are.
LEMMA AppendDistinct ==
  ASSUME NEW s \in Seq(Readers), IsInjective(s), NEW r \in Readers, r \notin ToSet(s)
  PROVE  IsInjective(Append(s, r))
  <1>1. /\ Len(s) \in Nat /\ DOMAIN s = 1..Len(s)
        /\ DOMAIN Append(s, r) = 1..(Len(s) + 1)
        /\ \A j \in 1..Len(s) : Append(s, r)[j] = s[j] /\ s[j] # r
        /\ Append(s, r)[Len(s) + 1] = r
    BY DEF ToSet
  <1>2. QED
    BY <1>1 DEF IsInjective

-----------------------------------------------------------------------------
(* The steps. *)

\* What a step of w that does not touch the rings has to show.
LEMMA InvFromParts ==
  ASSUME OrderInv, SpacedInv', BusyAreWorkers', SendersDistinct', LastWasTaken',
         TakenArrived', AloneInv', FilterExact', UNCHANGED <<workers, got>>
  PROVE  OrderInv'
  BY DEF OrderInv, InOrder

\* Steps of no worker: the clock, the vector of senders, the table.
LEMMA QuietStep ==
  ASSUME OrderInv, SpacedInv', UNCHANGED <<config, last, sending, history>>,
         now' \in Nat, now <= now', SendersDistinct',
         senders' = senders \/ \A w \in Workers : pc[w] # "send"
  PROVE  OrderInv'
  <1>1. now \in Int /\ last \in Int /\ \A w \in Workers : msg[w].at \in Int
    BY BoundsAssumption DEF OrderInv, SpacedInv, Types, Message
  <1>2. BusyAreWorkers' /\ LastWasTaken' /\ TakenArrived' /\ FilterExact'
    BY <1>1 DEF OrderInv, BusyAreWorkers, LastWasTaken, TakenArrived, FilterExact,
                FarApart, Distance, config, sending, history
  <1>3. ASSUME Alone', NEW w \in Workers
        PROVE  NewestAtFilter(w)' /\ NewestToSend(w)'
    <2>1. NewestAtFilter(w) /\ NewestToSend(w)
      BY <1>3 DEF OrderInv, AloneInv, Alone, config
    <2>2. NewestAtFilter(w)'
      BY <1>1, <2>1 DEF NewestAtFilter, config, sending, history
    <2>3. NewestToSend(w)'
      BY <2>1 DEF NewestToSend, GotOlder, sending, history
    <2>4. QED
      BY <2>2, <2>3
  <1>4. AloneInv'
    BY <1>3 DEF AloneInv
  <1>5. QED
    BY <1>2, <1>4, InvFromParts DEF config, history

\* A message that arrives is newer than all before.
LEMMA HandleMsgStep ==
  ASSUME OrderInv, SpacedInv', NEW w \in Workers, HandleMsg(w)
  PROVE  OrderInv'
  <1>1. /\ Types /\ w \in workers /\ pc[w] = "idle" /\ arrived' = arrived + 1
        /\ msg' = [msg EXCEPT ![w] = [n |-> arrived + 1, at |-> now]]
        /\ pc' = [pc EXCEPT ![w] = "filter"]
        /\ UNCHANGED <<config, now, last, senders, open, pos, taken, filtered, got>>
    BY DEF HandleMsg, MayHandle, Idle, Goto, OrderInv, SpacedInv
  <1>2. arrived \in Nat /\ now \in Int /\ \A m \in taken : m.n \in Int
    BY <1>1, BoundsAssumption DEF Types, Message
  <1>3. /\ BusyAreWorkers' /\ SendersDistinct' /\ LastWasTaken' /\ FilterExact'
    BY <1>1 DEF OrderInv, BusyAreWorkers, SendersDistinct, LastWasTaken, FilterExact,
                FarApart, Distance, Types, config
  <1>4. TakenArrived'
    BY <1>1, <1>2, BoundsAssumption DEF OrderInv, TakenArrived, Types, Message
  <1>5. \A r \in Readers : \A i \in 1..Len(got[r]) : got[r][i].n < arrived + 1
    BY <1>2 DEF OrderInv, SpacedInv, OnlyTaken, TakenArrived
  <1>6. ASSUME Alone', NEW v \in Workers
        PROVE  NewestAtFilter(v)' /\ NewestToSend(v)'
    <2>1. CASE v = w
      <3>1. msg'[v].n = arrived + 1 /\ msg'[v].at = now /\ pc'[v] = "filter"
        BY <1>1, <2>1 DEF Types
      <3>2. NewestAtFilter(v)'
        BY <1>1, <1>2, <3>1 DEF NewestAtFilter, OrderInv, LastWasTaken, TakenArrived
      <3>3. NewestToSend(v)'
        BY <1>1, <1>5, <3>1 DEF NewestToSend, GotOlder
      <3>4. QED
        BY <3>2, <3>3
    <2>2. CASE v # w
      <3>1. pc'[v] = pc[v] /\ pc[v] = "idle"
        BY <1>1, <1>6, <2>2, OnlyOneBusy DEF Types, OrderInv, Alone, config
      <3>2. QED
        BY <3>1 DEF NewestAtFilter, NewestToSend
    <2>3. QED
      BY <2>1, <2>2
  <1>7. AloneInv'
    BY <1>6 DEF AloneInv
  <1>8. QED
    BY <1>1, <1>3, <1>4, <1>7, InvFromParts DEF config

\* With one worker a message that is dropped follows the one at last_received
\* by less than the filter.
LEMMA FilterStep ==
  ASSUME OrderInv, SpacedInv', NEW w \in Workers, Filter(w)
  PROVE  OrderInv'
  <1>1. /\ Types /\ w \in workers /\ pc[w] = "filter"
        /\ UNCHANGED <<config, now, senders, open, msg, pos, arrived, got>>
    BY DEF Filter, OrderInv, SpacedInv, BusyAreWorkers
  <1> DEFINE m == msg[w]
  <1>2. /\ m.at \in 0..MaxTime /\ m.at \in Nat /\ m.n \in Int /\ now \in Int
        /\ last \in Int /\ filter \in Nat /\ arrived \in Int
    BY <1>1, BoundsAssumption DEF Types, Message
  <1>3. Alone => /\ last <= m.at
                 /\ \A x \in taken : x.n < m.n
                 /\ \A r \in Readers : GotOlder(r, m.n)
    BY <1>1 DEF OrderInv, AloneInv, NewestAtFilter, NewestToSend
  <1>3a. m.at <= now /\ m.n <= arrived
    BY <1>1 DEF OrderInv, TakenArrived
  <1>4. BusyAreWorkers' /\ SendersDistinct'
    BY <1>1 DEF OrderInv, BusyAreWorkers, SendersDistinct, Filter, Goto, Types, config
  <1>5. pc' = [pc EXCEPT ![w] = "idle"] \/ pc' = [pc EXCEPT ![w] = "decode"]
    BY DEF Filter, Goto
  <1>6. AloneInv'
    <2> SUFFICES ASSUME Alone', NEW v \in Workers
                 PROVE  NewestAtFilter(v)' /\ NewestToSend(v)'
      BY DEF AloneInv
    <2>1. CASE v = w
      <3>1. pc'[v] \in {"idle", "decode"} /\ msg'[v] = m
        BY <1>1, <1>5, <2>1 DEF Types
      <3>2. QED
        BY <1>1, <1>3, <3>1 DEF NewestAtFilter, NewestToSend, GotOlder, Alone, config
    <2>2. CASE v # w
      <3>1. pc'[v] = "idle"
        BY <1>1, <1>5, <2>2, OnlyOneBusy DEF Types, OrderInv, Alone, config
      <3>2. QED
        BY <3>1 DEF NewestAtFilter, NewestToSend
    <2>3. QED
      BY <2>1, <2>2
  <1>7. CASE IsFiltered(m.at) /\ filtered' = filtered \cup {m} /\ UNCHANGED <<last, taken>>
    <2>1. LastWasTaken' /\ TakenArrived'
      BY <1>1, <1>5, <1>7 DEF OrderInv, LastWasTaken, TakenArrived, Types
    <2>2. Alone => \E x \in taken : x.n < m.n /\ ~FarApart(x, m)
      <3> SUFFICES ASSUME Alone
                   PROVE  \E x \in taken : x.n < m.n /\ ~FarApart(x, m)
        OBVIOUS
      <3>1. last # -1 /\ m.at - last < filter
        BY <1>2, <1>3, <1>7 DEF IsFiltered, DurationSince
      <3>2. PICK x \in taken : x.at = last
        BY <3>1 DEF OrderInv, LastWasTaken
      <3>3. ~FarApart(x, m)
        BY <1>2, <1>3, <3>1, <3>2 DEF FarApart, Distance
      <3>4. QED
        BY <1>3, <3>2, <3>3
    <2>3. FilterExact'
      BY <1>1, <1>7, <2>2 DEF OrderInv, FilterExact, Alone, FarApart, Distance, config
    <2>4. QED
      BY <1>1, <1>4, <1>6, <2>1, <2>3, InvFromParts DEF config
  <1>8. CASE /\ last' = IF filter = 0 THEN last ELSE m.at
             /\ taken' = taken \cup {m} /\ filtered' = filtered
    <2>1. LastWasTaken'
      BY <1>1, <1>2, <1>3a, <1>8 DEF OrderInv, LastWasTaken
    <2>2. TakenArrived'
      BY <1>1, <1>3a, <1>5, <1>8 DEF OrderInv, TakenArrived, Types
    <2>3. FilterExact'
      BY <1>1, <1>8 DEF OrderInv, FilterExact, FarApart, Distance, config
    <2>4. QED
      BY <1>1, <1>4, <1>6, <2>1, <2>2, <2>3, InvFromParts DEF config
  <1>9. QED
    BY <1>7, <1>8 DEF Filter

\* A message that has been decoded is sent to the first sender.
LEMMA DecodeStep ==
  ASSUME OrderInv, SpacedInv', NEW w \in Workers, Decode(w)
  PROVE  OrderInv'
  <1>1. /\ Types /\ w \in workers /\ pc[w] = "decode"
        /\ UNCHANGED <<config, now, last, senders, msg, history>>
    BY DEF Decode, OrderInv, SpacedInv, BusyAreWorkers
  <1>2. \/ pc' = [pc EXCEPT ![w] = "idle"]
        \/ pc' = [pc EXCEPT ![w] = "send"]
    BY DEF Decode, Goto
  <1>3. /\ BusyAreWorkers' /\ SendersDistinct' /\ LastWasTaken' /\ TakenArrived'
        /\ FilterExact'
    BY <1>1, <1>2 DEF OrderInv, BusyAreWorkers, SendersDistinct, LastWasTaken, TakenArrived,
                      FilterExact, FarApart, Distance, Types, config, history
  <1>4. ASSUME Alone', NEW v \in Workers
        PROVE  NewestAtFilter(v)' /\ NewestToSend(v)'
    <2>1. CASE v = w
      <3>1. pc'[v] \in {"idle", "send"}
        BY <1>1, <1>2, <2>1 DEF Types
      <3>2. \A r \in Readers : GotOlder(r, msg[w].n)
        BY <1>1, <1>4 DEF OrderInv, AloneInv, NewestToSend, Alone, config
      <3>3. senders \in Seq(Readers)
        BY <1>1 DEF Types
      <3>4. QED
        BY <1>1, <2>1, <3>1, <3>2, <3>3 DEF NewestAtFilter, NewestToSend, GotOlder, history
    <2>2. CASE v # w
      <3>1. pc'[v] = "idle"
        BY <1>1, <1>2, <1>4, <2>2, OnlyOneBusy DEF Types, OrderInv, Alone, config
      <3>2. QED
        BY <3>1 DEF NewestAtFilter, NewestToSend
    <2>3. QED
      BY <2>1, <2>2
  <1>5. AloneInv'
    BY <1>4 DEF AloneInv
  <1>6. QED
    BY <1>1, <1>3, <1>5, InvFromParts DEF config, history

\* A message that is sent is newer than what is in the ring, and the rings of
\* the senders that are left are others.
LEMMA SendOneStep ==
  ASSUME OrderInv, SpacedInv', NEW w \in Workers, SendOne(w)
  PROVE  OrderInv'
  <1>1. /\ Types /\ w \in workers /\ pc[w] = "send" /\ pos[w] <= Len(senders)
        /\ pos' = [pos EXCEPT ![w] = @ + 1]
        /\ UNCHANGED <<config, now, last, senders, open, pc, msg, arrived, taken, filtered>>
    BY DEF SendOne, OrderInv, SpacedInv, BusyAreWorkers
  <1> DEFINE r == senders[pos[w]]
  <1>2. pos[w] \in 1..Len(senders) /\ r \in Readers /\ msg[w] \in Message
    BY <1>1 DEF Types
  <1>3. got' = [got EXCEPT ![r] = Append(got[r], msg[w])]
    BY DEF SendOne
  <1>4. /\ BusyAreWorkers' /\ SendersDistinct' /\ LastWasTaken' /\ TakenArrived'
        /\ FilterExact'
    BY <1>1 DEF OrderInv, BusyAreWorkers, SendersDistinct, LastWasTaken, TakenArrived,
                FilterExact, FarApart, Distance, config
  <1>5. ASSUME Alone', NEW v \in Workers
        PROVE  NewestAtFilter(v)' /\ NewestToSend(v)'
    <2>1. CASE v = w
      <3>1. ASSUME NEW j \in 1..Len(senders), pos[w] + 1 <= j
            PROVE  GotOlder(senders[j], msg[w].n)'
        <4>1. GotOlder(senders[j], msg[w].n)
          BY <1>1, <1>2, <1>5, <3>1
             DEF OrderInv, AloneInv, NewestToSend, Alone, config
        <4>2. senders[j] # r
          BY <1>1, <1>2, <3>1 DEF OrderInv, SendersDistinct, IsInjective, Types
        <4>3. senders[j] \in Readers /\ got'[senders[j]] = got[senders[j]]
          BY <1>1, <1>3, <3>1, <4>2 DEF Types
        <4>4. QED
          BY <1>1, <4>1, <4>3 DEF GotOlder
      <3>2. QED
        BY <1>1, <2>1, <3>1 DEF NewestAtFilter, NewestToSend, Types
    <2>2. CASE v # w
      <3>1. pc'[v] = "idle"
        BY <1>1, <1>5, <2>2, OnlyOneBusy DEF Types, OrderInv, Alone, config
      <3>2. QED
        BY <3>1 DEF NewestAtFilter, NewestToSend
    <2>3. QED
      BY <2>1, <2>2
  <1>6. AloneInv'
    BY <1>5 DEF AloneInv
  <1>7. InOrder'
    <2> SUFFICES ASSUME Alone, NEW q \in Readers,
                        NEW i \in 1..Len(got'[q]), NEW j \in 1..Len(got'[q]), i < j
                 PROVE  got'[q][i].n < got'[q][j].n
      BY <1>1 DEF InOrder, Alone, config
    <2>1. got[q] \in Seq(Message) /\ Len(got[q]) \in Nat
      BY <1>1 DEF Types
    <2>2. CASE q = r
      <3>1. got'[q] = Append(got[q], msg[w])
        BY <1>1, <1>3, <2>2 DEF Types
      <3>2. GotOlder(q, msg[w].n)
        BY <1>1, <1>2, <2>2 DEF OrderInv, AloneInv, NewestToSend
      <3>3. CASE j = Len(got[q]) + 1
        BY <2>1, <3>1, <3>2, <3>3 DEF GotOlder
      <3>4. CASE j # Len(got[q]) + 1
        <4>1. i \in 1..Len(got[q]) /\ j \in 1..Len(got[q])
          BY <2>1, <3>1, <3>4
        <4>2. got'[q][i] = got[q][i] /\ got'[q][j] = got[q][j]
          BY <2>1, <3>1, <4>1
        <4>3. QED
          BY <4>1, <4>2 DEF OrderInv, InOrder, Alone
      <3>5. QED
        BY <3>3, <3>4
    <2>3. CASE q # r
      BY <1>1, <1>3, <2>3 DEF Types, OrderInv, InOrder, Alone
    <2>4. QED
      BY <2>2, <2>3
  <1>8. QED
    BY <1>4, <1>6, <1>7 DEF OrderInv

\* A message that has been sent to all.
LEMMA SendDoneStep ==
  ASSUME OrderInv, SpacedInv', NEW w \in Workers, SendDone(w)
  PROVE  OrderInv'
  <1>1. /\ Types /\ pc' = [pc EXCEPT ![w] = "idle"]
        /\ UNCHANGED <<config, now, last, senders, open, msg, pos, history>>
    BY DEF SendDone, Goto, OrderInv, SpacedInv
  <1>2. /\ BusyAreWorkers' /\ SendersDistinct' /\ LastWasTaken' /\ TakenArrived'
        /\ FilterExact'
    BY <1>1 DEF OrderInv, BusyAreWorkers, SendersDistinct, LastWasTaken, TakenArrived,
                FilterExact, FarApart, Distance, Types, config, history
  <1>3. \A v \in Workers : pc'[v] = "idle" \/ pc'[v] = pc[v]
    BY <1>1 DEF Types
  <1>4. AloneInv'
    BY <1>1, <1>3 DEF OrderInv, AloneInv, Alone, NewestAtFilter, NewestToSend, GotOlder,
                      config, history
  <1>5. QED
    BY <1>1, <1>2, <1>4, InvFromParts DEF config, history

-----------------------------------------------------------------------------
(* The theorems. *)

LEMMA OrderInit == Init => OrderInv
  <1> SUFFICES ASSUME Init PROVE OrderInv
    OBVIOUS
  <1>1. SpacedInv
    BY SpacedInit
  <1>2. BusyAreWorkers /\ SendersDistinct /\ LastWasTaken /\ TakenArrived
    BY DEF Init, BusyAreWorkers, SendersDistinct, IsInjective, LastWasTaken, TakenArrived
  <1>3. AloneInv /\ FilterExact /\ InOrder
    BY DEF Init, AloneInv, NewestAtFilter, NewestToSend, FilterExact, InOrder
  <1>4. QED
    BY <1>1, <1>2, <1>3 DEF OrderInv

LEMMA OrderStep == OrderInv /\ [Next]_vars => OrderInv'
  <1> SUFFICES ASSUME OrderInv, [Next]_vars PROVE OrderInv'
    OBVIOUS
  <1>1. SpacedInv' /\ Types /\ now \in Nat /\ SendersDistinct
    BY SpacedStep, BoundsAssumption DEF OrderInv, SpacedInv, Types
  <1>2. CASE UNCHANGED vars
    BY <1>1, <1>2, QuietStep DEF vars, SendersDistinct
  <1>3. CASE Tick
    BY <1>1, <1>3, QuietStep DEF Tick, SendersDistinct
  <1>4. CASE Shutdown
    <2>1. SendersDistinct'
      BY <1>4 DEF Shutdown, SendersDistinct, IsInjective
    <2>2. QED
      BY <1>1, <1>4, <2>1, QuietStep DEF Shutdown, Idle
  <1>5. CASE \E r \in Readers : AddSender(r)
    <2>1. SendersDistinct'
      BY <1>1, <1>5, AppendDistinct DEF AddSender, SendersDistinct, Types
    <2>2. QED
      BY <1>1, <1>5, <2>1, QuietStep DEF AddSender, WriteLockFree
  <1>6. CASE \E r \in Readers : RemoveSender(r)
    <2>1. SendersDistinct'
      BY <1>1, <1>6, SwapRemoveDistinct DEF RemoveSender, SendersDistinct, Types
    <2>2. QED
      BY <1>1, <1>6, <2>1, QuietStep DEF RemoveSender, WriteLockFree
  <1>7. CASE \E w \in Workers : WorkerStep(w)
    BY <1>1, <1>7, HandleMsgStep, FilterStep, DecodeStep, SendOneStep, SendDoneStep
       DEF WorkerStep
  <1>8. QED
    BY <1>2, <1>3, <1>4, <1>5, <1>6, <1>7 DEF Next

\* With one worker, a message that distribute_msg drops came less than the
\* filter after one it had taken: nothing is lost to the filter in vain.
THEOREM FilterDropsNoMore == Spec => []FilterExact
  <1>1. OrderInv => FilterExact
    BY DEF OrderInv
  <1>2. QED
    BY <1>1, OrderInit, OrderStep, PTL DEF Spec

\* CAL-016076: with one worker every ring gets messages in the order of their
\* arrival, each once, while readers come and go.
THEOREM OneWorkerKeepsOrder == Spec => []InOrder
  <1>1. OrderInv => InOrder
    BY DEF OrderInv
  <1>2. QED
    BY <1>1, OrderInit, OrderStep, PTL DEF Spec

-----------------------------------------------------------------------------
(***************************************************************************)
(* What a message that is distributed gives every reader, with any number  *)
(* of workers: one copy, whatever the workers do at the same time.         *)
(***************************************************************************)

\* Workers are busy with different messages.
BusyDistinct ==
  \A v, w \in Workers :
    pc[v] # "idle" /\ pc[w] # "idle" /\ msg[v].n = msg[w].n => v = w

\* A ring that has not got a message, and one that has got it once.
NotIn(s, m) == \A i \in 1..Len(s) : s[i] # m

OnceIn(s, m) == \E i \in 1..Len(s) : \A k \in 1..Len(s) : s[k] = m <=> k = i

\* The message of w is in the rings of the senders before the position of w,
\* once, and in no others.
SentSoFar(w) ==
  /\ pc[w] \in {"filter", "decode"} => \A r \in Readers : NotIn(got[r], msg[w])
  /\ pc[w] = "send" =>
       \A j \in 1..Len(senders) :
         /\ j < pos[w] => OnceIn(got[senders[j]], msg[w])
         /\ j >= pos[w] => NotIn(got[senders[j]], msg[w])

SentInv == BusyDistinct /\ \A w \in Workers : SentSoFar(w)

\* Sending a message to a ring adds it, and nothing else.
LEMMA AppendOnce ==
  ASSUME NEW s \in Seq(Message), NEW x \in Message, NEW m \in Message
  PROVE  /\ m # x /\ NotIn(s, m) => NotIn(Append(s, x), m)
         /\ m # x /\ OnceIn(s, m) => OnceIn(Append(s, x), m)
         /\ NotIn(s, x) => OnceIn(Append(s, x), x)
  <1> DEFINE t == Append(s, x)
  <1>1. /\ Len(s) \in Nat /\ Len(t) = Len(s) + 1
        /\ \A i \in 1..Len(s) : t[i] = s[i]
        /\ t[Len(s) + 1] = x
    OBVIOUS
  <1> HIDE DEF t
  <1>2. /\ \A k \in 1..Len(t) : k \in 1..Len(s) \/ k = Len(s) + 1
        /\ \A k \in 1..Len(s) : k \in 1..Len(t) /\ k # Len(s) + 1
        /\ Len(s) + 1 \in 1..Len(t)
    BY <1>1
  <1>3. m # x /\ NotIn(s, m) => NotIn(t, m)
    BY <1>1, <1>2 DEF NotIn
  <1>4. ASSUME m # x, OnceIn(s, m)
        PROVE  OnceIn(t, m)
    <2>1. PICK i \in 1..Len(s) : \A k \in 1..Len(s) : s[k] = m <=> k = i
      BY <1>4 DEF OnceIn
    <2>2. \A k \in 1..Len(t) : t[k] = m <=> k = i
      BY <1>1, <1>2, <1>4, <2>1
    <2>3. QED
      BY <1>2, <2>2 DEF OnceIn
  <1>5. ASSUME NotIn(s, x)
        PROVE  OnceIn(t, x)
    <2>1. \A k \in 1..Len(t) : t[k] = x <=> k = Len(s) + 1
      BY <1>1, <1>2, <1>5 DEF NotIn
    <2>2. QED
      BY <1>2, <2>1 DEF OnceIn
  <1>6. QED
    BY <1>3, <1>4, <1>5 DEF t

\* What a worker is busy with, and what a reader has got, has arrived.
LEMMA BusyArrived ==
  ASSUME OrderInv
  PROVE  /\ \A w \in Workers : pc[w] # "idle" => msg[w].n <= arrived
         /\ \A r \in Readers : \A i \in 1..Len(got[r]) : got[r][i].n <= arrived
  BY DEF OrderInv, SpacedInv, Types, OnlyTaken, TakenArrived

\* A worker that becomes idle, and workers that stay as they are, owe nothing.
LEMMA SentSame ==
  ASSUME SentInv, UNCHANGED <<msg, got>>, NEW w \in Workers,
         \A v \in Workers \ {w} : pc'[v] = pc[v] /\ pos'[v] = pos[v],
         \/ pc'[w] = "idle"
         \/ pc'[w] = pc[w] /\ pos'[w] = pos[w]
         \/ pc'[w] = "decode" /\ pc[w] = "filter"
         \/ pc'[w] = "send" /\ pc[w] = "decode" /\ pos'[w] = 1,
         senders' = senders \/ \A v \in Workers : pc'[v] # "send",
         senders' \in Seq(Readers)
  PROVE  SentInv'
  <1>1. BusyDistinct'
    BY DEF SentInv, BusyDistinct
  <1>2. ASSUME NEW v \in Workers
        PROVE  SentSoFar(v)'
    <2>1. SentSoFar(v)
      BY DEF SentInv
    <2>2. CASE v = w /\ pc'[w] = "send" /\ pc[w] = "decode" /\ pos'[w] = 1
      <3>1. \A j \in 1..Len(senders') : senders'[j] \in Readers /\ ~(j < 1)
        OBVIOUS
      <3>2. QED
        BY <2>1, <2>2, <3>1 DEF SentSoFar
    <2>3. CASE /\ pc'[v] = "send" => pc[v] = "send" /\ pos'[v] = pos[v] /\ senders' = senders
               /\ pc'[v] \in {"filter", "decode"} => pc[v] \in {"filter", "decode"}
      BY <2>1, <2>3 DEF SentSoFar
    <2>4. pc'[v] = "send" => senders' = senders
      OBVIOUS
    <2>5. CASE v = w
      BY <2>2, <2>3, <2>4, <2>5
    <2>6. CASE v # w
      BY <2>3, <2>4, <2>6
    <2>7. QED
      BY <2>5, <2>6
  <1>3. QED
    BY <1>1, <1>2 DEF SentInv

\* A message that arrives is in no ring and with no other worker.
LEMMA SentHandleMsg ==
  ASSUME OrderInv, SentInv, NEW w \in Workers, HandleMsg(w)
  PROVE  SentInv'
  <1>1. /\ Types
        /\ pc' = [pc EXCEPT ![w] = "filter"]
        /\ msg' = [msg EXCEPT ![w] = [n |-> arrived + 1, at |-> now]]
        /\ UNCHANGED <<senders, pos, got>>
    BY DEF HandleMsg, Goto, OrderInv, SpacedInv
  <1>2. /\ msg'[w] = [n |-> arrived + 1, at |-> now] /\ pc'[w] = "filter"
        /\ msg'[w].n = arrived + 1
        /\ \A v \in Workers \ {w} : msg'[v] = msg[v] /\ pc'[v] = pc[v]
    BY <1>1 DEF Types
  <1>3. arrived \in Nat /\ \A v \in Workers : msg[v].n \in Nat
    BY <1>1, BoundsAssumption DEF Types, Message
  <1>4. BusyDistinct'
    BY <1>2, <1>3, BusyArrived DEF SentInv, BusyDistinct
  <1>5. ASSUME NEW r \in Readers
        PROVE  NotIn(got[r], msg'[w])
    <2>1. \A i \in 1..Len(got[r]) : got[r][i].n <= arrived
      BY BusyArrived
    <2>2. QED
      BY <1>2, <1>3, <2>1 DEF NotIn
  <1>6. SentSoFar(w)'
    BY <1>1, <1>2, <1>5 DEF SentSoFar
  <1>7. ASSUME NEW v \in Workers \ {w}
        PROVE  SentSoFar(v)'
    BY <1>1, <1>2, <1>7 DEF SentInv, SentSoFar
  <1>8. QED
    BY <1>4, <1>6, <1>7 DEF SentInv

\* A message that is sent gets to one more ring, in which it was not, and
\* changes nothing for the messages of the other workers.
LEMMA SentSendOne ==
  ASSUME OrderInv, SentInv, NEW w \in Workers, SendOne(w)
  PROVE  SentInv'
  <1>1. /\ Types /\ SendersDistinct
        /\ pc[w] = "send" /\ pos[w] <= Len(senders)
        /\ pos' = [pos EXCEPT ![w] = @ + 1]
        /\ UNCHANGED <<senders, pc, msg>>
    BY DEF SendOne, OrderInv, SpacedInv
  <1>2. /\ pos[w] \in 1..Len(senders) /\ pos'[w] = pos[w] + 1
        /\ \A v \in Workers \ {w} : pos'[v] = pos[v]
        /\ \A v \in Workers : msg[v] \in Message
        /\ \A j \in 1..Len(senders) : senders[j] \in Readers
    BY <1>1 DEF Types
  <1>3. PICK r \in Readers : r = senders[pos[w]]
    BY <1>2
  <1>4. /\ got[r] \in Seq(Message)
        /\ got'[r] = Append(got[r], msg[w])
        /\ \A q \in Readers \ {r} : got'[q] = got[q]
    BY <1>1, <1>3 DEF SendOne, Types
  <1>5. \A j \in 1..Len(senders) : senders[j] = r => j = pos[w]
    BY <1>1, <1>2, <1>3 DEF Types, SendersDistinct, IsInjective
  <1>6. NotIn(got[r], msg[w])
    BY <1>1, <1>2, <1>3 DEF SentInv, SentSoFar
  <1>7. OnceIn(got'[r], msg[w])
    BY <1>2, <1>4, <1>6, AppendOnce
  <1>8. ASSUME NEW q \in Readers, NEW m \in Message, m # msg[w] \/ q # r
        PROVE  /\ NotIn(got[q], m) => NotIn(got'[q], m)
               /\ OnceIn(got[q], m) => OnceIn(got'[q], m)
    <2>1. CASE q = r
      BY <1>2, <1>4, <1>8, <2>1, AppendOnce
    <2>2. CASE q # r
      BY <1>4, <2>2
    <2>3. QED
      BY <2>1, <2>2
  <1>9. BusyDistinct'
    BY <1>1 DEF SentInv, BusyDistinct
  <1>10. SentSoFar(w)'
    <2>1. ASSUME NEW j \in 1..Len(senders)
          PROVE  /\ j < pos[w] + 1 => OnceIn(got'[senders[j]], msg[w])
                 /\ j >= pos[w] + 1 => NotIn(got'[senders[j]], msg[w])
      <3>1. CASE j = pos[w]
        BY <1>2, <1>3, <1>7, <3>1
      <3>2. CASE j # pos[w]
        <4>1. senders[j] \in Readers /\ senders[j] # r
          BY <1>2, <1>5, <3>2
        <4>2. /\ j < pos[w] => OnceIn(got[senders[j]], msg[w])
              /\ j >= pos[w] => NotIn(got[senders[j]], msg[w])
          BY <1>1 DEF SentInv, SentSoFar
        <4>3. (j < pos[w] + 1 <=> j < pos[w]) /\ (j >= pos[w] + 1 => j >= pos[w])
          BY <1>2, <3>2
        <4>4. QED
          BY <1>4, <4>1, <4>2, <4>3
      <3>3. QED
        BY <3>1, <3>2
    <2>2. QED
      BY <1>1, <1>2, <2>1 DEF SentSoFar
  <1>11. ASSUME NEW v \in Workers \ {w}
         PROVE  SentSoFar(v)'
    <2>1. pc[v] # "idle" => msg[v] # msg[w]
      BY <1>1, <1>11 DEF SentInv, BusyDistinct
    <2>2. SentSoFar(v)
      BY DEF SentInv
    <2>3. pc[v] \in {"filter", "decode"} => \A q \in Readers : NotIn(got'[q], msg[v])
      BY <1>2, <1>8, <2>1, <2>2 DEF SentSoFar
    <2>4. ASSUME pc[v] = "send", NEW j \in 1..Len(senders)
          PROVE  /\ j < pos[v] => OnceIn(got'[senders[j]], msg[v])
                 /\ j >= pos[v] => NotIn(got'[senders[j]], msg[v])
      <3>1. msg[v] # msg[w] /\ senders[j] \in Readers
        BY <1>2, <2>1, <2>4
      <3>2. /\ j < pos[v] => OnceIn(got[senders[j]], msg[v])
            /\ j >= pos[v] => NotIn(got[senders[j]], msg[v])
        BY <2>2, <2>4 DEF SentSoFar
      <3>3. QED
        BY <1>2, <1>8, <3>1, <3>2
    <2>5. QED
      BY <1>1, <1>2, <1>11, <2>3, <2>4 DEF SentSoFar
  <1>12. QED
    BY <1>9, <1>10, <1>11 DEF SentInv

\* Every step keeps the copies right.
LEMMA SentStep == OrderInv /\ SentInv /\ [Next]_vars => SentInv'
  <1> SUFFICES ASSUME OrderInv, SentInv, [Next]_vars PROVE SentInv'
    OBVIOUS
  <1>1. /\ Types /\ senders \in Seq(Readers)
        /\ Types'
    BY SpacedStep DEF OrderInv, SpacedInv, Types
  <1>2. senders' \in Seq(Readers)
    BY <1>1 DEF Types
  <1>3. ASSUME UNCHANGED <<pc, pos, msg, got>>,
               senders' = senders \/ \A w \in Workers : pc[w] # "send"
        PROVE  SentInv'
    <2>1. CASE Workers = {}
      BY <2>1 DEF SentInv, BusyDistinct
    <2>2. CASE Workers # {}
      BY <1>2, <1>3, <2>2, SentSame
    <2>3. QED
      BY <2>1, <2>2
  <1>4. CASE UNCHANGED vars \/ Tick
    BY <1>3, <1>4 DEF vars, Tick, sending, history
  <1>5. CASE Shutdown
    BY <1>3, <1>5 DEF Shutdown, Idle, sending, history
  <1>6. ASSUME NEW r \in Readers, AddSender(r) \/ RemoveSender(r)
        PROVE  SentInv'
    BY <1>3, <1>6 DEF AddSender, RemoveSender, WriteLockFree, sending, history
  <1>7. ASSUME NEW w \in Workers, Filter(w)
        PROVE  SentInv'
    <2>1. /\ UNCHANGED <<msg, got, senders, pos>>
          /\ pc[w] = "filter" /\ pc'[w] \in {"idle", "decode"}
          /\ \A v \in Workers \ {w} : pc'[v] = pc[v]
      BY <1>1, <1>7 DEF Filter, Goto, Types
    <2>2. QED
      BY <1>2, <2>1, SentSame
  <1>8. ASSUME NEW w \in Workers, Decode(w)
        PROVE  SentInv'
    <2>1. /\ UNCHANGED <<msg, got, senders>>
          /\ pc[w] = "decode"
          /\ pc'[w] = "idle" \/ (pc'[w] = "send" /\ pos'[w] = 1)
          /\ \A v \in Workers \ {w} : pc'[v] = pc[v] /\ pos'[v] = pos[v]
      BY <1>1, <1>8 DEF Decode, Goto, Types, history
    <2>2. QED
      BY <1>2, <2>1, SentSame
  <1>9. ASSUME NEW w \in Workers, SendDone(w)
        PROVE  SentInv'
    <2>1. /\ UNCHANGED <<msg, got, senders, pos>>
          /\ pc'[w] = "idle"
          /\ \A v \in Workers \ {w} : pc'[v] = pc[v]
      BY <1>1, <1>9 DEF SendDone, Goto, Types, history
    <2>2. QED
      BY <1>2, <2>1, SentSame
  <1>10. QED
    BY <1>4, <1>5, <1>6, <1>7, <1>8, <1>9, SentHandleMsg, SentSendOne DEF Next, WorkerStep

\* Where a worker has been past every sender, its message is in each ring once.
LEMMA SentToAll ==
  ASSUME OrderInv, SentInv, NEW w \in Workers, SendDone(w), NEW r \in ToSet(senders)
  PROVE  Cardinality({i \in 1..Len(got[r]) : got[r][i] = msg[w]}) = 1
  <1>1. pc[w] = "send" /\ pos[w] > Len(senders) /\ senders \in Seq(Readers) /\ pos[w] \in Nat
    BY DEF SendDone, OrderInv, SpacedInv, Types
  <1>2. PICK j \in 1..Len(senders) : r = senders[j]
    BY <1>1 DEF ToSet
  <1>3. OnceIn(got[r], msg[w])
    BY <1>1, <1>2 DEF SentInv, SentSoFar
  <1>4. PICK i \in 1..Len(got[r]) : {k \in 1..Len(got[r]) : got[r][k] = msg[w]} = {i}
    BY <1>3 DEF OnceIn
  <1>5. QED
    BY <1>4, FS_Singleton

\* distribute_msg: the readers that are there when a message has been
\* distributed have got it once each, whatever other workers send, and whatever
\* readers are cloned and dropped, meanwhile.
THEOREM EveryReaderOnce == Spec => EveryReader
  <1>1. Init => SentInv
    BY DEF Init, SentInv, BusyDistinct, SentSoFar
  <1>2. OrderInv /\ SentInv /\ [Next]_vars =>
          [\A w \in Workers : SendDone(w) =>
             \A r \in ToSet(senders) :
               Cardinality({i \in 1..Len(got[r]) : got[r][i] = msg[w]}) = 1]_vars
    BY SentToAll
  <1>3. QED
    BY <1>1, <1>2, SentStep, OrderInit, OrderStep, PTL DEF Spec, EveryReader

=============================================================================
