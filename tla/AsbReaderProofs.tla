--------------------------- MODULE AsbReaderProofs ---------------------------
(***************************************************************************)
(* Proofs about AsbReader, for any number of clients, listeners and        *)
(* background threads, any capacity and any number of messages.            *)
(***************************************************************************)
EXTENDS AsbReader, SequenceTheorems, TLAPS

\* The mode is set only while a listener is in the vector.
ModeNeedsListener == cbActive => Active # {}

\* A listener in the vector has the mode set, or a call of add_listener is
\* still going to look at the mode.
ListenerNeedsMode ==
  Active # {} => cbActive \/ \E l \in Listeners : reg[l] \in {"check", "spawn"}

\* Only a thread that holds the mutex has listeners left to call.
CallsUnderMutex == \A th \in Threads : todo[th] # {} => thr[th] = "calling"

ModeInv == ModeNeedsListener /\ ListenerNeedsMode

DispatchInv == CallsUnderMutex /\ RemovedIsSilent

------------------------------------------------------------(* The ring. *)

\* The messages of s are numbered without a gap and the last one is n.
RunUpTo(s, n) == \A i \in 1..Len(s) : s[i] + Len(s) = n + i

\* Appending the next message to such a run gives one.
LEMMA AppendKeepsRun ==
  ASSUME NEW s \in Seq(Nat), NEW n \in Nat, RunUpTo(s, n)
  PROVE  RunUpTo(Append(s, n + 1), n + 1)
  <1> DEFINE b == Append(s, n + 1)
  <1>1. /\ Len(b) = Len(s) + 1
        /\ \A i \in 1..Len(s) : b[i] = s[i]
        /\ b[Len(s) + 1] = n + 1
    BY AppendProperties
  <1>2. Len(s) \in Nat /\ \A i \in 1..Len(s) : s[i] \in Nat
    BY LenProperties, ElementOfSeq
  <1> HIDE DEF b
  <1>3. ASSUME NEW i \in 1..Len(b)
        PROVE  b[i] + Len(b) = (n + 1) + i
    <2>1. CASE i \in 1..Len(s)
      <3>1. b[i] = s[i] /\ s[i] \in Nat
        BY <1>1, <1>2, <2>1
      <3>2. s[i] + Len(s) = n + i
        BY <2>1 DEF RunUpTo
      <3>3. i \in Nat /\ Len(s) \in Nat /\ Len(b) = Len(s) + 1
        BY <1>1, <1>2
      <3>4. QED
        BY <3>1, <3>2, <3>3
    <2>2. CASE i = Len(s) + 1
      BY <1>1, <1>2, <2>2
    <2>3. QED
      BY <1>1, <1>2, <2>1, <2>2
  <1>4. QED
    BY <1>3 DEF RunUpTo, b

\* So does taking the oldest message away.
LEMMA TailKeepsRun ==
  ASSUME NEW s \in Seq(Nat), NEW n \in Nat, RunUpTo(s, n), s # <<>>
  PROVE  RunUpTo(Tail(s), n)
  <1> DEFINE b == Tail(s)
  <1>1. /\ Len(b) = Len(s) - 1
        /\ \A i \in 1..Len(b) : b[i] = s[i + 1]
    BY HeadTailProperties
  <1>2. Len(s) \in Nat /\ \A i \in 1..Len(s) : s[i] \in Nat
    BY LenProperties, ElementOfSeq
  <1> HIDE DEF b
  <1>3. ASSUME NEW i \in 1..Len(b)
        PROVE  b[i] + Len(b) = n + i
    <2>1. i + 1 \in 1..Len(s) /\ b[i] = s[i + 1]
      BY <1>1, <1>2
    <2>2. s[i + 1] \in Nat /\ s[i + 1] + Len(s) = n + (i + 1)
      BY <1>2, <2>1 DEF RunUpTo
    <2>3. i \in Nat /\ Len(s) \in Nat /\ Len(b) = Len(s) - 1
      BY <1>1, <1>2
    <2>4. b[i] \in Nat /\ b[i] + Len(s) = n + (i + 1)
      BY <2>1, <2>2
    <2>5. QED
      BY <2>3, <2>4
  <1>4. QED
    BY <1>3 DEF RunUpTo, b

\* What the ring is at any time.
RingOK == /\ buffer \in Seq(Nat)
          /\ Len(buffer) <= Capacity
          /\ RunUpTo(buffer, sent)

\* Push keeps the ring a gap-free run within the capacity.
LEMMA PushKeepsRun ==
  ASSUME RingOK, sent \in Nat
  PROVE  /\ Push(sent + 1) \in Seq(Nat)
         /\ Len(Push(sent + 1)) <= Capacity
         /\ RunUpTo(Push(sent + 1), sent + 1)
  <1> USE CapacityAssumption
  <1>0. Len(buffer) \in Nat
    BY LenProperties DEF RingOK
  <1>1. CASE Len(buffer) < Capacity
    <2>1. Push(sent + 1) = Append(buffer, sent + 1)
      BY <1>1 DEF Push
    <2>2. /\ Append(buffer, sent + 1) \in Seq(Nat)
          /\ Len(Append(buffer, sent + 1)) = Len(buffer) + 1
      BY AppendProperties, sent + 1 \in Nat DEF RingOK
    <2>3. RunUpTo(Append(buffer, sent + 1), sent + 1)
      BY AppendKeepsRun DEF RingOK
    <2>4. Len(Push(sent + 1)) <= Capacity
      BY <1>0, <1>1, <2>1, <2>2
    <2>5. QED
      BY <2>1, <2>2, <2>3, <2>4
  <1>2. CASE ~(Len(buffer) < Capacity)
    <2>1. Len(buffer) = Capacity
      BY <1>0, <1>2 DEF RingOK
    <2>2. buffer # <<>>
      BY <2>1, EmptySeq
    <2>3. Push(sent + 1) = Append(Tail(buffer), sent + 1)
      BY <1>2 DEF Push
    <2>4. /\ Tail(buffer) \in Seq(Nat)
          /\ Len(Tail(buffer)) = Capacity - 1
      BY <2>1, <2>2, HeadTailProperties DEF RingOK
    <2>5. /\ Append(Tail(buffer), sent + 1) \in Seq(Nat)
          /\ Len(Append(Tail(buffer), sent + 1)) = Capacity
      BY <2>4, AppendProperties, sent + 1 \in Nat
    <2>6. RunUpTo(Append(Tail(buffer), sent + 1), sent + 1)
      BY <2>2, <2>4, AppendKeepsRun, TailKeepsRun DEF RingOK
    <2>7. Len(Push(sent + 1)) <= Capacity
      BY <2>3, <2>5
    <2>8. QED
      BY <2>3, <2>5, <2>6, <2>7
  <1>3. QED
    BY <1>1, <1>2

\* Taking the oldest message keeps it one too.
LEMMA TakeKeepsRun ==
  ASSUME RingOK, sent \in Nat, buffer # <<>>
  PROVE  /\ Tail(buffer) \in Seq(Nat)
         /\ Len(Tail(buffer)) <= Capacity
         /\ RunUpTo(Tail(buffer), sent)
  <1>1. Tail(buffer) \in Seq(Nat) /\ Len(Tail(buffer)) = Len(buffer) - 1
    BY HeadTailProperties DEF RingOK
  <1>2. Len(buffer) \in Nat
    BY LenProperties DEF RingOK
  <1>3. QED
    BY <1>1, <1>2, TailKeepsRun, CapacityAssumption DEF RingOK

-----------------------------------------------------------------------------
(* Types and the ring. *)

RingInv == TypeOK /\ RingKeepsNewest

\* The invariant says of the ring what the lemmas on Push and Tail assume.
LEMMA RingInvIsRingOK ==
  ASSUME RingInv
  PROVE  RingOK /\ sent \in Nat
  BY DEF RingInv, RingOK, TypeOK, RingKeepsNewest, RunUpTo

\* It holds of the empty ring of a new reader.
LEMMA RingInit == Init => RingInv
  <1> SUFFICES ASSUME Init PROVE RingInv
    OBVIOUS
  <1>1. buffer \in Seq(Nat) /\ Len(buffer) = 0
    BY EmptySeq DEF Init
  <1>2. TypeOK
    <2>1. Len(buffer) <= Capacity
      BY <1>1, CapacityAssumption
    <2>2. /\ reg \in [Listeners -> {"absent", "check", "spawn", "returned"}]
          /\ reads \in [Clients -> ReadOps \cup {"idle"}]
          /\ thr \in [Threads -> {"off", "check", "recv", "got", "calling"}]
          /\ todo \in [Threads -> SUBSET Listeners]
      BY DEF Init
    <2>3. QED
      BY <1>1, <2>1, <2>2 DEF Init, TypeOK
  <1>3. RingKeepsNewest
    BY <1>1 DEF RingKeepsNewest
  <1>4. QED
    BY <1>2, <1>3 DEF RingInv

\* Every operation keeps it: only Send, ReadTake and ThreadRecv touch the ring.
LEMMA RingStep == RingInv /\ [Next]_vars => RingInv'
  <1> SUFFICES ASSUME RingInv, [Next]_vars PROVE RingInv'
    OBVIOUS
  <1>0. TypeOK /\ RingOK /\ sent \in Nat
    BY RingInvIsRingOK DEF RingInv
  <1>a. ASSUME RunUpTo(buffer', sent') PROVE RingKeepsNewest'
    BY <1>a DEF RunUpTo, RingKeepsNewest
  <1>b. ASSUME UNCHANGED <<buffer, sent>> PROVE RingKeepsNewest'
    BY <1>b DEF RingInv, RingKeepsNewest
  <1>1. CASE Send
    <2>1. TypeOK'
      BY <1>0, <1>1, PushKeepsRun DEF TypeOK, Send
    <2>2. RunUpTo(buffer', sent')
      BY <1>0, <1>1, PushKeepsRun DEF Send
    <2>3. QED
      BY <1>a, <2>1, <2>2 DEF RingInv
  <1>2. CASE Shutdown \/ DropReader
    <2>1. TypeOK'
      BY <1>0, <1>2 DEF TypeOK, Shutdown, DropReader
    <2>2. QED
      BY <1>2, <1>b, <2>1 DEF RingInv, Shutdown, DropReader
  <1>3. CASE Expire
    <2>1. TypeOK'
      BY <1>0, <1>3 DEF TypeOK, Expire
    <2>2. QED
      BY <1>3, <1>b, <2>1 DEF RingInv, Expire
  <1>4. ASSUME NEW l \in Listeners, AddPush(l) \/ AddStep(l) \/ RemoveListener(l)
        PROVE  RingInv'
    <2>1. UNCHANGED <<sent, expired, buffer, connected, alive, reads, todo>>
      BY <1>4 DEF AddPush, AddStep, AddCheck, AddSpawn, RemoveListener
    <2>2. cbActive' \in BOOLEAN
      <3>1. CASE RemoveListener(l)
        BY <1>0, <3>1 DEF TypeOK, RemoveListener, ModeAfterRemoval
      <3>2. CASE AddPush(l) \/ AddStep(l)
        BY <1>0, <3>2 DEF TypeOK, AddPush, AddStep, AddCheck, AddSpawn
      <3>3. QED
        BY <1>4, <3>1, <3>2
    <2>3. reg' \in [Listeners -> {"absent", "check", "spawn", "returned"}]
      BY <1>0, <1>4 DEF TypeOK, AddPush, AddStep, AddCheck, AddSpawn,
                        RemoveListener
    <2>4. thr' \in [Threads -> {"off", "check", "recv", "got", "calling"}]
      BY <1>0, <1>4 DEF TypeOK, AddPush, AddStep, AddCheck, AddSpawn,
                        RemoveListener
    <2>5. TypeOK'
      BY <1>0, <2>1, <2>2, <2>3, <2>4 DEF TypeOK
    <2>6. QED
      BY <1>b, <2>1, <2>5 DEF RingInv
  <1>5. ASSUME NEW c \in Clients, NEW op \in ReadOps, ReadBegin(c, op)
        PROVE  RingInv'
    <2>1. TypeOK'
      BY <1>0, <1>5 DEF TypeOK, ReadBegin
    <2>2. QED
      BY <1>5, <1>b, <2>1 DEF RingInv, ReadBegin
  <1>6. ASSUME NEW c \in Clients, ReadTake(c)
        PROVE  RingInv'
    <2>1. TypeOK'
      BY <1>0, <1>6, TakeKeepsRun DEF TypeOK, ReadTake
    <2>2. RunUpTo(buffer', sent')
      BY <1>0, <1>6, TakeKeepsRun DEF ReadTake
    <2>3. QED
      BY <1>a, <2>1, <2>2 DEF RingInv
  <1>7. ASSUME NEW c \in Clients, ReadNothing(c) \/ ReadClosed(c)
        PROVE  RingInv'
    <2>1. TypeOK'
      BY <1>0, <1>7 DEF TypeOK, ReadNothing, ReadClosed
    <2>2. QED
      BY <1>7, <1>b, <2>1 DEF RingInv, ReadNothing, ReadClosed
  <1>8. ASSUME NEW th \in Threads, ThreadRecv(th)
        PROVE  RingInv'
    <2>1. TypeOK'
      BY <1>0, <1>8, TakeKeepsRun DEF TypeOK, ThreadRecv
    <2>2. RunUpTo(buffer', sent')
      BY <1>0, <1>8, TakeKeepsRun DEF ThreadRecv
    <2>3. QED
      BY <1>a, <2>1, <2>2 DEF RingInv
  <1>9. ASSUME NEW th \in Threads,
               \/ ThreadCheck(th) \/ ThreadNothing(th)
               \/ DispatchBegin(th) \/ DispatchEnd(th)
               \/ \E l \in Listeners : CallListener(th, l)
        PROVE  RingInv'
    <2>1. UNCHANGED <<sent, expired, buffer, connected, alive, cbActive, reg, reads>>
      BY <1>9 DEF ThreadCheck, ThreadNothing, DispatchBegin, DispatchEnd,
                  CallListener
    <2>2. thr' \in [Threads -> {"off", "check", "recv", "got", "calling"}]
      BY <1>0, <1>9 DEF TypeOK, ThreadCheck, ThreadNothing, DispatchBegin,
                        DispatchEnd, CallListener, AfterCheck, AfterNothing,
                        AfterDispatch
    <2>3. todo' \in [Threads -> SUBSET Listeners]
      BY <1>0, <1>9 DEF TypeOK, ThreadCheck, ThreadNothing, DispatchBegin,
                        DispatchEnd, CallListener, Active
    <2>4. TypeOK'
      BY <1>0, <2>1, <2>2, <2>3 DEF TypeOK
    <2>5. QED
      BY <1>b, <2>1, <2>4 DEF RingInv
  <1>10. CASE UNCHANGED vars
    <2>1. TypeOK'
      BY <1>0, <1>10 DEF TypeOK, vars
    <2>2. QED
      BY <1>10, <1>b, <2>1 DEF RingInv, vars
  <1>11. QED
    BY <1>1, <1>2, <1>3, <1>4, <1>5, <1>6, <1>7, <1>8, <1>9, <1>10
       DEF Next, ReadStep, ThreadStep

\* In every reachable state the variables have their types, the ring is
\* within its capacity, and it holds the latest run of messages without a gap.
THEOREM RingCorrect == Spec => [](TypeOK /\ RingKeepsNewest)
  <1>1. Spec => []RingInv
    BY RingInit, RingStep, PTL DEF Spec
  <1>2. RingInv => TypeOK /\ RingKeepsNewest
    BY DEF RingInv
  <1>3. QED
    BY <1>1, <1>2, PTL

\* Type correctness alone, for every number of clients, listeners and threads.
THEOREM TypeCorrect == Spec => []TypeOK
  BY RingCorrect, PTL

-----------------------------------------------------------------------------
(* Callback mode. *)

\* A new reader is in polling mode, without listeners.
LEMMA ModeInit == Init => ModeInv /\ NoDeafReader
  BY DEF Init, ModeInv, ModeNeedsListener, ListenerNeedsMode, Active, NoDeafReader

\* Steps that leave the mode and the listeners alone.
LEMMA ModeStutter ==
  ASSUME ModeInv, UNCHANGED <<cbActive, reg>>
  PROVE  ModeInv'
  BY DEF ModeInv, ModeNeedsListener, ListenerNeedsMode, Active

\* The steps of add_listener and remove_listener keep the mode's invariant.
LEMMA ModeStep == TypeOK /\ ModeInv /\ [Next]_vars => ModeInv'
  <1> SUFFICES ASSUME TypeOK, ModeInv, [Next]_vars PROVE ModeInv'
    OBVIOUS
  <1>0. DOMAIN reg = Listeners /\ DOMAIN reg' = Listeners
    BY DEF TypeOK, Next, vars, Send, Shutdown, Expire, DropReader, AddPush,
           AddStep, AddCheck, AddSpawn, RemoveListener, ReadStep, ReadTake,
           ReadNothing, ReadClosed, ReadBegin, ThreadStep, ThreadCheck,
           ThreadRecv, ThreadNothing, DispatchBegin, DispatchEnd, CallListener
  <1>1. ASSUME NEW l \in Listeners, AddPush(l)
        PROVE  ModeInv'
    <2>1. /\ cbActive' = cbActive
          /\ reg'[l] = "check"
          /\ \A k \in Listeners \ {l} : reg'[k] = reg[k]
      BY <1>1 DEF TypeOK, AddPush
    <2>2. QED
      BY <2>1 DEF ModeInv, ModeNeedsListener, ListenerNeedsMode, Active
  <1>2. ASSUME NEW l \in Listeners, AddCheck(l)
        PROVE  ModeInv'
    <2>1. /\ cbActive' = cbActive
          /\ reg'[l] = IF cbActive THEN "returned" ELSE "spawn"
          /\ \A k \in Listeners \ {l} : reg'[k] = reg[k]
      BY <1>2 DEF TypeOK, AddCheck
    <2>2. QED
      BY <2>1 DEF ModeInv, ModeNeedsListener, ListenerNeedsMode, Active
  <1>3. ASSUME NEW l \in Listeners, AddSpawn(l)
        PROVE  ModeInv'
    <2>1. cbActive' = TRUE /\ reg'[l] = "returned"
      BY <1>3 DEF TypeOK, AddSpawn
    <2>2. QED
      BY <2>1 DEF ModeInv, ModeNeedsListener, ListenerNeedsMode, Active
  <1>4. ASSUME NEW l \in Listeners, RemoveListener(l)
        PROVE  ModeInv'
    <2>1. /\ reg[l] = "returned"
          /\ cbActive' = (cbActive /\ Active # {l})
          /\ Active' = Active \ {l}
          /\ \A k \in Listeners : reg[k] \in {"check", "spawn"} => reg'[k] = reg[k]
      BY <1>4 DEF TypeOK, RemoveListener, ModeAfterRemoval, Active
    <2>2. l \in Active
      BY <2>1 DEF Active
    <2>3. ModeNeedsListener'
      BY <2>1, <2>2 DEF ModeNeedsListener
    <2>4. ListenerNeedsMode'
      BY <2>1, <2>2 DEF ModeInv, ListenerNeedsMode
    <2>5. QED
      BY <2>3, <2>4 DEF ModeInv
  <1>5. CASE Send \/ Shutdown \/ Expire \/ DropReader \/ UNCHANGED vars
    BY <1>5, ModeStutter DEF Send, Shutdown, Expire, DropReader, vars
  <1>6. ASSUME NEW c \in Clients, ReadStep(c) \/ \E op \in ReadOps : ReadBegin(c, op)
        PROVE  ModeInv'
    BY <1>6, ModeStutter DEF ReadStep, ReadTake, ReadNothing, ReadClosed, ReadBegin
  <1>7. ASSUME NEW th \in Threads, ThreadStep(th)
        PROVE  ModeInv'
    BY <1>7, ModeStutter DEF ThreadStep, ThreadCheck, ThreadRecv, ThreadNothing,
                             DispatchBegin, DispatchEnd, CallListener
  <1>8. QED
    BY <1>1, <1>2, <1>3, <1>4, <1>5, <1>6, <1>7 DEF Next, AddStep

\* However add_listener and remove_listener interleave, the flag that refuses
\* reads agrees with the listeners vector once no call is in progress.
THEOREM ModeCorrect == Spec => []ModeTracksListeners
  <1>1. TypeOK /\ [Next]_vars /\ ModeInv => ModeInv'
    BY ModeStep
  <1>2. Init => ModeInv
    BY ModeInit
  <1>3. ModeInv => ModeTracksListeners
    BY DEF ModeInv, ModeNeedsListener, ListenerNeedsMode, ModeTracksListeners, Active
  <1>4. QED
    BY <1>1, <1>2, <1>3, RingCorrect, PTL DEF Spec

\* No step leaves a connected reader in callback mode without a thread: a
\* thread stops only when it sees the mode off or the sender gone.
LEMMA DeafStep == TypeOK /\ NoDeafReader /\ [Next]_vars => NoDeafReader'
  <1> SUFFICES ASSUME TypeOK, NoDeafReader, [Next]_vars, cbActive', connected'
               PROVE  \E th \in Threads : thr'[th] # "off"
    BY DEF NoDeafReader
  <1> DEFINE Running == \E th \in Threads : thr[th] # "off"
  <1>1. CASE Send \/ Shutdown \/ Expire \/ DropReader \/ UNCHANGED vars
    BY <1>1 DEF NoDeafReader, Send, Shutdown, Expire, DropReader, vars
  <1>2. ASSUME NEW l \in Listeners, AddPush(l) \/ AddCheck(l) \/ RemoveListener(l)
        PROVE  \E th \in Threads : thr'[th] # "off"
    BY <1>2 DEF NoDeafReader, AddPush, AddCheck, RemoveListener, ModeAfterRemoval
  <1>3. ASSUME NEW l \in Listeners, AddSpawn(l)
        PROVE  \E th \in Threads : thr'[th] # "off"
    BY <1>3 DEF TypeOK, AddSpawn
  <1>4. ASSUME NEW c \in Clients, ReadStep(c) \/ \E op \in ReadOps : ReadBegin(c, op)
        PROVE  \E th \in Threads : thr'[th] # "off"
    BY <1>4 DEF NoDeafReader, ReadStep, ReadTake, ReadNothing, ReadClosed, ReadBegin
  <1>5. ASSUME NEW th \in Threads, ThreadStep(th)
        PROVE  \E t \in Threads : thr'[t] # "off"
    <2>1. cbActive /\ connected
      BY <1>5 DEF ThreadStep, ThreadCheck, ThreadRecv, ThreadNothing,
                  DispatchBegin, DispatchEnd, CallListener
    <2>2. thr'[th] # "off" \/ thr' = thr
      BY <1>5, <2>1 DEF TypeOK, ThreadStep, ThreadCheck, ThreadRecv, ThreadNothing,
                        DispatchBegin, DispatchEnd, CallListener, AfterCheck,
                        AfterNothing, AfterDispatch
    <2>3. QED
      BY <2>1, <2>2 DEF NoDeafReader
  <1>6. QED
    BY <1>1, <1>2, <1>3, <1>4, <1>5 DEF Next, AddStep

\* A reader in callback mode whose sender lives has a background thread.
THEOREM NeverDeaf == Spec => []NoDeafReader
  <1>1. Init => NoDeafReader
    BY ModeInit
  <1>2. QED
    BY <1>1, DeafStep, RingCorrect, PTL DEF Spec

-----------------------------------------------------------------------------
(* Calling listeners. *)

\* A listener leaves the vector only while no thread holds the mutex.
LEMMA DispatchStep == TypeOK /\ DispatchInv /\ [Next]_vars => DispatchInv'
  <1> SUFFICES ASSUME TypeOK, DispatchInv, [Next]_vars PROVE DispatchInv'
    OBVIOUS
  <1> USE DEF DispatchInv, CallsUnderMutex, RemovedIsSilent
  <1>1. CASE Send \/ Shutdown \/ Expire \/ DropReader \/ UNCHANGED vars
    BY <1>1 DEF Send, Shutdown, Expire, DropReader, vars, Active
  <1>2. ASSUME NEW l \in Listeners, AddPush(l) \/ AddCheck(l) \/ AddSpawn(l)
        PROVE  DispatchInv'
    <2>1. todo' = todo /\ Active \subseteq Active'
      BY <1>2 DEF TypeOK, AddPush, AddCheck, AddSpawn, Active
    <2>2. \A th \in Threads : thr[th] = "calling" => thr'[th] = "calling"
      BY <1>2 DEF TypeOK, AddPush, AddCheck, AddSpawn
    <2>3. QED
      BY <2>1, <2>2
  <1>3. ASSUME NEW l \in Listeners, RemoveListener(l)
        PROVE  DispatchInv'
    <2>1. \A th \in Threads : todo[th] = {}
      BY <1>3 DEF RemoveListener, LockFree
    <2>2. QED
      BY <1>3, <2>1 DEF RemoveListener
  <1>4. ASSUME NEW c \in Clients, ReadStep(c) \/ \E op \in ReadOps : ReadBegin(c, op)
        PROVE  DispatchInv'
    BY <1>4 DEF ReadStep, ReadTake, ReadNothing, ReadClosed, ReadBegin, Active
  <1>5. ASSUME NEW th \in Threads, ThreadCheck(th) \/ ThreadRecv(th) \/ ThreadNothing(th)
        PROVE  DispatchInv'
    <2>1. todo' = todo /\ Active' = Active /\ thr[th] # "calling"
      BY <1>5 DEF ThreadCheck, ThreadRecv, ThreadNothing, Active
    <2>2. \A t \in Threads \ {th} : thr'[t] = thr[t]
      BY <1>5 DEF TypeOK, ThreadCheck, ThreadRecv, ThreadNothing
    <2>3. QED
      BY <2>1, <2>2
  <1>6. ASSUME NEW th \in Threads, DispatchBegin(th)
        PROVE  DispatchInv'
    <2>1. Active' = Active /\ thr'[th] = "calling" /\ todo'[th] = Active
      BY <1>6 DEF TypeOK, DispatchBegin, Active
    <2>2. \A t \in Threads \ {th} : thr'[t] = thr[t] /\ todo'[t] = todo[t]
      BY <1>6 DEF TypeOK, DispatchBegin
    <2>3. QED
      BY <2>1, <2>2
  <1>7. ASSUME NEW th \in Threads, NEW l \in Listeners, CallListener(th, l)
        PROVE  DispatchInv'
    <2>1. Active' = Active /\ thr' = thr /\ todo'[th] = todo[th] \ {l}
      BY <1>7 DEF TypeOK, CallListener, Active
    <2>2. \A t \in Threads \ {th} : todo'[t] = todo[t]
      BY <1>7 DEF TypeOK, CallListener
    <2>3. QED
      BY <2>1, <2>2
  <1>8. ASSUME NEW th \in Threads, DispatchEnd(th)
        PROVE  DispatchInv'
    <2>1. Active' = Active /\ todo' = todo /\ todo[th] = {}
      BY <1>8 DEF DispatchEnd, Active
    <2>2. \A t \in Threads \ {th} : thr'[t] = thr[t]
      BY <1>8 DEF TypeOK, DispatchEnd
    <2>3. QED
      BY <2>1, <2>2
  <1>9. QED
    BY <1>1, <1>2, <1>3, <1>4, <1>5, <1>6, <1>7, <1>8
       DEF Next, AddStep, ThreadStep

\* Once remove_listener has returned, no background thread goes on to call
\* the listener, because both hold the mutex of the listeners vector.
THEOREM RemovalSilences == Spec => []RemovedIsSilent
  <1>1. Init => DispatchInv
    BY DEF Init, DispatchInv, CallsUnderMutex, RemovedIsSilent
  <1>2. DispatchInv => RemovedIsSilent
    BY DEF DispatchInv
  <1>3. QED
    BY <1>1, <1>2, DispatchStep, RingCorrect, PTL DEF Spec

=============================================================================
