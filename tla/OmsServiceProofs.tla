-------------------------- MODULE OmsServiceProofs --------------------------
(***************************************************************************)
(* Proofs about OmsService, for every interval, run time and requests.     *)
(***************************************************************************)
EXTENDS OmsService, SequenceTheorems, TLAPS

USE DEF requests, timing

-----------------------------------------------------------------------------
(* Types. *)

\* Every step keeps the types.
LEMMA TypeStep == TypeOK /\ [Next]_vars => TypeOK'
  <1> SUFFICES ASSUME TypeOK, [Next]_vars PROVE TypeOK'
    OBVIOUS
  <1> USE OmsAssumption DEF TypeOK
  <1>1. CASE Create \/ AddListener \/ SendStatus \/ Wake \/ Finish \/ Tick
    BY <1>1 DEF Create, AddListener, SendStatus, Wake, Elapsed, Finish, Tick
  <1>2. CASE Sleep
    <2>1. SleepTime \in Nat
      BY DEF SleepTime, Smaller
    <2>2. QED
      BY <1>2, <2>1 DEF Sleep
  <1>3. CASE OnMsg
    <2>1. Head(inbox) \in Requests /\ Tail(inbox) \in Seq(Requests)
      BY <1>3, HeadTailProperties DEF OnMsg
    <2>2. QED
      BY <1>3, <2>1 DEF OnMsg
  <1>4. CASE Reply
    BY <1>4 DEF Reply
  <1>5. ASSUME NEW r \in Requests, Publish(r)
        PROVE  TypeOK'
    BY <1>5, AppendProperties DEF Publish
  <1>6. CASE UNCHANGED vars
    BY <1>6 DEF vars
  <1>7. QED
    BY <1>1, <1>2, <1>3, <1>4, <1>5, <1>6 DEF Next

\* Type correctness.
THEOREM TypeCorrect == Spec => []TypeOK
  <1>1. Init => TypeOK
    BY EmptySeq DEF Init, TypeOK, Never
  <1>2. QED
    BY <1>1, TypeStep, PTL DEF Spec

-----------------------------------------------------------------------------
(* The requests. *)

\* If requests give both lists or none, those that concern the service are
\* answered and those that do not are ignored.
THEOREM AnswersRight ==
  ASSUME \A r \in Requests : SystemIds[r] = {} <=> ServiceIds[r] = {}
  PROVE  Spec => []AnswersMatchContract
  <1>1. ASSUME NEW r \in Requests
        PROVE  Applies(r) <=> Concerns(r)
    BY DEF Applies, SystemOK, ServiceOK, Concerns
  <1>2. Init => AnswersMatchContract
    BY DEF Init, AnswersMatchContract
  <1>3. TypeOK /\ AnswersMatchContract /\ [Next]_vars => AnswersMatchContract'
    <2> SUFFICES ASSUME TypeOK, AnswersMatchContract, [Next]_vars
                 PROVE  AnswersMatchContract'
      OBVIOUS
    <2>1. CASE OnMsg
      <3>1. Head(inbox) \in Requests
        BY <2>1, HeadTailProperties DEF OnMsg, TypeOK
      <3>2. QED
        BY <1>1, <2>1, <3>1 DEF OnMsg, AnswersMatchContract
    <2>2. CASE Reply
      BY <2>2 DEF Reply, AnswersMatchContract
    <2>3. CASE UNCHANGED <<handling, answered, unsent, ignored>>
      BY <2>3 DEF AnswersMatchContract, Concerns
    <2>4. QED
      BY <2>1, <2>2, <2>3 DEF Next, vars, Create, AddListener, SendStatus, Sleep, Wake,
                              Finish, Tick, Publish
  <1>4. Init => TypeOK
    BY EmptySeq DEF Init, TypeOK, Never
  <1>5. QED
    BY <1>2, <1>3, <1>4, TypeStep, PTL DEF Spec

-----------------------------------------------------------------------------
(* The periods. *)

\* Where the time is in each phase of the loop.
PaceInv ==
  /\ pc \in {"new", "created", "failed", "loop", "done"} => run_time = now
  /\ pc \in {"new", "created", "failed"} => now = 0 /\ reported = Never
  /\ now <= RunTime + MaxSend + MaxLate
  /\ pc \in {"sending", "sleeping"} =>
       run_time < RunTime /\ reported = run_time /\ run_time <= now /\ now <= due
  /\ pc = "sending" => due <= run_time + MaxSend
  /\ pc = "sleeping" =>
       /\ run_time + SleepTime <= due
       /\ due <= run_time + MaxSend + SleepTime + MaxLate
  /\ pc = "loop" /\ reported # Never =>
       /\ run_time < RunTime => reported + Interval <= now
       /\ now <= reported + Interval + MaxSend + MaxLate
  /\ pc = "done" => RunTime <= now

\* Never more than the interval, nor than what is left.
LEMMA SleepBounds ==
  ASSUME TypeOK, run_time < RunTime
  PROVE  /\ SleepTime \in Nat
         /\ SleepTime <= Interval /\ run_time + SleepTime <= RunTime
         /\ SleepTime = Interval \/ run_time + SleepTime = RunTime
  BY OmsAssumption DEF SleepTime, Smaller, TypeOK

\* Every step keeps PaceInv.
LEMMA PaceStep == TypeOK /\ PaceInv /\ [Next]_vars => PaceInv'
  <1> SUFFICES ASSUME TypeOK, PaceInv, [Next]_vars PROVE PaceInv'
    OBVIOUS
  <1> USE OmsAssumption DEF TypeOK, PaceInv
  <1>1. CASE Create
    BY <1>1 DEF Create
  <1>2. CASE AddListener
    BY <1>2 DEF AddListener
  <1>3. CASE SendStatus
    BY <1>3 DEF SendStatus
  <1>4. CASE Sleep
    <2>1. run_time < RunTime /\ now = due
      BY <1>4 DEF Sleep
    <2>2. /\ SleepTime \in Nat
          /\ SleepTime' = SleepTime
      BY <1>4, <2>1, SleepBounds DEF Sleep, SleepTime
    <2>3. QED
      BY <1>4, <2>1, <2>2 DEF Sleep
  <1>5. CASE Wake
    <2>1. run_time < RunTime /\ now = due
      BY <1>5 DEF Wake
    <2>2. QED
      BY <1>5, <2>1, SleepBounds DEF Wake, Elapsed, Never
  <1>6. CASE Finish
    BY <1>6 DEF Finish
  <1>7. CASE Tick
    <2>1. SleepTime' = SleepTime
      BY <1>7 DEF Tick, SleepTime
    <2>2. run_time < RunTime
      BY <1>7 DEF Tick
    <2>3. now' <= RunTime + MaxSend + MaxLate
      BY <1>7, <2>2, SleepBounds DEF Tick
    <2>4. QED
      BY <1>7, <2>1, <2>3 DEF Tick
  <1>8. CASE UNCHANGED <<timing, pc>>
    BY <1>8 DEF SleepTime
  <1>9. QED
    BY <1>1, <1>2, <1>3, <1>4, <1>5, <1>6, <1>7, <1>8
       DEF Next, vars, OnMsg, Reply, Publish

\* The initial state satisfies the invariants.
LEMMA PaceInit == Init => TypeOK /\ PaceInv
  BY OmsAssumption, EmptySeq DEF Init, TypeOK, PaceInv, Never

\* The service ends in time.
THEOREM Ends == Spec => []EndsInTime
  <1>1. PaceInv => EndsInTime
    BY DEF PaceInv, EndsInTime
  <1>2. QED
    BY <1>1, PaceInit, TypeStep, PaceStep, PTL DEF Spec

\* Reports are the interval apart, and little more.
THEOREM Paced == Spec => ReportsPaced
  <1>1. TypeOK /\ PaceInv /\ [Next]_vars
          => [reported' # reported /\ reported # Never
                => /\ reported + Interval <= reported'
                   /\ reported' <= reported + Interval + MaxSend + MaxLate]_vars
    <2> SUFFICES ASSUME TypeOK, PaceInv, [Next]_vars, reported' # reported, reported # Never
                 PROVE  /\ reported + Interval <= reported'
                        /\ reported' <= reported + Interval + MaxSend + MaxLate
      OBVIOUS
    <2>1. SendStatus
      BY DEF Next, vars, Create, AddListener, Sleep, Wake, Finish, Tick, OnMsg, Reply, Publish
    <2>2. QED
      BY <2>1 DEF SendStatus, PaceInv
  <1>2. QED
    BY <1>1, PaceInit, TypeStep, PaceStep, PTL DEF Spec, ReportsPaced

=============================================================================
