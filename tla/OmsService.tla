----------------------------- MODULE OmsService -----------------------------
(***************************************************************************)
(* The basic OMS service of the examples, a client of the library with two *)
(* duties: a thread that reports the status of the service periodically,   *)
(* and a listener, in the background thread of its reader, that answers    *)
(* the requests that apply to the service.                                 *)
(***************************************************************************)
EXTENDS Integers, Sequences, FiniteSets

CONSTANTS Requests,    \* requests that others may publish, each once
          SystemIds,   \* for each request, its list of systems, as a set
          ServiceIds,  \* for each request, its list of services
          System,      \* the id of the system the service is part of
          Me,          \* the id of the service
          Interval,    \* report_interval, in units of time
          RunTime,     \* the dur of run_for
          MaxSend,     \* a write takes so long at most
          MaxLate,     \* a sleeping thread runs so late at most
          MaxRequests  \* bound on the requests that are published

ASSUME OmsAssumption ==
  /\ Interval \in Nat /\ RunTime \in Nat /\ MaxSend \in Nat /\ MaxLate \in Nat
  /\ MaxRequests \in Nat

VARIABLES now,         \* the time since run_for has started
          pc,          \* the thread that creates the service and runs run_for
          due,         \* when its write or its sleep is over
          run_time,    \* its local run_time
          reported,    \* when it began to send its last report
          inbox,       \* requests in the buffer of the reader
          handling,    \* the requests that on_msg is being called with
          answered,    \* the requests that have been answered
          unsent,      \* ... whose reply could not be written
          ignored      \* ... that do not apply to the service

requests == <<inbox, handling, answered, unsent, ignored>>
timing == <<now, due, run_time, reported>>
vars == <<pc, timing, requests>>

Never == -1

Init ==
  /\ now = 0 /\ due = 0 /\ run_time = 0
  /\ reported = Never
  /\ pc = "new"
  /\ inbox = <<>>
  /\ handling = {} /\ answered = {} /\ unsent = {} /\ ignored = {}

-----------------------------------------------------------------------------
(* Creation. *)

\* Service::new: the network and the writers and the reader are created, ...
Create ==
  /\ pc = "new"
  /\ pc' \in {"created", "failed"}
  /\ UNCHANGED <<timing, requests>>

\* ... and the listener is added; main then calls run_for.
AddListener ==
  /\ pc = "created"
  /\ pc' = "loop"
  /\ UNCHANGED <<timing, requests>>

-----------------------------------------------------------------------------
(* run_for. *)

SendStatus ==
  /\ pc = "loop"
  /\ run_time < RunTime
  /\ reported' = now
  /\ \E d \in 0..MaxSend : due' = now + d
  /\ pc' = "sending"
  /\ UNCHANGED <<now, run_time, requests>>

Smaller(a, b) == IF a < b THEN a ELSE b

SwappedSubtraction ==
  Smaller(IF run_time < RunTime THEN 0 ELSE run_time - RunTime, Interval)

AlwaysInterval == Interval

\* run_time is still the time at which the write was about to begin.
SleepTime == Smaller(IF RunTime < run_time THEN 0 ELSE RunTime - run_time, Interval)

Sleep ==
  /\ pc = "sending"
  /\ now = due
  /\ \E late \in 0..MaxLate : due' = now + SleepTime + late
  /\ pc' = "sleeping"
  /\ UNCHANGED <<now, run_time, reported, requests>>

Elapsed == now

Wake ==
  /\ pc = "sleeping"
  /\ now = due
  /\ run_time' = Elapsed
  /\ pc' = "loop"
  /\ UNCHANGED <<now, due, reported, requests>>

\* main returns, which ends the process.
Finish ==
  /\ pc = "loop"
  /\ run_time >= RunTime
  /\ pc' = "done"
  /\ UNCHANGED <<timing, requests>>

Tick ==
  /\ pc \in {"sending", "sleeping"}
  /\ now < due
  /\ now' = now + 1
  /\ UNCHANGED <<pc, due, run_time, reported, requests>>

-----------------------------------------------------------------------------
(* Requests. *)

Taken == handling \cup answered \cup unsent \cup ignored

\* Messages are kept from the creation of the reader on.
Publish(r) ==
  /\ pc \notin {"new", "failed", "done"}
  /\ Len(inbox) + Cardinality(Taken) < MaxRequests
  /\ r \notin {inbox[i] : i \in DOMAIN inbox} \cup Taken
  /\ inbox' = Append(inbox, r)
  /\ UNCHANGED <<timing, pc, handling, answered, unsent, ignored>>

Listening == pc \in {"loop", "sending", "sleeping"}

OnlyListed(r) == System \in SystemIds[r]

\* does_status_request_apply: of two lists that are both optional it asks
\* twice whether the first is empty.
SystemOK(r) == System \in SystemIds[r] \/ SystemIds[r] = {}

ServiceOK(r) == Me \in ServiceIds[r] \/ SystemIds[r] = {}

Applies(r) == SystemOK(r) /\ ServiceOK(r)

\* The background thread of the reader calls on_msg.
OnMsg ==
  /\ Listening
  /\ handling = {}
  /\ inbox # <<>>
  /\ LET r == Head(inbox)
     IN  /\ handling' = IF Applies(r) THEN {r} ELSE {}
         /\ ignored' = IF Applies(r) THEN ignored ELSE ignored \cup {r}
  /\ inbox' = Tail(inbox)
  /\ UNCHANGED <<timing, pc, answered, unsent>>

\* The reply is written; on_msg ignores an error of the write.
Reply ==
  /\ Listening
  /\ handling # {}
  /\ \/ answered' = answered \cup handling /\ UNCHANGED unsent
     \/ unsent' = unsent \cup handling /\ UNCHANGED answered
  /\ handling' = {}
  /\ UNCHANGED <<timing, pc, inbox, ignored>>

-----------------------------------------------------------------------------
Next ==
  \/ Create \/ AddListener
  \/ SendStatus \/ Sleep \/ Wake \/ Finish \/ Tick
  \/ OnMsg \/ Reply \/ \E r \in Requests : Publish(r)

Spec == Init /\ [][Next]_vars

-----------------------------------------------------------------------------
(* Properties. *)

\* Types.
TypeOK ==
  /\ now \in Nat /\ due \in Nat /\ run_time \in Nat
  /\ reported \in Nat \cup {Never}
  /\ pc \in {"new", "created", "failed", "loop", "sending", "sleeping", "done"}
  /\ inbox \in Seq(Requests)
  /\ handling \subseteq Requests /\ answered \subseteq Requests
  /\ unsent \subseteq Requests /\ ignored \subseteq Requests

\* "The SystemID list contains ours OR is omitted.  AND the ServiceID list
\* contains ours OR is omitted."
Concerns(r) ==
  /\ System \in SystemIds[r] \/ SystemIds[r] = {}
  /\ Me \in ServiceIds[r] \/ ServiceIds[r] = {}

\* The service answers the requests that concern it, and no others.
AnswersMatchContract ==
  /\ \A r \in handling \cup answered \cup unsent : Concerns(r)
  /\ \A r \in ignored : ~Concerns(r)

\* "Periodically sends a ServiceStatus message, at a configurable interval":
\* between two reports there is the interval, and beyond it at most the time
\* that one write and one late wake-up take, although the sleep is computed
\* from a time taken before the write.
ReportsPaced ==
  [][reported' # reported /\ reported # Never
       => /\ reported + Interval <= reported'
          /\ reported' <= reported + Interval + MaxSend + MaxLate]_vars

\* run_for runs for the time it is given, and is late by no more than one
\* write and one wake-up.
EndsInTime ==
  pc = "done" => /\ RunTime <= now
                 /\ now <= RunTime + MaxSend + MaxLate

=============================================================================
