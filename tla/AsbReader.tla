------------------------------ MODULE AsbReader ------------------------------
(***************************************************************************)
(* One AsbReader (src/networks.rs): the ring its ringmaster feeds, the     *)
(* client threads that call read, read_timeout, try_read, add_listener and *)
(* remove_listener through a shared reference, and the background threads  *)
(* that add_listener starts and that hand messages to the listeners.       *)
(*                                                                         *)
(* Messages are numbered in the order they are pushed.  Their time stamps  *)
(* grow with the numbers (RingMaster shows that one distributing worker    *)
(* pushes in the order of arrival), so at any time the messages older than *)
(* the reader's expiration are 1..expired for some expired, and that is    *)
(* all this module keeps of time.                                          *)
(***************************************************************************)
EXTENDS Naturals, Sequences

CONSTANTS Clients,        \* threads that call the polling reads
          Listeners,      \* listener ids
          Threads,        \* background threads that may be alive at once
          Capacity,       \* size of the ring, max(qos.buffer, 1)
          HasExpiration,  \* whether the reader's QoS sets an expiration
          MaxSent         \* bound: messages pushed in a behaviour

ASSUME CapacityAssumption == Capacity \in Nat \ {0}
ASSUME BoundAssumption == MaxSent \in Nat
ASSUME ExpirationAssumption == HasExpiration \in BOOLEAN

VARIABLES sent,       \* number of messages pushed into the ring so far
          expired,    \* messages 1..expired are older than the expiration
          buffer,     \* the ring: numbers of the messages in it, oldest first
          connected,  \* the ringmaster still holds the ring's sender
          alive,      \* the AsbReader has not been dropped
          cbActive,   \* callbacks_active
          reg,        \* for each listener id, how far its add_listener is
          reads,      \* for each client, the read it is in, past the check
          thr,        \* for each background thread, its place in the loop
          todo        \* for each background thread, listeners left to call

vars == <<sent, expired, buffer, connected, alive, cbActive, reg, reads, thr,
          todo>>

(***************************************************************************)
(* The entries of the listeners vector: everything pushed and not removed. *)
(* A background thread holds the vector's mutex while it calls them.       *)
(***************************************************************************)
Active == {l \in Listeners : reg[l] # "absent"}

NoMutex == TRUE

LockFree == \A th \in Threads : thr[th] # "calling"

IsExpired(m) == HasExpiration /\ m <= expired

ReadOps == {"read", "readTimeout", "tryRead"}

-----------------------------------------------------------------------------
Init ==
  /\ sent = 0
  /\ expired = 0
  /\ buffer = <<>>
  /\ connected = TRUE
  /\ alive = TRUE
  /\ cbActive = FALSE
  /\ reg = [l \in Listeners |-> "absent"]
  /\ reads = [c \in Clients |-> "idle"]
  /\ thr = [th \in Threads |-> "off"]
  /\ todo = [th \in Threads |-> {}]

-----------------------------------------------------------------------------
(* The ringmaster's side of the ring. *)

PushKeepingOldest(m) == IF Len(buffer) < Capacity THEN Append(buffer, m)
                                                  ELSE buffer

PushUnbounded(m) == Append(buffer, m)

\* RingSender::send on a full ring overwrites the oldest message.
Push(m) == IF Len(buffer) < Capacity THEN Append(buffer, m)
                                     ELSE Append(Tail(buffer), m)

Send ==
  /\ connected
  /\ sent < MaxSent
  /\ sent' = sent + 1
  /\ buffer' = Push(sent + 1)
  /\ UNCHANGED <<expired, connected, alive, cbActive, reg, reads, thr, todo>>

\* ReaderRingMaster::shutdown clears the senders; the client is not involved.
Shutdown ==
  /\ connected
  /\ connected' = FALSE
  /\ UNCHANGED <<sent, expired, buffer, alive, cbActive, reg, reads, thr, todo>>

\* Time passes: the oldest message not yet expired becomes too old.
Expire ==
  /\ HasExpiration
  /\ expired < sent
  /\ expired' = expired + 1
  /\ UNCHANGED <<sent, buffer, connected, alive, cbActive, reg, reads, thr, todo>>

-----------------------------------------------------------------------------
(* add_listener and remove_listener. *)

\* The listener is pushed under the mutex, which is then released.
AddPush(l) ==
  /\ alive
  /\ reg[l] = "absent"
  /\ LockFree
  /\ reg' = [reg EXCEPT ![l] = "check"]
  /\ UNCHANGED <<sent, expired, buffer, connected, alive, cbActive, reads, thr, todo>>

\* Outside the mutex: is there a background thread already?
AddCheck(l) ==
  /\ reg[l] = "check"
  /\ reg' = [reg EXCEPT ![l] = IF cbActive THEN "returned" ELSE "spawn"]
  /\ UNCHANGED <<sent, expired, buffer, connected, alive, cbActive, reads, thr, todo>>

\* There was none: set callback mode, start one, return the id.
AddSpawn(l) ==
  /\ reg[l] = "spawn"
  /\ cbActive' = TRUE
  /\ \E th \in Threads : /\ thr[th] = "off"
                         /\ thr' = [thr EXCEPT ![th] = "check"]
  /\ reg' = [reg EXCEPT ![l] = "returned"]
  /\ UNCHANGED <<sent, expired, buffer, connected, alive, reads, todo>>

ModeKept(l) == cbActive

\* The mode after l has left the vector.
ModeAfterRemoval(l) == cbActive /\ Active # {l}

\* Only an id that add_listener has returned can be removed.  The mode is
\* cleared before the mutex is released.
RemoveListener(l) ==
  /\ alive
  /\ reg[l] = "returned"
  /\ LockFree
  /\ reg' = [reg EXCEPT ![l] = "absent"]
  /\ cbActive' = ModeAfterRemoval(l)
  /\ UNCHANGED <<sent, expired, buffer, connected, alive, reads, thr, todo>>

-----------------------------------------------------------------------------
(* The polling reads.  In callback mode each returns an Illegal error and   *)
(* changes nothing.                                                         *)

ReadBegin(c, op) ==
  /\ alive
  /\ reads[c] = "idle"
  /\ ~cbActive
  /\ reads' = [reads EXCEPT ![c] = op]
  /\ UNCHANGED <<sent, expired, buffer, connected, alive, cbActive, reg, thr, todo>>

\* A message is received: returned, or discarded and the loop goes on.
ReadTake(c) ==
  /\ reads[c] # "idle"
  /\ buffer # <<>>
  /\ buffer' = Tail(buffer)
  /\ reads' = [reads EXCEPT ![c] = IF IsExpired(Head(buffer)) THEN @ ELSE "idle"]
  /\ UNCHANGED <<sent, expired, connected, alive, cbActive, reg, thr, todo>>

\* Ok(None).  With an expiration, read_timeout also gives up when its time
\* ran out while it was discarding, or was zero to begin with.
ReadNothing(c) ==
  /\ \/ reads[c] = "tryRead" /\ buffer = <<>> /\ connected
     \/ reads[c] = "readTimeout" /\ (HasExpiration \/ (buffer = <<>> /\ connected))
  /\ reads' = [reads EXCEPT ![c] = "idle"]
  /\ UNCHANGED <<sent, expired, buffer, connected, alive, cbActive, reg, thr, todo>>

\* An empty ring without a sender: "Reader closed unexpectedly".
ReadClosed(c) ==
  /\ reads[c] # "idle"
  /\ buffer = <<>>
  /\ ~connected
  /\ reads' = [reads EXCEPT ![c] = "idle"]
  /\ UNCHANGED <<sent, expired, buffer, connected, alive, cbActive, reg, thr, todo>>

-----------------------------------------------------------------------------
(* The background thread. *)

\* The head of the loop: stop once the reader has left callback mode.
AfterCheck == IF cbActive THEN "recv" ELSE "off"

ThreadCheck(th) ==
  /\ thr[th] = "check"
  /\ thr' = [thr EXCEPT ![th] = AfterCheck]
  /\ UNCHANGED <<sent, expired, buffer, connected, alive, cbActive, reg, reads, todo>>

ThreadRecv(th) ==
  /\ thr[th] = "recv"
  /\ buffer # <<>>
  /\ buffer' = Tail(buffer)
  /\ thr' = [thr EXCEPT ![th] = IF IsExpired(Head(buffer)) THEN "check" ELSE "got"]
  /\ UNCHANGED <<sent, expired, connected, alive, cbActive, reg, reads, todo>>

StopOnTimeout == "off"

IgnoreDisconnect == "check"

\* recv_timeout found nothing: time-out, or the sender is gone.
AfterNothing == IF connected THEN "check" ELSE "off"

ThreadNothing(th) ==
  /\ thr[th] = "recv"
  /\ buffer = <<>>
  /\ thr' = [thr EXCEPT ![th] = AfterNothing]
  /\ UNCHANGED <<sent, expired, buffer, connected, alive, cbActive, reg, reads, todo>>

DispatchBegin(th) ==
  /\ thr[th] = "got"
  /\ LockFree
  /\ thr' = [thr EXCEPT ![th] = "calling"]
  /\ todo' = [todo EXCEPT ![th] = Active]
  /\ UNCHANGED <<sent, expired, buffer, connected, alive, cbActive, reg, reads>>

\* on_msg runs, and is assumed to return, with the mutex held.
CallListener(th, l) ==
  /\ l \in todo[th]
  /\ todo' = [todo EXCEPT ![th] = @ \ {l}]
  /\ UNCHANGED <<sent, expired, buffer, connected, alive, cbActive, reg, reads, thr>>

StopAfterDispatch == "off"

AfterDispatch == "check"

DispatchEnd(th) ==
  /\ thr[th] = "calling"
  /\ todo[th] = {}
  /\ thr' = [thr EXCEPT ![th] = AfterDispatch]
  /\ UNCHANGED <<sent, expired, buffer, connected, alive, cbActive, reg, reads, todo>>

ThreadStep(th) ==
  \/ ThreadCheck(th) \/ ThreadRecv(th) \/ ThreadNothing(th)
  \/ DispatchBegin(th) \/ DispatchEnd(th)
  \/ \E l \in Listeners : CallListener(th, l)

-----------------------------------------------------------------------------
\* Dropping needs the last reference, so no call is in progress.  The sender
\* leaves the ringmaster; a background thread keeps its receiver.
DropReader ==
  /\ alive
  /\ \A c \in Clients : reads[c] = "idle"
  /\ \A l \in Listeners : reg[l] \in {"absent", "returned"}
  /\ alive' = FALSE
  /\ connected' = FALSE
  /\ UNCHANGED <<sent, expired, buffer, cbActive, reg, reads, thr, todo>>

AddStep(l) == AddCheck(l) \/ AddSpawn(l)

ReadStep(c) == ReadTake(c) \/ ReadNothing(c) \/ ReadClosed(c)

Next ==
  \/ Send \/ Shutdown \/ Expire \/ DropReader
  \/ \E l \in Listeners : AddPush(l) \/ AddStep(l) \/ RemoveListener(l)
  \/ \E c \in Clients : ReadStep(c) \/ \E op \in ReadOps : ReadBegin(c, op)
  \/ \E th \in Threads : ThreadStep(th)

Spec == Init /\ [][Next]_vars

(***************************************************************************)
(* Background threads are operating-system threads whose waits are bounded *)
(* by RECV_TMOUT, and a call of add_listener in progress runs on: both are *)
(* scheduled.  Clients need not call anything.                             *)
(***************************************************************************)
Fairness ==
  /\ \A th \in Threads : WF_vars(ThreadStep(th))
  /\ \A l \in Listeners : WF_vars(AddStep(l))

FairSpec == Spec /\ Fairness

-----------------------------------------------------------------------------
(* Safety. *)

\* Types; the ring never holds more than its capacity.
TypeOK ==
  /\ sent \in Nat
  /\ expired \in Nat
  /\ buffer \in Seq(Nat)
  /\ Len(buffer) <= Capacity
  /\ connected \in BOOLEAN
  /\ alive \in BOOLEAN
  /\ cbActive \in BOOLEAN
  /\ reg \in [Listeners -> {"absent", "check", "spawn", "returned"}]
  /\ reads \in [Clients -> ReadOps \cup {"idle"}]
  /\ thr \in [Threads -> {"off", "check", "recv", "got", "calling"}]
  /\ todo \in [Threads -> SUBSET Listeners]

\* Whatever the readers and background threads have taken, what is left in
\* the ring is the latest run of messages without a gap: a slow reader loses
\* the oldest messages and nothing else.
RingKeepsNewest ==
  \A i \in 1..Len(buffer) : buffer[i] + Len(buffer) = sent + i

\* However calls of add_listener and remove_listener interleave, once none
\* is in progress reads are refused exactly when there is a listener.
ModeTracksListeners ==
  (\A l \in Listeners : reg[l] \in {"absent", "returned"})
     => (cbActive <=> Active # {})

\* A reader that refuses reads has a background thread to empty its ring, as
\* long as messages can come: the two sides of the mode flag never disagree.
NoDeafReader ==
  cbActive /\ connected => \E th \in Threads : thr[th] # "off"

\* No thread is about to call a listener whose removal has returned.
RemovedIsSilent ==
  \A th \in Threads : todo[th] \subseteq Active

-----------------------------------------------------------------------------
(* Liveness, under Fairness. *)

AllStopped == \A th \in Threads : thr[th] = "off"

\* When callback mode is left for good, all the background threads stop; and
\* so they do when a reader is dropped that still has listeners, although
\* nobody clears the mode.
ThreadsStop ==
  /\ <>[](~cbActive) => <>[]AllStopped
  /\ ~alive ~> AllStopped

\* In lasting callback mode no message stays in the ring: it reaches the
\* listeners, or is overwritten or discarded as too old.
CallbackDrains ==
  <>[]cbActive =>
    \A m \in 1..MaxSent : []<>(\A i \in 1..Len(buffer) : buffer[i] # m)

-----------------------------------------------------------------------------
(* A comment that the code does not keep. *)

\* "All listeners on this reader share a thread": they do not when two calls
\* of add_listener interleave, or follow a removal too fast.
ListenersShareThread ==
  \A t1, t2 \in Threads : thr[t1] # "off" /\ thr[t2] # "off" => t1 = t2

=============================================================================
