----------------------------- MODULE ToolQueue -----------------------------
(***************************************************************************)
(* Admission of tool executions (packages/go/toolruntime/queue.go): a      *)
(* bound on executions in flight, a bounded wait queue per class, strict   *)
(* priority with a forced yield, and slots that pass from the one who      *)
(* releases straight to the next waiter.                                   *)
(*                                                                         *)
(* The scheduler picks a waiter under its lock and wakes it afterwards, so *)
(* a task has a place of its own between being picked and noticing it.     *)
(***************************************************************************)
EXTENDS Integers, Sequences, FiniteSets, FiniteSetsExt, SequencesExt

CONSTANTS
  Task,             \* executions that ask for a slot
  MaxConcurrent,    \* executions in flight
  MaxQueued,        \* the length of each class's queue
  StarvationRatio   \* grants to a higher class before a lower one is served

\* Interactive, background and bulk: a smaller number goes first.
Class == 0 .. 2

ASSUME QueueAssumption ==
  /\ MaxConcurrent \in Nat \ {0}
  /\ MaxQueued \in [Class -> Nat]
  /\ StarvationRatio \in Nat

VARIABLES
  inFlight,      \* the scheduler's count of executions in flight
  queues,        \* one queue of waiters per class
  consecutive,   \* grants to a higher class while a lower one waited
  place          \* where each task's Acquire has come

queueVars == <<inFlight, queues, consecutive, place>>

Place == {"away", "queued", "granted", "running"}

QueueTypeOK ==
  /\ inFlight \in Nat
  /\ queues \in [Class -> Seq(Task)]
  /\ consecutive \in Nat
  /\ place \in [Task -> Place]

QueueInit ==
  /\ inFlight = 0
  /\ queues = [c \in Class |-> <<>>]
  /\ consecutive = 0
  /\ place = [t \in Task |-> "away"]

----------------------------------------------------------------------------
(* Acquire *)

\* A free slot is taken at once, whoever waits.
Admit(t) ==
  /\ place[t] = "away"
  /\ inFlight < MaxConcurrent
  /\ inFlight' = inFlight + 1
  /\ place' = [place EXCEPT ![t] = "running"]
  /\ UNCHANGED <<queues, consecutive>>

\* The class's queue is full: ErrQueueFull, and nothing changes.
Shed(t, c) ==
  /\ place[t] = "away"
  /\ inFlight >= MaxConcurrent
  /\ Len(queues[c]) >= MaxQueued[c]
  /\ UNCHANGED queueVars

Enqueue(t, c) ==
  /\ place[t] = "away"
  /\ inFlight >= MaxConcurrent
  /\ Len(queues[c]) < MaxQueued[c]
  /\ queues' = [queues EXCEPT ![c] = Append(@, t)]
  /\ place' = [place EXCEPT ![t] = "queued"]
  /\ UNCHANGED <<inFlight, consecutive>>

\* The waiter finds its channel closed.
TakeGrant(t) ==
  /\ place[t] = "granted"
  /\ place' = [place EXCEPT ![t] = "running"]
  /\ UNCHANGED <<inFlight, queues, consecutive>>

\* The waiter's context ends. It leaves its queue; one that had been picked is
\* in no queue any more, and nothing returns the slot it was handed.
GiveUp(t) ==
  /\ place[t] \in {"queued", "granted"}
  /\ \/ \E c \in Class : \E i \in DOMAIN queues[c] :
          queues[c][i] = t /\ queues' = [queues EXCEPT ![c] = RemoveAt(@, i)]
     \/ (\A c \in Class : t \notin Range(queues[c])) /\ UNCHANGED queues
  /\ place' = [place EXCEPT ![t] = "away"]
  /\ UNCHANGED <<inFlight, consecutive>>

----------------------------------------------------------------------------
(* Release *)

Waiting == {c \in Class : queues[c] # <<>>}

\* A lower class is served although a higher one waits.
Forced ==
  /\ StarvationRatio > 0
  /\ Max(Waiting) > Min(Waiting)
  /\ consecutive >= StarvationRatio

NextClass == IF Forced THEN Max(Waiting) ELSE Min(Waiting)

Release(t) ==
  /\ place[t] = "running"
  /\ \/ /\ Waiting = {}
        /\ inFlight' = IF inFlight > 0 THEN inFlight - 1 ELSE 0
        /\ consecutive' = 0
        /\ place' = [place EXCEPT ![t] = "away"]
        /\ UNCHANGED queues
     \/ /\ Waiting # {}
        /\ LET next == Head(queues[NextClass])
           IN  place' = [place EXCEPT ![t] = "away", ![next] = "granted"]
        /\ queues' = [queues EXCEPT ![NextClass] = Tail(@)]
        /\ consecutive' =
             IF Max(Waiting) > Min(Waiting) /\ ~Forced THEN consecutive + 1 ELSE 0
        /\ UNCHANGED inFlight

----------------------------------------------------------------------------
(* What is proved or checked of the queue *)

Holders == {t \in Task : place[t] \in {"granted", "running"}}

\* A task stands in at most one queue, once, and exactly while it waits; nobody
\* waits while there is a free slot.
QueuesHoldTheWaiting ==
  /\ \A t \in Task :
       place[t] = "queued" <=> \E c \in Class : t \in Range(queues[c])
  /\ \A c, d \in Class : \A i \in DOMAIN queues[c], j \in DOMAIN queues[d] :
       queues[c][i] = queues[d][j] => c = d /\ i = j
  /\ Waiting # {} => inFlight >= MaxConcurrent

\* queue.go says of a waiter that gives up: "Leaving it would mean a later
\* release grants a slot to a waiter that has gone, and the slot stays occupied
\* by nobody". A waiter that was picked and gives up leaves just that.
EverySlotHasAHolder == inFlight = Cardinality(Holders)

=============================================================================
