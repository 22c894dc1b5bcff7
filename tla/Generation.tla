----------------------------- MODULE Generation ----------------------------
(***************************************************************************)
(* Generations of the AI runtime (packages/go/runtime): the kernel admits  *)
(* one through the scheduler, begins a request on its session, opens a     *)
(* provider's stream through the breaker, with retries and failover, and   *)
(* gives everything back before the dispatcher is done.  Stop drains the   *)
(* scheduler and the sessions and closes the providers; a sweeper expires  *)
(* sessions meanwhile.                                                     *)
(*                                                                         *)
(* A step is one atomic counter, channel operation or mutex section.  All  *)
(* models here are one provider's, and what a stream delivers, and to whom,*)
(* is left out.                                                            *)
(***************************************************************************)
EXTENDS Breaker

CONSTANTS
  Session,
  SessionOf,        \* the session each generation names
  Unsheddable,      \* generations of the safety and system classes
  MaxConcurrent, Threshold, MaxQueued,
  MaxAttempts,      \* RetryPolicy: calls to one model
  MaxFallbackHops   \* models given up before the generation is

ASSUME GenerationAssumption ==
  /\ SessionOf \in [Task -> Session] /\ Unsheddable \subseteq Task
  /\ {MaxConcurrent, MaxAttempts} \subseteq Nat \ {0}
  /\ Threshold \in 0 .. MaxConcurrent
  /\ {MaxQueued, MaxFallbackHops} \subseteq Nat

VARIABLES
  free,         \* tokens in the semaphore's channel
  inFlight, wg, \* the counter, and the wait group behind Wait
  pc,           \* how far each generation has come
  attempts, hops,
  late,         \* generations counted after Close
  stage,        \* how far Kernel.Stop has come
  clean,        \* its wait for the scheduler ended with nobody counted
  state,        \* the session state machines
  known,        \* sessions in the manager's shards
  requests,     \* each session's requests in flight
  expiring      \* sessions the sweeper has removed and not yet marked

taskVars == <<attempts, hops, late>>
slotVars == <<free, inFlight, wg>>
sessionVars == <<state, known, requests, expiring>>
vars == <<breakerVars, slotVars, pc, taskVars, stage, clean, sessionVars>>

Init ==
  /\ BreakerInit
  /\ free = MaxConcurrent /\ inFlight = 0 /\ wg = 0
  /\ pc = [t \in Task |-> "idle"]
  /\ attempts = [t \in Task |-> 0] /\ hops = [t \in Task |-> 0] /\ late = {}
  /\ stage = "running" /\ clean = FALSE
  /\ state = [s \in Session |-> "none"] /\ known = {}
  /\ requests = [s \in Session |-> 0] /\ expiring = {}

At(t, here, there) == pc[t] = here /\ pc' = [pc EXCEPT ![t] = there]
Closed == stage # "running"

----------------------------------------------------------------------------
(* Admission *)

\* Admit: the closed flag, the deadline, and for sheddable work the load, each
\* read once.
Ask(t) ==
  /\ pc[t] = "idle"
  /\ \/ ~Closed /\ t \in Unsheddable /\ pc' = [pc EXCEPT ![t] = "taking"]
     \/ ~Closed /\ t \notin Unsheddable /\ pc' = [pc EXCEPT ![t] = "looking"]
     \/ pc' = [pc EXCEPT ![t] = "shed"]
  /\ UNCHANGED <<breakerVars, slotVars, taskVars, stage, clean, sessionVars>>

Look(t) ==
  /\ pc[t] = "looking"
  /\ pc' = [pc EXCEPT ![t] = IF inFlight >= Threshold THEN "shed" ELSE "joining"]
  /\ UNCHANGED <<breakerVars, slotVars, taskVars, stage, clean, sessionVars>>

Queued == {t \in Task : pc[t] \in {"waiting", "counting", "enlisting"} /\ t \notin Unsheddable}

\* The queue's length is read, and then counted up.
Join(t) ==
  /\ \/ At(t, "joining", "queueing") /\ Cardinality(Queued) < MaxQueued
     \/ At(t, "joining", "shed") /\ Cardinality(Queued) >= MaxQueued
     \/ At(t, "queueing", "waiting")
  /\ UNCHANGED <<breakerVars, slotVars, taskVars, stage, clean, sessionVars>>

\* A slot, or for work that is never shed, none.
TakeSlot(t) ==
  /\ pc[t] \in {"waiting", "taking"}
  /\ free > 0 \/ pc[t] = "taking"
  /\ free' = IF free > 0 THEN free - 1 ELSE 0
  /\ pc' = [pc EXCEPT ![t] = "counting"]
  /\ UNCHANGED <<breakerVars, inFlight, wg, taskVars, stage, clean, sessionVars>>

\* The wait for a slot ends with the queue's timer, the context or the drain.
GiveUp(t) ==
  /\ At(t, "waiting", "shed")
  /\ UNCHANGED <<breakerVars, slotVars, taskVars, stage, clean, sessionVars>>

\* The load counter, and then, in releaseFunc, the wait group.
Count(t) ==
  /\ At(t, "counting", "enlisting")
  /\ inFlight' = inFlight + 1
  /\ UNCHANGED <<breakerVars, free, wg, taskVars, stage, clean, sessionVars>>

Enlist(t) ==
  /\ At(t, "enlisting", "admitted")
  /\ wg' = wg + 1
  /\ late' = IF Closed THEN late \cup {t} ELSE late
  /\ UNCHANGED <<breakerVars, free, inFlight, attempts, hops, stage, clean, sessionVars>>

----------------------------------------------------------------------------
(* The session, and the provider's stream *)

\* MUTANT of GetSession: an unknown session returns without releasing.
GetOrLeave(t) ==
  /\ \/ At(t, "admitted", "checking") /\ SessionOf[t] \in known
     \/ At(t, "admitted", "done") /\ SessionOf[t] \notin known
     \/ At(t, "checking", "beginning") /\ state[SessionOf[t]] = "active"
     \/ At(t, "checking", "releasing") /\ state[SessionOf[t]] # "active"
  /\ UNCHANGED <<breakerVars, slotVars, taskVars, stage, clean, sessionVars>>

\* Sessions().Get, and BeginRequest's check of the state.
GetSession(t) ==
  /\ \/ At(t, "admitted", "checking") /\ SessionOf[t] \in known
     \/ At(t, "admitted", "releasing") /\ SessionOf[t] \notin known
     \/ At(t, "checking", "beginning") /\ state[SessionOf[t]] = "active"
     \/ At(t, "checking", "releasing") /\ state[SessionOf[t]] # "active"
  /\ UNCHANGED <<breakerVars, slotVars, taskVars, stage, clean, sessionVars>>

\* BeginRequest counts the request.
BeginRequest(t) ==
  /\ At(t, "beginning", "opening")
  /\ requests' = [requests EXCEPT ![SessionOf[t]] = @ + 1]
  /\ UNCHANGED <<breakerVars, slotVars, taskVars, stage, clean, state, known, expiring>>

\* openStream returns, and its counters with it.
Leave(t, next) ==
  /\ pc' = [pc EXCEPT ![t] = next]
  /\ attempts' = [attempts EXCEPT ![t] = 0] /\ hops' = [hops EXCEPT ![t] = 0]

\* Another model, unless MaxFallbackHops were given up before.
Hop(t, tries) ==
  \/ hops[t] + 1 > MaxFallbackHops /\ Leave(t, "completing")
  \/ /\ hops[t] + 1 <= MaxFallbackHops /\ hops' = [hops EXCEPT ![t] = @ + 1]
     /\ pc' = [pc EXCEPT ![t] = "opening"]
     /\ attempts' = [attempts EXCEPT ![t] = tries]

\* The context does not fit, no model is left, or a request breaks an invariant.
SetupFails(t) ==
  /\ pc[t] = "opening" /\ Leave(t, "completing")
  /\ UNCHANGED <<breakerVars, slotVars, late, stage, clean, sessionVars>>

\* The registry has closed: no model has a provider any more.
NoProvider(t) ==
  /\ pc[t] = "opening" /\ stage = "stopped" /\ Hop(t, attempts[t])
  /\ UNCHANGED <<breakerVars, slotVars, late, stage, clean, sessionVars>>

\* MUTANT of AskBreaker: a retry does not count as an attempt.
AskWithoutCounting(t) ==
  /\ pc[t] = "opening" /\ stage # "stopped"
  /\ \E allowed \in BOOLEAN :
       /\ Allow(t, allowed)
       /\ IF allowed
          THEN pc' = [pc EXCEPT ![t] = "calling"] /\ UNCHANGED <<attempts, hops>>
          ELSE Hop(t, attempts[t])
  /\ UNCHANGED <<slotVars, late, stage, clean, sessionVars>>

\* openStream asks the model's breaker.
AskBreaker(t) ==
  /\ pc[t] = "opening" /\ stage # "stopped"
  /\ \E allowed \in BOOLEAN :
       /\ Allow(t, allowed)
       /\ IF allowed
          THEN pc' = [pc EXCEPT ![t] = "calling"] /\ attempts' = [attempts EXCEPT ![t] = @ + 1]
                 /\ UNCHANGED hops
          ELSE Hop(t, attempts[t])
  /\ UNCHANGED <<slotVars, late, stage, clean, sessionVars>>

\* The provider answered: a stream, or a failure that is retried with the same
\* model, given up during the backoff, or left for another model.
Opened(t) ==
  /\ pc[t] = "calling" /\ Leave(t, "streaming") /\ Report(t, "ok")
  /\ UNCHANGED <<slotVars, late, stage, clean, sessionVars>>

OpenFails(t) ==
  /\ pc[t] = "calling"
  /\ \E how \in {"failed", "ignored"} : Report(t, how)
  /\ \/ attempts[t] < MaxAttempts /\ pc' = [pc EXCEPT ![t] = "opening"]
        /\ UNCHANGED <<attempts, hops>>
     \/ attempts[t] < MaxAttempts /\ Leave(t, "completing")
     \/ Hop(t, 0)
  /\ UNCHANGED <<slotVars, late, stage, clean, sessionVars>>

\* Dispatcher.Run's loop ends: the last chunk, an abort, an error, the deadline
\* or a gap between chunks ...
StreamEnds(t) ==
  /\ At(t, "streaming", "closing")
  /\ UNCHANGED <<breakerVars, slotVars, taskVars, stage, clean, sessionVars>>

\* ... and the sinks and the stream have been closed.
StreamClosed(t) ==
  /\ At(t, "closing", "completing")
  /\ UNCHANGED <<breakerVars, slotVars, taskVars, stage, clean, sessionVars>>

----------------------------------------------------------------------------
(* Giving back, before the dispatcher is done or Generate returns an error *)

Complete(t) ==
  /\ At(t, "completing", "releasing")
  /\ requests' = [requests EXCEPT ![SessionOf[t]] = @ - 1]
  /\ UNCHANGED <<breakerVars, slotVars, taskVars, stage, clean, state, known, expiring>>

Uncount(t) ==
  /\ At(t, "releasing", "returning")
  /\ inFlight' = inFlight - 1
  /\ UNCHANGED <<breakerVars, free, wg, taskVars, stage, clean, sessionVars>>

\* MUTANT of GiveBack: work that may overshoot returns no slot.
KeepSlot(t) ==
  /\ At(t, "returning", "telling")
  /\ free' = IF t \in Unsheddable \/ free = MaxConcurrent THEN free ELSE free + 1
  /\ UNCHANGED <<breakerVars, inFlight, wg, taskVars, stage, clean, sessionVars>>

\* The token goes back unless the channel is full ...
GiveBack(t) ==
  /\ At(t, "returning", "telling")
  /\ free' = IF free = MaxConcurrent THEN free ELSE free + 1
  /\ UNCHANGED <<breakerVars, inFlight, wg, taskVars, stage, clean, sessionVars>>

\* ... and last the wait group is told.
Tell(t) ==
  /\ At(t, "telling", "done")
  /\ wg' = wg - 1
  /\ UNCHANGED <<breakerVars, free, inFlight, taskVars, stage, clean, sessionVars>>

----------------------------------------------------------------------------
(* Sessions *)

Create(s) ==
  /\ state[s] = "none" /\ stage \in {"running", "waiting"}
  /\ state' = [state EXCEPT ![s] = "initialising"] /\ known' = known \cup {s}
  /\ UNCHANGED <<breakerVars, slotVars, pc, taskVars, stage, clean, requests, expiring>>

\* sessionFSMSpec: where a session that has begun may go.
MayGo(s, to) ==
  \/ state[s] = "initialising" /\ to \in {"active", "failed", "expired"}
  \/ state[s] = "active" /\ to \in {"draining", "closed", "expired", "failed"}
  \/ state[s] = "draining" /\ to \in {"closed", "failed", "expired"}
Terminal(s) == state[s] \in {"closed", "expired", "failed"}
Goto(s, to) == state' = [state EXCEPT ![s] = IF MayGo(s, to) THEN to ELSE @]

Activate(s) ==
  /\ MayGo(s, "active") /\ Goto(s, "active")
  /\ UNCHANGED <<breakerVars, slotVars, pc, taskVars, stage, clean, known, requests, expiring>>

Fail(s) ==
  /\ MayGo(s, "failed") /\ Goto(s, "failed")
  /\ UNCHANGED <<breakerVars, slotVars, pc, taskVars, stage, clean, known, requests, expiring>>

\* Remove takes the session out whatever it is doing, and then closes it.
Remove(s) ==
  /\ s \in known /\ known' = known \ {s} /\ Goto(s, "closed")
  /\ UNCHANGED <<breakerVars, slotVars, pc, taskVars, stage, clean, requests, expiring>>

\* sweep: a finished, idle or old session with no request goes ...
Sweep(s) ==
  /\ stage \in {"running", "waiting"}
  /\ s \in known /\ requests[s] = 0
  /\ known' = known \ {s} /\ expiring' = expiring \cup {s}
  /\ UNCHANGED <<breakerVars, slotVars, pc, taskVars, stage, clean, state, requests>>

\* ... and is marked expired after the shard's lock was released.
Expire(s) ==
  /\ s \in expiring /\ expiring' = expiring \ {s} /\ Goto(s, "expired")
  /\ UNCHANGED <<breakerVars, slotVars, pc, taskVars, stage, clean, known, requests>>

----------------------------------------------------------------------------
(* Kernel.Stop *)

Stop ==
  /\ stage = "running" /\ stage' = "waiting"
  /\ UNCHANGED <<breakerVars, slotVars, pc, taskVars, clean, sessionVars>>

\* MUTANT of Drained: the semaphore is asked instead of the wait group.
DrainedBySlots ==
  /\ stage = "waiting" /\ free = MaxConcurrent
  /\ stage' = "closing" /\ clean' = TRUE
  /\ UNCHANGED <<breakerVars, slotVars, pc, taskVars, sessionVars>>

\* Wait: everybody has released, or the context ends.
Drained ==
  /\ stage = "waiting" /\ wg = 0
  /\ stage' = "closing" /\ clean' = TRUE
  /\ UNCHANGED <<breakerVars, slotVars, pc, taskVars, sessionVars>>

DrainTimesOut ==
  /\ stage = "waiting" /\ stage' = "closing"
  /\ UNCHANGED <<breakerVars, slotVars, pc, taskVars, clean, sessionVars>>

\* SessionManager.Close, once the sweeper has returned: one session after the
\* other leaves its shard, drains, and closes when it is idle or the context
\* has ended.
DrainSession(s) ==
  /\ stage = "closing" /\ expiring = {} /\ s \in known
  /\ \A r \in Session : r \notin known => state[r] # "draining"
  /\ known' = known \ {s} /\ Goto(s, "draining")
  /\ UNCHANGED <<breakerVars, slotVars, pc, taskVars, stage, clean, requests, expiring>>

CloseSession(s) ==
  /\ stage = "closing" /\ s \notin known /\ state[s] = "draining"
  /\ Goto(s, "closed")
  /\ UNCHANGED <<breakerVars, slotVars, pc, taskVars, stage, clean, known, requests, expiring>>

\* ProviderRegistry.Close.
CloseProviders ==
  /\ stage = "closing" /\ known = {} /\ expiring = {}
  /\ \A s \in Session : state[s] # "draining"
  /\ stage' = "stopped"
  /\ UNCHANGED <<breakerVars, slotVars, pc, taskVars, clean, sessionVars>>

----------------------------------------------------------------------------
\* What a generation does by itself once it has asked ...
OwnStep(t) ==
  \/ Look(t) \/ Join(t) \/ TakeSlot(t) \/ GiveUp(t) \/ Count(t) \/ Enlist(t)
  \/ GetSession(t) \/ BeginRequest(t) \/ SetupFails(t) \/ NoProvider(t) \/ AskBreaker(t)
  \/ StreamEnds(t) \/ Complete(t) \/ Uncount(t) \/ GiveBack(t) \/ Tell(t)

\* ... and what it is given when a call of a provider, or of a sink, returns.
Returned(t) == Opened(t) \/ OpenFails(t) \/ StreamClosed(t)

Proceed(t) == OwnStep(t) \/ Returned(t)

SessionStep(s) ==
  \/ Create(s) \/ Activate(s) \/ Fail(s) \/ Remove(s) \/ Sweep(s) \/ Expire(s)
  \/ DrainSession(s) \/ CloseSession(s)

\* The breaker's clock, and who looks at it or resets it from outside.
BreakerStep ==
  /\ CooldownEnds \/ ReadState \/ Reset
  /\ UNCHANGED <<slotVars, pc, taskVars, stage, clean, sessionVars>>

Next ==
  \/ \E t \in Task : Ask(t) \/ Proceed(t)
  \/ \E s \in Session : SessionStep(s)
  \/ BreakerStep \/ Stop \/ Drained \/ DrainTimesOut \/ CloseProviders

Spec == Init /\ [][Next]_vars

\* A goroutine that has asked for admission is scheduled, the wait for a slot
\* ends by its timer and a stream's loop by the deadline.  Nothing is promised
\* of a call that is out: provider.Generate gets the caller's own context and
\* the closing of a stream none, so a provider may keep either for ever.
FairSpec ==
  /\ Spec
  /\ \A t \in Task : WF_vars(OwnStep(t))

----------------------------------------------------------------------------
(* What is checked *)

Held == {"admitted", "checking", "beginning", "opening", "calling", "streaming",
         "closing", "completing", "releasing"}
Counted == Held \cup {"returning", "telling"}             \* by the wait group
Loaded == Held \cup {"enlisting"}                         \* by inFlight
Slotted == Held \cup {"counting", "enlisting", "returning"}
Begun == {"opening", "calling", "streaming", "closing", "completing"}
PCs == {"idle", "looking", "joining", "queueing", "waiting", "taking", "counting", "enlisting"}
         \cup Counted \cup {"shed", "done"}
Those(where) == {t \in Task : pc[t] \in where}

TypeOK ==
  /\ BreakerTypeOK
  /\ free \in 0 .. MaxConcurrent /\ inFlight \in Nat /\ wg \in Nat
  /\ pc \in [Task -> PCs]
  /\ attempts \in [Task -> 0 .. MaxAttempts]
  /\ hops \in [Task -> 0 .. MaxFallbackHops] /\ late \subseteq Task
  /\ stage \in {"running", "waiting", "closing", "stopped"} /\ clean \in BOOLEAN
  /\ state \in [Session -> {"none", "initialising", "active", "draining",
                            "closed", "expired", "failed"}]
  /\ known \subseteq Session /\ expiring \subseteq Session
  /\ requests \in [Session -> Nat]

\* Every counter is the number of generations between its two ends, on every
\* path through Generate: its failures, the finalizer and the retries
\* (kernel.go: fail, failWithSession, OnComplete).
CountersAgree ==
  /\ wg = Cardinality(Those(Counted))
  /\ inFlight = Cardinality(Those(Loaded))
  /\ \A s \in Session :
       requests[s] = Cardinality({t \in Those(Begun) : SessionOf[t] = s})
  /\ \A t \in Task : ticket[t] # "none" <=> pc[t] = "calling"

GenerationInv == TypeOK /\ CountersAgree

\* The semaphore never loses a slot: with no generation about all of them are
\* back, whatever overshot and returned a token it had not taken
\* (releaseFunc's default arm).
NoSlotIsLost ==
  free + Cardinality(Those(Slotted)) >= MaxConcurrent

\* Once the drain ended without its context ending, sessions and providers are
\* closed under no generation except one that was asking for admission when
\* the scheduler closed (Kernel.Stop, Scheduler.Wait).
CleanDrainMissesOnlyLatecomers ==
  clean => Those(Begun) \subseteq late

\* A generation that asked for admission comes to its end, through queue,
\* retries, failover and drain, or a provider keeps one of its calls for ever:
\* nothing of the kernel's own holds a slot (Generate, openStream, Run).
GenerationsEnd ==
  \A t \in Task :
    []<>(pc[t] \notin {"calling", "closing"}) => (pc[t] # "idle" ~> pc[t] \in {"shed", "done"})

----------------------------------------------------------------------------
(* What comments say and the code does not do *)

\* "Wait blocks until every admitted task has released" (scheduler.go:378):
\* the closed flag was read before the task was counted.
WaitEndsWithNobodyAdmitted == clean => Those(Counted) = {}

\* "A session with work in flight is never reaped" (session.go:493): a request
\* is counted after the state was checked.
BusySessionsAreKept ==
  \A s \in Session : state[s] = "expired" => requests[s] = 0

============================================================================
