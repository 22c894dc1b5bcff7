--------------------------- MODULE ToolExecution ---------------------------
(***************************************************************************)
(* Plans of tool calls (packages/go/toolruntime): the dispatcher runs the  *)
(* steps of a plan through the admission queue (ToolQueue), the executor   *)
(* claims each step's idempotency key in a ledger, calls the tool and      *)
(* settles the claim, and the compensator undoes a plan that failed.       *)
(*                                                                         *)
(* A step is an action wherever another goroutine can see its work: the    *)
(* ledger's mutex sections, the sandbox's, the queue's, the calls to the   *)
(* tool.  Arguments, results and permissions are abstracted to the key a   *)
(* step derives and to whether its call is accepted.  Every step here is   *)
(* mutating: others derive no key.                                         *)
(***************************************************************************)
EXTENDS ToolQueue

CONSTANTS
  Plan,          \* plans handed to Run
  Key,           \* idempotency keys
  PlanOf,        \* the plan each task is a step of
  KeyOf,         \* the key it derives from tool, arguments, actor, correlation
  ClassOf,       \* its class in the admission queue
  Before,        \* the steps of its plan that must have passed before it runs
  Instead,       \* the candidate of a fallback chain it replaces, or None
  Optional,      \* steps whose failure the plan forgives
  Irreversible,  \* keys of tools that are never called again on their own
  MayEnd,        \* plans whose context may end early
  None,
  MaxEntries,    \* entries the ledger keeps
  MaxSlots,      \* executions the sandbox admits
  MaxAttempts,   \* calls to the tool per execution
  MaxRounds      \* claims an execution tries (three in the code)

ASSUME ToolAssumption ==
  /\ PlanOf \in [Task -> Plan] /\ KeyOf \in [Task -> Key]
  /\ ClassOf \in [Task -> Class]
  /\ Before \in [Task -> SUBSET Task] /\ Instead \in [Task -> Task \cup {None}]
  /\ \A t \in Task : Instead[t] # None =>
       /\ Instead[Instead[t]] = None      \* chains of two candidates
       /\ {t, Instead[t]} \cap Optional = {}
  /\ Optional \subseteq Task /\ Irreversible \subseteq Key
  /\ MayEnd \subseteq Plan
  /\ None \notin Task
  /\ {MaxEntries, MaxSlots, MaxAttempts, MaxRounds} \subseteq Nat \ {0}

VARIABLES
  entry,     \* the ledger: what each key's entry holds
  order,     \* the keys of the ledger's queue: <<j, k>> when k stands with or behind j
  expired,   \* the keys whose entry has outlived its window
  leases,    \* executions the sandbox has admitted
  pc,        \* how far each step's execution has come
  round,     \* claims it has tried
  holder,    \* whose entry it waits for
  attempt,   \* calls it has made
  phase,     \* the phase its result carries: what a failure is filed under
  outcome,   \* how it ended
  stage,     \* the plans
  ended,     \* plans whose context has ended
  journal,   \* per plan, the steps to undo, in the order they completed
  undone,    \* steps the compensator has tried to undo, in its order
  ran,       \* steps whose tool was called
  forgotten  \* keys that lost an entry whose tool had been called

ledgerVars == <<entry, order, expired, forgotten>>
stepVars == <<round, holder, attempt, phase, outcome>>
planVars == <<stage, ended, journal, undone>>
vars == <<queueVars, ledgerVars, leases, pc, stepVars, planVars, ran>>

NoEntry == [state |-> "none", owner |-> None]

Init ==
  /\ QueueInit
  /\ entry = [k \in Key |-> NoEntry] /\ order = {} /\ expired = {}
  /\ leases = {}
  /\ pc = [t \in Task |-> "idle"]
  /\ round = [t \in Task |-> 0] /\ holder = [t \in Task |-> None]
  /\ attempt = [t \in Task |-> 0] /\ phase = [t \in Task |-> "none"]
  /\ outcome = [t \in Task |-> "none"]
  /\ stage = [p \in Plan |-> "running"] /\ ended = {}
  /\ journal = [p \in Plan |-> <<>>] /\ undone = [p \in Plan |-> <<>>]
  /\ ran = {} /\ forgotten = {}

----------------------------------------------------------------------------
(* The ledger *)

Settled(k) == entry[k].state \in {"completed", "failed"}

\* The keys that stand in the queue.
Queued == {k \in Key : <<k, k>> \in order}

\* What Claim drops first: settled, expired entries from the front of the
\* queue, up to the first that is neither (the code also stops after eight).
StaleHead ==
  {k \in Queued : \A j \in Key : <<j, k>> \in order => Settled(j) /\ j \in expired}

\* MUTANT of Overflow: the oldest entries go, settled or not.
OverflowOldest(kept) ==
  {k \in kept :
     Cardinality({j \in kept : <<j, k>> \in order}) <= Cardinality(kept) + 1 - MaxEntries}

\* What a fresh claim drops when there are more than MaxEntries: the oldest
\* settled entries of those kept, never one in flight.
Overflow(kept) ==
  LET settled == {k \in kept : Settled(k)}
      over == Cardinality(kept) + 1 - MaxEntries
  IN  {k \in settled : Cardinality({j \in settled : <<j, k>> \in order}) <= over}

Without(gone) == {pair \in order : pair[1] \notin gone /\ pair[2] \notin gone}

\* The queue without gone, and k behind all others.
Behind(k, gone) == Without(gone) \cup (((Queued \ gone) \cup {k}) \X {k})

Called(k) == \E t \in ran : KeyOf[t] = k

\* Drop gone, and put k's entry at the end with the given content.
Write(k, new, gone) ==
  /\ order' = Behind(k, gone)
  /\ entry' = [j \in Key |-> IF j = k THEN new ELSE IF j \in gone THEN NoEntry ELSE entry[j]]
  /\ expired' = expired \ (gone \cup {k})
  /\ forgotten' = forgotten \cup {j \in gone : Called(j)}

Drop(gone) ==
  /\ order' = Without(gone)
  /\ entry' = [j \in Key |-> IF j \in gone THEN NoEntry ELSE entry[j]]
  /\ expired' = expired \ gone
  /\ forgotten' = forgotten \cup {j \in gone : Called(j)}

Settle(k, state) ==
  /\ entry' = [entry EXCEPT ![k].state = IF @ = "inFlight" THEN state ELSE @]
  /\ UNCHANGED <<order, expired, forgotten>>

\* Entries expire in the order they were claimed: all have one TTL.
Expire ==
  /\ \E k \in Queued \ expired :
       /\ \A j \in Key \ {k} : <<j, k>> \in order => j \in expired
       /\ expired' = expired \cup {k}
  /\ UNCHANGED <<queueVars, entry, order, forgotten, leases, pc, stepVars, planVars, ran>>

\* The maintenance timer drops whatever is settled and expired.
Sweep ==
  /\ \E k \in expired : Settled(k)
  /\ Drop({k \in expired : Settled(k)})
  /\ UNCHANGED <<queueVars, leases, pc, stepVars, planVars, ran>>

----------------------------------------------------------------------------
(* The dispatcher: which step may run, and admission *)

Good(t) == outcome[t] \in {"ok", "replayed"}
Failed(t) == pc[t] = "ended" /\ ~Good(t)
Replaced(t) == \E u \in Task : Instead[u] = t /\ Good(u)
Passed(t) == pc[t] = "ended" /\ (Good(t) \/ t \in Optional \/ Replaced(t))

\* runFallback stops after a timeout or a cancellation.
FallsThrough(t) == Failed(t) /\ outcome[t] # "stopped"

Startable(t) ==
  /\ pc[t] = "idle"
  /\ stage[PlanOf[t]] = "running"
  /\ \A b \in Before[t] : Passed(b)
  /\ Instead[t] # None => FallsThrough(Instead[t])

At(t, here, there) == pc[t] = here /\ pc' = [pc EXCEPT ![t] = there]
End(t, how) == outcome' = [outcome EXCEPT ![t] = how]

\* runInvoke could not bind an argument to an earlier step's result (INV-TOOL-8).
Unbound(t) ==
  /\ Startable(t) /\ Before[t] # {}
  /\ pc' = [pc EXCEPT ![t] = "ended"] /\ End(t, "failed")
  /\ UNCHANGED <<queueVars, ledgerVars, leases, round, holder, attempt, phase, planVars, ran>>

Acquire(t) ==
  /\ Startable(t)
  /\ \/ Admit(t) /\ pc' = [pc EXCEPT ![t] = "admitted"] /\ UNCHANGED outcome
     \/ Enqueue(t, ClassOf[t]) /\ pc' = [pc EXCEPT ![t] = "queued"] /\ UNCHANGED outcome
     \/ Shed(t, ClassOf[t]) /\ pc' = [pc EXCEPT ![t] = "ended"] /\ End(t, "failed")
  /\ UNCHANGED <<ledgerVars, leases, round, holder, attempt, phase, planVars, ran>>

Granted(t) ==
  /\ At(t, "queued", "admitted") /\ TakeGrant(t)
  /\ UNCHANGED <<ledgerVars, leases, stepVars, planVars, ran>>

\* The error is the context's own, which is none of the executor's.
Leaves(t) ==
  /\ PlanOf[t] \in ended
  /\ At(t, "queued", "ended") /\ GiveUp(t) /\ End(t, "failed")
  /\ UNCHANGED <<ledgerVars, leases, round, holder, attempt, phase, planVars, ran>>

\* The executor has returned and forgets its locals; the slot goes back.
Leave(t) ==
  /\ At(t, "leaving", "ended") /\ Release(t)
  /\ round' = [round EXCEPT ![t] = 0] /\ attempt' = [attempt EXCEPT ![t] = 0]
  /\ phase' = [phase EXCEPT ![t] = "none"]
  /\ UNCHANGED <<ledgerVars, leases, holder, outcome, planVars, ran>>

----------------------------------------------------------------------------
(* The executor *)

\* Permission, input budget or input validation refuse: nothing is claimed.
Refuse(t) ==
  /\ At(t, "admitted", "leaving") /\ End(t, "failed")
  /\ UNCHANGED <<queueVars, ledgerVars, leases, round, holder, attempt, phase, planVars, ran>>

\* MUTANT of Claim: a stored failure does not stand in the way of a new claim.
ClaimOverFailure(t) ==
  LET k == KeyOf[t] IN
  /\ pc[t] \in {"admitted", "claiming"}
  /\ entry[k].state \in {"none", "failed"}
  /\ order' = Behind(k, {k}) /\ expired' = expired \ {k}
  /\ entry' = [entry EXCEPT ![k] = [state |-> "inFlight", owner |-> t]]
  /\ UNCHANGED forgotten
  /\ pc' = [pc EXCEPT ![t] = "entering"]
  /\ UNCHANGED <<queueVars, leases, stepVars, planVars, ran>>

Claim(t) ==
  LET k == KeyOf[t]
      present == entry[k] # NoEntry /\ k \notin StaleHead
  IN
  /\ pc[t] \in {"admitted", "claiming"}
  /\ round' = [round EXCEPT ![t] = @ + 1]
  /\ \/ /\ present /\ Settled(k)
        /\ End(t, IF entry[k].state = "completed" THEN "replayed" ELSE "failed")
        /\ pc' = [pc EXCEPT ![t] = "leaving"]
        /\ Drop(StaleHead)
        /\ UNCHANGED holder
     \/ /\ present /\ ~Settled(k)
        /\ holder' = [holder EXCEPT ![t] = entry[k].owner]
        /\ pc' = [pc EXCEPT ![t] = "waiting"]
        /\ Drop(StaleHead)
        /\ UNCHANGED outcome
     \/ /\ ~present
        /\ Write(k, [state |-> "inFlight", owner |-> t], StaleHead \cup Overflow(Queued \ StaleHead))
        /\ pc' = [pc EXCEPT ![t] = "entering"]
        /\ UNCHANGED <<holder, outcome>>
  /\ UNCHANGED <<queueVars, leases, attempt, phase, planVars, ran>>

\* The awaited entry was settled or released, and the key is looked up again.
Await(t) ==
  LET k == KeyOf[t] IN
  /\ pc[t] = "waiting"
  /\ entry[k] # [state |-> "inFlight", owner |-> holder[t]]
  /\ holder' = [holder EXCEPT ![t] = None]
  /\ \/ /\ Settled(k)
        /\ End(t, IF entry[k].state = "completed" THEN "replayed" ELSE "failed")
        /\ pc' = [pc EXCEPT ![t] = "leaving"]
     \/ /\ entry[k] = NoEntry        \* reported as a cancellation
        /\ End(t, "stopped")
        /\ pc' = [pc EXCEPT ![t] = "leaving"]
     \/ /\ entry[k].state = "inFlight"
        /\ IF round[t] < MaxRounds
           THEN pc' = [pc EXCEPT ![t] = "claiming"] /\ UNCHANGED outcome
           ELSE pc' = [pc EXCEPT ![t] = "leaving"] /\ End(t, "failed")
  /\ UNCHANGED <<queueVars, ledgerVars, leases, round, attempt, phase, planVars, ran>>

\* The failures a fallback chain tells apart: a timeout or a cancellation stops
\* it.  Either can happen at any time: a deadline passes, or a context ends.
Error == {"stopped", "failed"}

StopsWaiting(t) ==
  /\ PlanOf[t] \in ended
  /\ At(t, "waiting", "leaving") /\ End(t, "stopped")
  /\ holder' = [holder EXCEPT ![t] = None]
  /\ UNCHANGED <<queueVars, ledgerVars, leases, round, attempt, phase, planVars, ran>>

\* MUTANT of Enter: a refusal returns and leaves its claim behind.
EnterOrLeave(t) ==
  /\ IF Cardinality(leases) < MaxSlots
     THEN At(t, "entering", "calling") /\ leases' = leases \cup {t} /\ UNCHANGED outcome
     ELSE At(t, "entering", "leaving") /\ End(t, "failed") /\ UNCHANGED leases
  /\ UNCHANGED <<queueVars, ledgerVars, round, holder, attempt, phase, planVars, ran>>

\* The sandbox: a lease, or a refusal that leaves the claim to be released.
Enter(t) ==
  /\ IF Cardinality(leases) < MaxSlots
     THEN At(t, "entering", "calling") /\ leases' = leases \cup {t} /\ UNCHANGED outcome
     ELSE At(t, "entering", "releasing") /\ End(t, "failed") /\ UNCHANGED leases
  /\ UNCHANGED <<queueVars, ledgerVars, round, holder, attempt, phase, planVars, ran>>

\* What the call came to is settled at once: between an answer and the ledger
\* the executor touches nothing that others see, and the journal is read only
\* when the plan's steps have returned.  A failure is stored when the result's
\* phase says that a call was made; one that is not leaves the claim.
Stored(t) == phase[t] = "invoke"

\* MUTANT of Return: whatever came back is stored as an outcome to replay.
ReturnCompleted(t, how, filed) ==
  /\ pc' = [pc EXCEPT ![t] = "returning"] /\ End(t, how)
  /\ phase' = [phase EXCEPT ![t] = filed]
  /\ IF filed = "invoke" THEN Settle(KeyOf[t], "completed") ELSE UNCHANGED ledgerVars

Return(t, how, filed) ==
  /\ pc' = [pc EXCEPT ![t] = "returning"] /\ End(t, how)
  /\ phase' = [phase EXCEPT ![t] = filed]
  /\ IF filed = "invoke" THEN Settle(KeyOf[t], "failed") ELSE UNCHANGED ledgerVars

\* Before a call: the context, the budgets, the plan's deadline and the breaker.
\* A result keeps the phase of the attempt before.
Stop(t, how) ==
  /\ pc[t] = "calling"
  /\ Return(t, how, phase[t])
  /\ UNCHANGED <<queueVars, leases, round, holder, attempt, planVars, ran>>

\* The tool is gone or retired: a failed attempt without a call.
NotDispatchable(t) ==
  /\ pc[t] = "calling"
  /\ attempt' = [attempt EXCEPT ![t] = @ + 1]
  /\ Return(t, "failed", "invoke")
  /\ UNCHANGED <<queueVars, leases, round, holder, planVars, ran>>

Call(t) ==
  /\ At(t, "calling", "called")
  /\ attempt' = [attempt EXCEPT ![t] = @ + 1]
  /\ ran' = ran \cup {t}
  /\ UNCHANGED <<queueVars, ledgerVars, leases, round, holder, phase, outcome, planVars>>

\* An answer that passes its contract is stored and journalled.
Answer(t) ==
  /\ At(t, "called", "returning") /\ End(t, "ok")
  /\ Settle(KeyOf[t], "completed")
  /\ journal' = [journal EXCEPT ![PlanOf[t]] = Append(@, t)]
  /\ UNCHANGED <<queueVars, leases, round, holder, attempt, phase, stage, ended, undone, ran>>

\* One that does not pass is a failure of the output phase.
BadAnswer(t) ==
  /\ pc[t] = "called" /\ Return(t, "failed", "output")
  /\ UNCHANGED <<queueVars, leases, round, holder, attempt, planVars, ran>>

\* An error, a deadline that abandons the call, or the end of the context.
CallFails(t, how) ==
  /\ pc[t] = "called"
  /\ Return(t, how, "invoke")
  /\ UNCHANGED <<queueVars, leases, round, holder, attempt, planVars, ran>>

\* An error the classifier and the contract let be tried again.
Retry(t) ==
  /\ At(t, "called", "calling")
  /\ attempt[t] < MaxAttempts /\ KeyOf[t] \notin Irreversible
  /\ phase' = [phase EXCEPT ![t] = "invoke"]
  /\ UNCHANGED <<queueVars, ledgerVars, leases, round, holder, attempt, outcome, planVars, ran>>

\* The deferred calls: the lease, then the claim unless it was settled.
ReturnLease(t) ==
  /\ At(t, "returning", IF outcome[t] = "ok" \/ Stored(t) THEN "leaving" ELSE "releasing")
  /\ leases' = leases \ {t}
  /\ UNCHANGED <<queueVars, ledgerVars, stepVars, planVars, ran>>

ReleaseClaim(t) ==
  /\ At(t, "releasing", "leaving")
  /\ IF Settled(KeyOf[t]) THEN UNCHANGED ledgerVars ELSE Drop({KeyOf[t]})
  /\ UNCHANGED <<queueVars, leases, stepVars, planVars, ran>>

----------------------------------------------------------------------------
(* Plans: their context, their end, their rollback *)

EndContext(p) ==
  /\ p \in MayEnd \ ended /\ ended' = ended \cup {p}
  /\ UNCHANGED <<queueVars, ledgerVars, leases, pc, stepVars, stage, journal, undone, ran>>

StepsOf(p) == {t \in Task : PlanOf[t] = p}

\* Every branch has reached a definite outcome, or never will be tried.
Quiet(p) == \A t \in StepsOf(p) : pc[t] = "ended" \/ (pc[t] = "idle" /\ ~Startable(t))

Errs(p) ==
  \E t \in StepsOf(p) :
    Instead[t] = None /\ Failed(t) /\ t \notin Optional /\ ~Replaced(t)

Finish(p) ==
  /\ stage[p] = "running" /\ Quiet(p)
  /\ stage' = [stage EXCEPT ![p] = IF Errs(p) THEN "rolling" ELSE "succeeded"]
  /\ UNCHANGED <<queueVars, ledgerVars, leases, pc, stepVars, ended, journal, undone, ran>>

\* MUTANT of Undo: in the order of completion.
UndoInOrder(p) ==
  /\ stage[p] = "rolling" /\ Len(undone[p]) < Len(journal[p])
  /\ undone' = [undone EXCEPT ![p] = Append(@, journal[p][Len(@) + 1])]
  /\ UNCHANGED <<queueVars, ledgerVars, leases, pc, stepVars, stage, ended, journal, ran>>

\* Compensate is tried on what completed last and is still to do, on a context
\* of its own.  It may fail, and a tool without it is skipped: the report counts
\* them, and the next is tried all the same.
Undo(p) ==
  LET left == Len(journal[p]) - Len(undone[p]) IN
  /\ stage[p] = "rolling" /\ left > 0
  /\ undone' = [undone EXCEPT ![p] = Append(@, journal[p][left])]
  /\ UNCHANGED <<queueVars, ledgerVars, leases, pc, stepVars, stage, ended, journal, ran>>

RolledBack(p) ==
  /\ stage[p] = "rolling" /\ Len(undone[p]) = Len(journal[p])
  /\ stage' = [stage EXCEPT ![p] = "failed"]
  /\ UNCHANGED <<queueVars, ledgerVars, leases, pc, stepVars, ended, journal, undone, ran>>

----------------------------------------------------------------------------

Progress(t) ==
  \/ Acquire(t) \/ Granted(t) \/ Leaves(t) \/ Leave(t)
  \/ Claim(t) \/ Await(t) \/ StopsWaiting(t) \/ Enter(t)
  \/ Call(t) \/ Answer(t) \/ Retry(t) \/ \E how \in Error : CallFails(t, how)
  \/ ReturnLease(t) \/ ReleaseClaim(t)

Refusal(t) ==
  \/ Unbound(t) \/ Refuse(t) \/ NotDispatchable(t) \/ BadAnswer(t)
  \/ \E how \in Error : Stop(t, how)

RunPlan(p) == Finish(p) \/ Undo(p) \/ RolledBack(p)

Next ==
  \/ \E t \in Task : Progress(t) \/ Refusal(t)
  \/ \E p \in Plan : EndContext(p) \/ RunPlan(p)
  \/ Expire \/ Sweep

Spec == Init /\ [][Next]_vars

----------------------------------------------------------------------------
(* What is checked *)

HoldsClaim(t) ==
  \/ pc[t] \in {"entering", "calling", "called", "releasing"}
  \/ pc[t] = "returning" /\ outcome[t] # "ok" /\ ~Stored(t)

TypeOK ==
  /\ QueueTypeOK
  /\ entry \in [Key -> [state : {"none", "inFlight", "completed", "failed"},
                        owner : Task \cup {None}]]
  /\ order \subseteq Key \X Key /\ expired \subseteq Key /\ forgotten \subseteq Key
  /\ leases \subseteq Task /\ ran \subseteq Task
  /\ pc \in [Task -> {"idle", "queued", "admitted", "claiming", "waiting", "entering",
                     "calling", "called", "returning", "releasing", "leaving", "ended"}]
  /\ round \in [Task -> 0 .. MaxRounds] /\ holder \in [Task -> Task \cup {None}]
  /\ attempt \in [Task -> 0 .. MaxAttempts]
  /\ phase \in [Task -> {"none", "invoke", "output"}]
  /\ outcome \in [Task -> {"none", "ok", "replayed", "failed", "stopped"}]
  /\ stage \in [Plan -> {"running", "rolling", "succeeded", "failed"}] /\ ended \subseteq Plan
  /\ journal \in [Plan -> Seq(Task)]
  /\ undone \in [Plan -> Seq(Task)]

\* Whoever is at work on a key holds its entry, and nobody else does.
ClaimsAreExclusive ==
  /\ \A t \in Task : HoldsClaim(t) => entry[KeyOf[t]] = [state |-> "inFlight", owner |-> t]
  /\ \A k \in Key : entry[k].state = "inFlight" =>
       entry[k].owner \in {t \in Task : HoldsClaim(t) /\ KeyOf[t] = k}

\* The ledger's queue names exactly the keys that have an entry, one behind the
\* other, and they expire from its front (Claim, Release, the evictions).
OrderMatches ==
  /\ Queued = {k \in Key : entry[k] # NoEntry}
  /\ order \subseteq Queued \X Queued
  /\ \A j, k \in Queued :
       /\ <<j, k>> \in order \/ <<k, j>> \in order
       /\ <<j, k>> \in order /\ <<k, j>> \in order => j = k
       /\ \A i \in Queued : <<i, j>> \in order /\ <<j, k>> \in order => <<i, k>> \in order
  /\ expired \subseteq Queued
  /\ \A j, k \in Queued : <<j, k>> \in order /\ k \in expired => j \in expired

\* What was called is remembered: the key has an entry, or lost one since.
RanIsRemembered ==
  \A t \in ran : KeyOf[t] \in forgotten \/ entry[KeyOf[t]] # NoEntry

LedgerInv ==
  TypeOK /\ QueuesHoldTheWaiting /\ ClaimsAreExclusive /\ OrderMatches /\ RanIsRemembered

\* Two executions call the tool for one key only after the ledger lost what it
\* knew of the key: its window passed, it was dropped for capacity, or the
\* answer was refused and the claim released (Claim, Settle, Release, Sweep).
SecondRunIsExplained ==
  \A t, u \in ran : t # u /\ KeyOf[t] = KeyOf[u] => KeyOf[t] \in forgotten

\* A step told "done already" shares its key with a step that called the tool
\* and whose answer was accepted (replay, Await).
ReplaysAreTrue ==
  \A t \in Task : outcome[t] = "replayed" =>
    \E u \in ran : KeyOf[u] = KeyOf[t] /\ outcome[u] = "ok"

\* A plan that failed has tried to undo every step it completed itself, last
\* first, and a plan that succeeded none (Rollback: reverse order, and every
\* step is attempted even after one fails).
FailedPlansAreUndone ==
  \A p \in Plan :
    /\ stage[p] = "failed" =>
         /\ Range(undone[p]) = {t \in StepsOf(p) : outcome[t] = "ok"}
         /\ undone[p] = Reverse(journal[p])
    /\ stage[p] = "succeeded" => undone[p] = <<>>

\* No executions wait for each other for ever, in the queue, for a key or for a
\* place in the sandbox: while a plan is unfinished, some goroutine can go on,
\* unless the queue has lost a slot (see EverySlotHasAHolder).
CanGoOn(t) ==
  \/ Startable(t)
  \/ pc[t] \notin {"idle", "queued", "waiting", "ended"}
  \/ pc[t] = "queued" /\ place[t] = "granted"
  \/ pc[t] = "waiting" /\ entry[KeyOf[t]] # [state |-> "inFlight", owner |-> holder[t]]

NoStandstill ==
  \/ \A p \in Plan : stage[p] \in {"succeeded", "failed"}
  \/ \E p \in Plan : stage[p] = "rolling" \/ (stage[p] = "running" /\ Quiet(p))
  \/ \E t \in Task : CanGoOn(t)
  \/ ~EverySlotHasAHolder

=============================================================================
