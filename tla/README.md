# Verification of the Aegis voice agent

TLA+ models of the parts of this repository whose correctness depends on the
order in which concurrent things happen, TLC configurations that check them on
small instances, and TLAPS proofs of what matters most for every instance.

## The system

The platform answers phone calls for a subscriber: a Go back end (services under
`src/services/go`, libraries under `src/packages/go`), Python placeholders for
model hosting, and an Android client. Which parts carry logic of their own:

| Part | State it keeps | Operations | Interacts with | What is hard | What makes it correct |
|---|---|---|---|---|---|
| telephony-gateway fence (`internal/fence`) | `held`, `acquired`, `confirmed` per process; one advisory lock in PostgreSQL | `Run`/`holdOnce`, `release`, `Shutdown`, `Owned` | PostgreSQL sessions, failover; gates all gateway work | lost sessions, late answers, failover, crash, pauses | never two active owners |
| identity: refresh rotation (`internal/app/identity.go`, `pgstore`) | session row with the current token's hash; superseded hashes | `RefreshToken`, `RefreshTokenWithDeviceProofAndIntegrity` | store transactions; revocation, erasure; the Android client | racing refreshes, revocation between read and swap, lost commit answers | a token redeems once; reuse ends the family |
| identity: one-time codes | challenges, requests, failures, lock per number | `RequestOtp`, `ValidateOtp` | store, delivery providers, erasure | racing validations, clocks read before the store call, failed calls | one session per code, counted attempts, one lockout reported once |
| identity: account erasure | sessions, codes, receipts, erasures of a subscriber | delete with a session or a code | sign-in's `ErasureFence`, rotation | erasure between the steps of a sign-in or refresh; repeats | nothing erased comes back; one erasure per credential |
| telephony runtime (`packages/go/telephony`) | registry shards and counter, slots per provider, session state machines, snapshots | `Begin`, call operations, `End`/`Fail`, `Dispatch`, sweeper, ticker, `Stop`, recovery | adapters, snapshot store | five goroutines may end a call; admission spans two structures; crash and recovery | every slot is returned once; ceilings hold; abandoned calls are recovered |
| AI runtime core (`packages/go/runtime`) | breaker window and probes, scheduler slots, dispatcher streams | `Allow`/report, `Admit`/release, `Close`/`Wait` | model providers, kernel | late reports, overshoot, drain | probe limit, bounded concurrency, complete drain |
| tool runtime (`packages/go/toolruntime`) | idempotency ledger, journal, queue, breakers | `Claim`/`Await`/`Settle`/`Release`, `Execute`, `Rollback` | tools with side effects | duplicates in flight, retries, timeouts of a call that took effect | a mutating call runs at most once and is undone on rollback |
| voice pipeline (`packages/go/voice`) | floor lock, generation, session FSM, active turn | frames in, turns, synthesis, barge-in, stop | speech providers, audio intelligence | an interruption at any point of a turn | no audio of a superseded turn reaches the caller |
| media engine (`packages/go/media`) | ring buffer arena and slots, jitter buffer | `Write`, `Read`, `Flush`, `Restore` | streams, speech | variable frame lengths, reordering, sequence wrap | a queued frame is read back as written |
| speech, conversation, governance, memory | session reservations; dialogue state; approvals and emergency stop; records | | voice, tools | failover, expiry, late approvals | one speaker; no action without a standing decision |
| service platform (`packages/go/platform`) | runners, readiness | `Run`, `shutdown` | every service | a runner's exit racing a signal; a shutdown budget | runners stop in reverse order, within the budget |
| outbox, shared stores, DPoP | outbox rows; replay reservations | `ProcessBatch`; `Reserve` | event bus, PostgreSQL | crash between publish and mark; two servers' clocks | at least once; a proof is accepted once |
| Android client (`android/core/auth`) | one encrypted session record | `accessToken`, `refreshAfterRejection`, `deleteAccount` | identity | an answer lost or a coroutine cancelled after the server rotated | a superseded token is not presented again |
| audio intelligence, intent, evaluation, metrics, telemetry, generated code, UI, placeholders | | | | sequential or presentational | left to their tests |

`PROJECT.json` lists every component with its status, and under `hazards` what
is hard to test, at its line, with the property that covers it or the planned
module that will.

## Modules

| Module | Role |
|---|---|
| `Fence` | the fence: every step of `Run`, `holdOnce`, `release`, `Shutdown`; servers, sessions, failover |
| `RefreshRotation` | racing refreshes of one session against its row |
| `TokenFamily` | abstract: what rotation promises of one session |
| `OtpSignIn` | requests and validations of one number, and its limits |
| `AccountErasure` | one subscriber's erasures, sign-ins and rotations |
| `CallRuntime` | admission, call lifecycle, sweeper, snapshots, shutdown, recovery |
| `ToolQueue` | admission of tool executions: slots, classes, handover to waiters |
| `ToolExecution` | extends `ToolQueue`: the ledger, the executor, plans and their undoing |
| `Breaker` | one provider's circuit breaker |
| `Generation` | extends `Breaker`: scheduler, sessions, retries and failover, shutdown |
| `JitterBuffer` | the reordering buffer of one media stream |
| `MediaStream` | extends `JitterBuffer`: pipeline, output ring, pumps, state machine, sweeper |
| `BargeIn` | one voice session: ingest, turns, pumps, interruption, end of the call |
| `MC*` | constants, symmetry and views for TLC |
| `TelephonyProofs` | theorems and proofs of `Fence` and of `CallRuntime` |
| `RefreshProofs`, `OtpProofs`, `ErasureProofs`, `ToolProofs`, `GenerationProofs`, `MediaProofs`, `BargeInProofs` | theorems and proofs of `RefreshRotation`, `OtpSignIn`, `AccountErasure`, `ToolExecution`, `Generation`, `MediaStream`, `BargeIn` |

Every component module has the same shape: constants with a named assumption,
variables, one operator per step of the code, `Next`, `Spec` (`FenceNext` and
`FenceSpec` in `Fence`, whose proofs stand beside `CallRuntime`'s), then a type
invariant, the properties, the inductive invariant in named parts, and the
mutated definitions that show each property can fail. An action is what one
goroutine, request or process does between two points where another can see its
work: one query, one store transaction, one mutex section, one atomic counter.

### Fence

`held`, `acquired`, `confirmed` are the fields of `Fence`; `pc` is the place in
`holdOnce`; `sent`, `received` and `answer` are the query in flight. A query is
evaluated by the server between `Dial`/`TryLock`/`Heartbeat` and the action that
receives it (`Evaluate*`), so an answer can be late, lost, or lost after it took
effect. `lock` and `backend` belong to the servers: they drop sessions, fail
over and reap the sessions of crashed clients. `Owned` is the code's own
predicate. Assumptions: one clock read by every process, which the package's
comment names; at most one writable primary at a time; demotion ends the
sessions of the demoted server. A timed-out `TryLock` that takes effect on a
session nobody uses any more is the `Orphan` holder.

The guard of fence.go:309 (a confirmation sent after the window does not revive
ownership) is not needed for mutual exclusion, which the heartbeat's own
lock check already gives; `NoLateRevival` checks it for its own sake.

### RefreshRotation and TokenFamily

A call goes through read, proof, sign and swap; each store call is one step and
another call can come between any two. `current` and `superseded` are the
session row and `identity_refresh_superseded`; `Swap` is the compare-and-swap of
`ReplaceSession`. A call may be told of a failure that took effect
(`SwapUnacknowledged`). Proof and integrity checks are one accept-or-refuse
choice. `ImplementsFamily` maps `current` to the family's live token,
`superseded` to its spent ones, and revocation or erasure to its end.

### OtpSignIn

Requests (`stage`) and validations (`pc`) of one number. The number's rate
state is one row (`requests`, `failures`, `lockedUntil`, `lockedBy`), changed
under its row lock. The service reads its clock before the store call, and time
passes in between: a stale reading shifts a window by the delay of the call.
Instants are small numbers; the run's attempts, failures, requests and windows
are small stand-ins for the code's 3 attempts, 5 failures, 3 requests and 15
minutes. A lock may stand with fewer than `MaxFailures` counted failures (a
release prunes failures, not a lock another call set); that is the code, and
`StandingLockWasReported` says what still holds. Deletion codes use the same
limiter; their use of it is not modelled.

### AccountErasure

One subscriber. A transaction is one step: the subscriber's advisory lock and
the row locks order it with the others (their deadlock freedom is planned as
`ErasureLocks`). `began` is the instant `validateOtp` hands the fence; `of` and
`presented` are what a request carries; `receipts` answer a repeat, and the
loser of a race between two deletions of one session.
What codes and tokens promise is reduced to what erasure sees of them.

### CallRuntime

`begin` and `ending` say how far `Begin` and whoever ends a call have come.
`Register` is two steps, the shard's map and then the counter, as in the code;
`end` is the transition, `Remove`, its counter, `Release` and the snapshot's
deletion, each a step. Times are abstract: a state that has a deadline may
outlive it at any moment. Adapters call only after `Start` returned, with
identifiers from `Begin` or recovery; `Stop` is called once, while running.
Recovering one session is one step, since nothing else runs before `Start`
returns; a snapshot's check of the state and its capture are one step. Events,
sequence numbers, histories, durations and legs are left out, and so is the
direct use of `CallLifecycle.Disconnect` and `Fail`, which the code documents as
leaking a slot.

### ToolQueue and ToolExecution

`place` says where a task's `Acquire` has come: `release` picks a waiter under
the lock and wakes it afterwards, so "granted" is a place of its own, in which
the waiter's context can still end. The forced yield, the consecutive count and
the three classes are those of `nextWaiterLocked`.

`entry` and `order` are the ledger's map and its eviction list, the list as the
relation of who stands before whom (`Queued`, `Without`, `Behind`); `Claim`,
`Settle`, `Release`, `Await`, `Sweep` and both evictions are one mutex section
each, and the executor's phases between them are places in `pc`. `phase` and
`outcome` are what a result carries, which decides whether a failure is stored
or the claim released. A plan is given by `Before` (sequences and parallel
groups) and `Instead` (a fallback candidate). `journal` is what the compensator
works through, `undone` what it tried. `ran` and `forgotten` are history. A
tool's answer, a refusal of its output and the end of a context are choices.
Two-candidate chains stand for longer ones; conditional steps, the per-tool
ceilings of the sandbox and the dead-letter queue are left out.

### Breaker and Generation

A report carries the ticket `Allow` gave, and the breaker may have moved on
since. The window is a sequence from which any number of the oldest may have
left before each report; the cooldown may end at any time.

`Admit` is the flag, the load, the counters and the semaphore read one after the
other, so work can be counted after `Close` and `Wait` (`late` remembers who).
`free` are the tokens in the semaphore's channel; work of an unsheddable class
that finds none goes on without one, and gives one back if the channel has
room. `Generate` gives back in the code's order: the session's request, the
scheduler's counter, the slot, the wait group, each a step of its own, as the two
counters of admission are. A stream ends in two steps, the last of which waits
for the sinks and for the provider's `Close`. `Sweep` takes a session out of
its shard and `Expire` marks it later, after the shard's lock was released.
One provider's breaker serves every model; a stream's content is left out.

### JitterBuffer and MediaStream

A frame is its sequence number, and the source may lose, repeat and reorder
frames. `Push` is four steps: the stream's state (`Write`), the pipeline's check (`Begin`
or `Refuse`), the jitter buffer (`Offer`), the counters (`Count`). Each takes
its lock anew, and pumps, flushes and ends come between. `Flush` empties the
jitter buffer and then the ring. `playout`, `frontier`, `releaseFrontier` and
`current` are the buffer's fields; the measured jitter, hence the direction `adaptLocked` steps in, is a
choice. `pump` says how far each of the two goroutines that may run
`pumpLocked`'s steps has come: `Get`, the reading of what is expected, each
silence, the frame, the note. `ring` keeps each frame's place in the arena, and
`tail` follows `dataTail`. `undelivered` is what the pipeline's three counters
leave over. No counter shows what `Flush` throws away: `flushed` is history that
remembers it, and the books balance with it and not without
(`EveryDropIsCounted`). Frames of one stream have one length, as its format
says; the run says nothing of a ring whose frames have several, which can
overlap (below).

### BargeIn

`state` is the session's machine, its three terminal states being one. `job`
holds each turn's goroutine, its generation, what it has open and its pump;
`active` is what an interruption abandons; `FloorFree` stands for the floor lock
where a section takes several steps. A transition publishes its event before it
returns, so the steps after one (`return`, `returned`, `read`, `handed`,
`spoken`, `cancel`) are places in which a goroutine waits for the broker, with
the floor's lock where it holds it. The session's context ends by `stop`, by the
refusal of a late `Start`, or because the context `Start` was given does
(`ContextEnds`): then nobody need stop the session, every goroutine leaves its
end to a `stop`, and its machine stays where it is. `stop`'s flag, its bump of the generation
and its cancelling of the turn are one step; a failing analysis and a failing
recogniser are one action, since both stop the session. Ends of the
dispatcher, recogniser and synthesiser are choices. The bounded queues of
frames, segments and audio are left out: their overflow drops data and moves
nothing.

## Runs

| Run | Instance | Shows |
|---|---|---|
| `fence_safety` | 2 processes, 2 servers, interval 2, timeout 1 | never two owners; a late answer revives no ownership; the inductive invariant |
| `refresh_rotation` | 3 calls, 4 tokens | single use, reuse ends the family, nothing released after the end, refinement of `TokenFamily` |
| `otp_validations` | 3 calls on 1 code, limits 2 | one session per code, attempts not lost, failures counted, a standing lock was reported, `RetryAt` exact |
| `erasure` | 2 deletions with a session, 1 with a code, 1 sign-in, 1 rotation | done means erased; of two deletions with one session's token neither is refused when the other erased; a sign-in begun no later than the request is kept out; only the current token erases |
| `call_runtime` | 2 calls, 1 place at the provider, 1 restart, fair sweeper | slots pair, the ceiling, what `Stop` saved is kept, no call stays in a state before media |
| `call_slots` | 2 calls | finding: calls that end without the coordinator keep their slot |
| `tool_execution` | 2 plans, 5 steps, 2 keys, 1 ledger entry, 2 slots, 1 place in the sandbox | exclusive claims; a second call of a tool is explained by a lost entry; replays are true; failed plans are undone; no standstill |
| `tool_slots` | the same | finding: a waiter picked while its context ends loses the slot |
| `generation` | 2 generations, 1 slot, 1 session, thresholds 1, fair goroutines | counters agree on every path; no slot and no trial place lost; a clean drain misses only latecomers; a generation ends unless a provider or a sink keeps a call for ever |
| `media_stream` | 4 frames, buffer 2, ring 2, gap fill 1, delays from 0 to 2, 1 flushed frame, fair pumps | every frame accounted for, the flushed ones by history; arena frames of one length disjoint; no hole stalls a stream that has released; output in order; a full buffer takes frames again |
| `media_stall` | the same, delays from 1 to 4 | finding: a stream that starts above timestamp zero fills up and releases nothing |
| `voice` | 2 turns, fair goroutines | whoever moves the session owns it; no abandoned turn is heard; nothing stays open; turns end where publications and overdue calls return and a cancelled session is stopped |

**Bounds.** Counts were chosen so that every race of the code needs no more
actors than the instance has: two processes suffice to own twice, three
refreshes for a winner, a loser and a reuse, three validations for two wrong
codes and a right one, two calls for one place of a provider, three executions
of one key for a runner, a waiter and one that finds the entry gone, two
generations for one slot of which one may overshoot, four frames for a
hole with a frame before it and two behind, two turns for one that is
interrupted and one that must not be disturbed. Limits (one ledger entry, one
trial, a ring of two) are the smallest at which the code meets them. Clocks are
bounded by `MaxClock`; the fence's run uses a view relative to the clock, so its
bound only ends the run. `MaxRestarts` bounds replacements of the process,
`MaxTurns` the turns of a call, `LastSequence` the frames of a source,
`MaxObservations` the window of the breaker, `MaxFlushed` the frames that
flushes throw away in one behaviour. With `MaxClock` 3 and a window of 2
each rate window opens and passes once. Deadlock checking is off where every
request may have been answered, the call ended or the process stopped for good;
it is on for the fence, which always has a next step.

**Fairness.** Four modules state any. What is assumed of others is said here or
is a premise of the property.
- `CallRuntime!FairSpec`: weak fairness of `Sweep` and `Reap`, which `sweepLoop`
  runs on a ticker from `Start` until `Stop` closes its channel.
- `Generation!FairSpec`: the kernel's own steps of each goroutine that asked.
  The return of `provider.Generate`, which has the caller's context and no
  deadline of the kernel's, and of the sinks and the stream's `Close`, which have
  none, is not fair. `GenerationsEnd` has it as a premise for each generation: a
  provider that hangs keeps its generation, the slot and whoever drains. That
  `Recv` returns when the stream's deadline has passed is assumed
  (`StreamEnds`): the stream's context is the one argument it has.
- `MediaStream!FairSpec`: the pump loop's ticker, a started pump, and a consumer
  that keeps reading. `Push` and `Flush` need never be called again.
- `BargeIn!FairSpec`: the session's own steps of every goroutine, the first step
  of a `stop` that has begun, and a turn's timer. Nothing is assumed of the
  recogniser, the synthesiser, the model, the sink, the controller, the planner
  or the broker. `TurnsEnd` has three premises: every publication returns
  (`Publishing`; a broker that honours its context alone may block until the
  session ends, as bargein_test.go:1403 shows, and the floor with it), every call
  returns whose context has ended or that was given none (`Detained`), and a
  session whose context is cancelled is also stopped. TLC finds the turn that
  stays when any one of the three is left out. The floor's lock and the
  mutexes are taken to be free in the end when their holders go on.

## What the code does and its comments do not say

Three runs end in a counterexample; their findings in `PROJECT.json` quote the
sentence each contradicts.

1. `call_slots`: a call that ends by a provider's failure or a carrier's signal,
   by the reaper, or in recovery keeps its slot.
2. `tool_slots`: a waiter that `release` picked and whose context ends leaves its
   slot occupied by nobody.
3. `media_stall`: a stream whose first frame is not the first of the timeline
   fills its jitter buffer and releases nothing.

More were met on the way. Where one is named below, it is stated in its module,
in the section on what the comments say, and does not hold; a configuration with
the definition as its only property shows it:

- `FailedRotationKeepsToken` (`RefreshRotation`): a commit whose
  acknowledgement is lost rotates the session although "a rotation that was not
  persisted did not happen".
- `EvaluationsAreBounded` (`OtpSignIn`): releasing a reservation whose challenge
  was gone frees the slot of a code that was compared.
- `ExhaustedIsNotCompared` (`OtpSignIn`): the attempt guard reads a copy, so a
  code is compared although the stored counter has reached the limit.
- `NoSignInOutlivesErasure` (`AccountErasure`): a sign-in that begins after the
  erasure was requested and before it commits leaves its session behind.
- `RegistryWithinCapacity` (`CallRuntime`): scheduler.go:77-80 says one lock
  spans decision and reservation; the global ceiling is compared with sessions
  that register after that lock was released, so calls that begin together
  exceed it.
- `ResumedCallsHoldASlot` (`Capacity` 2, one restart): recoverOne registers the
  session before it asks `Admit`, which counts it, and ignores the answer; at
  full capacity the last resumed call goes on without a slot (recovery.go:324).
- `DrainingRegistersNothing`: a `Begin` that passed its check (runtime.go:458)
  registers its call while `Stop` drains.
- `StoreHoldsNoForgottenCall`: the ticker writes back the snapshot of a call that
  ended and was deleted since it was collected (recovery.go:382).
- `DeadlinesAreEnforced` (under `FairSpec`): Rejected, Transferred, Escalated and
  Recovery have a deadline and the table has no way from them to Timeout.
- `WaitEndsWithNobodyAdmitted` (`Generation`): `Admit` reads the closed flag
  before it counts its task, so `Wait` may end while one is still on its way
  (scheduler.go:378). The proved form says it misses nobody else.
- `BusySessionsAreKept` (`Generation`): a request is counted after the state was
  checked, and the sweeper may expire the session in between (session.go:493).
- `TrialsAreLimited`, `OpensOnEvidence` (`Breaker`): a trial of an earlier
  half-open period returns a place of the present one (breaker.go:181), and one
  that fails late opens the breaker with fewer observations than the minimum
  (breaker.go:48).
- `EveryDropIsCounted` (`MediaStream`): `Flush` throws away what the jitter
  buffer holds and touches no counter, so accepted frames are neither delivered
  nor counted as dropped (pipeline.go:135, 399).
- `NothingIsRefusedByTheRing` (`MediaStream`): the silence before a frame can
  fill the ring that had room for the frame (pipeline.go:277).
- `OutputAlwaysInOrder` (`MediaStream`): the pump loop and a reader that pump at
  once put frames out of order (stream.go:600).
- `NothingIsHeardAfterTheEnd` (`BargeIn`): a turn that takes the floor between
  `stop`'s bump and the end of the session is heard after it (pipeline.go:583).

Read in the code and not stated as a property:

- A mutating tool whose output is refused releases its claim, so the same call
  runs it again (executor.go:318-321), where TOOL_RUNTIME.md:249 promises one
  execution per key; `SecondRunIsExplained` lists this as one of the reasons.
- A waiter of a released claim is answered `ErrCancelled`, where the comment of
  `Await` lets it proceed (executor.go:186-197).
- `nextWaiterLocked` yields only to the lowest class that waits, so a middle one
  can be passed over (queue.go:267-297).
- A replay may answer for work that a rollback has undone since.
- A breaker that is half-open with every place taken waits for a report; the
  cooldown does not reclaim a place, as the comment of `Allow` says it would.
- `JitterBuffer.Reset` keeps the released mark; only tests call it.
- With frames of several lengths a frame placed at the start of a nearly full
  arena can cover one that is still queued (buffer.go:284).
- A snapshot reads the ring and then the jitter buffer; a frame that is pumped
  in between is in neither copy.
- A session whose context is cancelled and that nobody stops stays in the state
  it was in, thinking or speaking included: `sessionEnding` leaves the terminal
  transition to a `stop` (pipeline.go:1195, 1247).
- A barge-in between taking the floor and opening the synthesiser is noted as a
  fault of the provider.

## Proofs

TLAPS checks, for every value of the constants that satisfies the modules' named
assumptions:

| Theorem | Property | Argument |
|---|---|---|
| `TelephonyProofs` `SingleOwner` | `MutualExclusion` | `FenceInv`: of two claims to the lock one's window closes before the other's grace ends, and the server's holder comes last. Owning at one instant contradicts the order. |
| `TelephonyProofs` `LeavesNotHeld`, `FenceTypeCorrect` | `NotHeldOutsideHold`, `FenceTypeOK` | parts of `FenceInv` |
| `TelephonyProofs` `LapsedIsLapsed` | `NoLateRevival` | a step that lets a process own again within its hold confirms an answer, and `Confirm` asks whether the window had lapsed when its query was sent |
| `RefreshProofs` `TokensAreSingleUse`, `ReuseIsRecognised` | `SingleUse`, `SupersededStaysSuperseded` | `RotationInv`: what a call succeeded with is superseded, and nothing superseded is current, so a second success would need a token both |
| `RefreshProofs` `RotationImplementsFamily` | `ImplementsFamily` | every action redeems, ends or stutters, under `RotationInv` |
| `RefreshProofs` `ReuseIsFinal`, `EndedFamiliesReleaseNothing` | `ReuseEndsTheFamily`, `NothingReleasedAfterTheEnd` | a revoked or erased session never becomes swappable again, and a pair is released by a swap only |
| `OtpProofs` | `OneSessionPerChallenge`, `ConsumedStaysConsumed`, `AttemptsAreNotLost`, `CountedWhileInWindow`, `StandingLockWasReported` | `OtpInv`: removing a challenge has one winner; a reservation stands for its window; a lock is settled by the call that set it |
| `OtpProofs` `RefusalsAreExact` | `RetryAtIsExact` | `WindowsHold`: a window never holds more than it admits, so when its oldest event leaves there is room, and before that, or within the lockout, there is none; the oldest exists because times are well-founded |
| `ErasureProofs` | `FenceHolds`, `ErasedStaysGone`, `OneErasurePerCredential`, `DoneMeansErased`, `OnlyTheCurrentTokenErases` | `ErasureInv`: a receipt stands for exactly one erasure and what it names is gone; each sign-in saves once |
| `ErasureProofs` `LosersAreAnswered` | `BothDeletionsSucceed` | `DeletionInv`: what a deletion knows of its session when it erases or looks for a receipt, what the erasing one carried, and that a right deletion is refused only where no receipt it may use is left |
| `TelephonyProofs` `SlotsPaired`, `CeilingHolds` | `SlotsAreReservations`, `ProviderCeiling` | `CallRuntimeInv`: whoever will return a slot, and every unfinished call, holds one; no two are at work on one call's end |
| `TelephonyProofs` `StopKeepsCalls` | `AbandonedCallsAreKept` | `KeptAgree`: once `Stop` has saved, recovery is over, each saved call has its session, and a delete is only of a call that is over |
| `ToolProofs` `LedgerSafe`, `SecondRuns`, `Replays` | `LedgerInv`, `SecondRunIsExplained`, `ReplaysAreTrue` | `ToolIInv`: unless its key was forgotten, only the owner of a claim in flight has called; an entry that says done was written by the one who did it; an eviction takes settled entries only, and a called key it takes counts as forgotten |
| `ToolProofs` `RollbackComplete` | `FailedPlansAreUndone` | `JournalsAgree`: the journal holds the steps that came out well, none is added once the plan has ended, and what is undone is its end, last first |
| `ToolProofs` `StandstillFree` | `NoStandstill` | an execution that waits for a key waits for a claim whose owner is neither waiting nor queued; a queued one for a slot that somebody inside the queue holds. Neither chain can close |
| `GenerationProofs` `GenerationSafe`, `SlotsStay`, `TrialPlacesStay`, `DrainMissesOnlyLatecomers` | `GenerationInv`, `NoSlotIsLost`, `NoTrialPlaceIsLost`, `CleanDrainMissesOnlyLatecomers` | `GenerationIInv`: every counter is the number of generations at the places that hold it, so a move changes it by what the move gains; `AttemptsAreLeft` bounds retries, and `OnlyLatecomers` says who can be counted once a drain was clean |
| `MediaProofs` `MediaSafe`, `NoHoleStalls` | `MediaInv`, `ReleasedStreamsKeepMoving` | what is held lies ahead of what was released, and the playout position never falls behind the release limit, so the head is due or a hole can be stepped over; every step of `Push`, a pump or `Flush` moves a frame between the places the account names, `flushed` being one; the arena is a circle in which each frame starts where its predecessor ends or at 0 |
| `MediaProofs` `OrderHolds` | `OutputInOrder` | `OrderKept`: until two pumps have had frames at once one has; its frame was released, and it and the silence before it follow the last real frame in the ring, because what is expected next does once that frame was noted |
| `BargeInProofs` `VoiceSafe`, `MoversOwn`, `AbandonedTurnsAreSilent`, `EverythingIsClosed` | `VoiceInv`, `MoversOwnTheSession`, `AudioFollowsTheFloor`, `NothingIsLeftOpen` | `VoiceIInv`: while the call lasts, a turn whose generation is the current one is the session's turn, holds the floor and is not being interrupted; whoever loses the floor first loses the generation. `AudioIInv`: a turn whose context lasts is the one an interruption or `stop` would cancel, and whatever is open has a goroutine or a pump that closes it |

An invariant that speaks of what has happened is seldom inductive by itself: the
strengthening adds what is in flight (answers not yet received, reservations not
yet settled, slots on their way back, frames in a pump's hands). The inductive
invariants `FenceInv`, `RotationInv`, `OtpInv`, `ErasureInv` and `CallRuntimeInv`
are also checked by TLC in their runs; `KeptAgree`, `ToolIInv`, `OrderKept` and
those of `GenerationProofs`, `BargeInProofs` and `MediaProofs` live beside the
proofs and were checked on the same instances.

Every invariant and every safety property of steps that a passing run checks is
now a theorem. Only model-checked are the liveness properties `SetupConcludes`,
`GenerationsEnd`, `BackpressureEnds` and `TurnsEnd`: liveness under fairness is
out of the prover's reach. The three runs that end in a counterexample, and the
statements listed under "What the code does", have no proof because they do not
hold.

What the proofs assume is what the modules name: finite sets of actors where
they are counted, durations and limits as the configuration's validation leaves
them, and that the distinguished values (no one, nothing) are not actors.

## Not modelled

- The parts `PROJECT.json` lists as not_modelled, each with its reason: wiring,
  decoding, SQL text, cryptography over one message, numeric signal processing,
  generated code, user interface and placeholders; and parts that have
  a module in the plan below.
- Sandbox ceilings per tool, conditional steps, dead letters; delivery of a
  stream to sinks, the context window; the media registry, clocks and snapshots
  with audio; the voice pipeline's bounded queues; a call's event order. Each is
  named in its component's note.
- The Android client's side of a lost refresh answer: `RefreshRotation` has the
  server's half, the client's is `DeviceSession` below.
- The order in which an erasure takes its row locks: a transaction is one step
  of `AccountErasure`, so its deadlocks are not visible there.

## Plan

What is left, in order of the harm a flaw would do:

1. `DeviceSession`: the Android authenticator against `TokenFamily` over a
   network that loses answers; it composes with `RefreshRotation`.
2. `CallEvents`: the session's history and event order, beside `CallRuntime`.
3. `ErasureLocks`: deadlock freedom of the transactions `AccountErasure` takes
   as steps.
4. `ServiceLifecycle`, `Outbox`, `ProofReplay`, `Housekeeping`.
5. The speech pipeline's reservation of a speaker, the conversation engine's
   turns and the governance engine's approvals and emergency stop, which meet
   `BargeIn` and `ToolExecution`.

Theorems to add: a specification of an idempotent call (a key's tool runs once
until it is forgotten) that `ToolExecution` implements, and of a counted resource
that `CallRuntime` and `Generation` implement, each as a refinement like
`RotationImplementsFamily`; then the lemmas of the modules above as they are
written.
