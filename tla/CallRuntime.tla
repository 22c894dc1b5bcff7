---------------------------- MODULE CallRuntime ----------------------------
(***************************************************************************)
(* The telephony runtime (packages/go/telephony): admission against the    *)
(* registry and the per-provider slots, the calls' state machine, the ways *)
(* a call ends, the sweeper, the snapshots, shutdown and recovery.         *)
(*                                                                         *)
(* A step is what one goroutine does between two places where another can  *)
(* see its work: a mutex section, an atomic counter, a store call.  Times  *)
(* are abstract: a state that has a deadline may outlive it at any moment. *)
(* Adapters use the runtime from the moment Start returns, with the call   *)
(* identifiers Begin or recovery gave them.                                *)
(***************************************************************************)
EXTENDS Naturals, Integers, FiniteSets

CONSTANTS
  Call, Provider,
  ProviderOf,            \* the provider that carries a call
  Capacity,              \* Config.Capacity(): the admission ceiling
  MaxCallsPerProvider,   \* 0: no limit
  MaxRestarts            \* bound: processes after the first

ASSUME CallRuntimeAssumption ==
  /\ IsFiniteSet(Call) /\ ProviderOf \in [Call -> Provider]
  /\ Capacity \in Nat \ {0} /\ MaxCallsPerProvider \in Nat /\ MaxRestarts \in Nat

VARIABLES
  runtime, restarts,     \* the process's stage; how often it was replaced
  state,                 \* the sessions' state machines
  registered, live,      \* CallRegistry: the shards' maps, and the counter
  slots,                 \* CallScheduler.perProvider
  begin, ending,         \* how far Begin, and whoever ends the call, came
  store,                 \* calls with a stored snapshot: survives the process
  batch,                 \* snapshots collected and not yet saved, per writer
  todo,                  \* snapshots loaded and not yet recovered
  kept,                  \* history: what Stop's snapshot saved
  reserved, overridden   \* history: calls whose slot was granted and not
                         \* returned; recovery went on without a slot

calls == <<state, registered, live, begin, ending>>
admission == <<slots, reserved, overridden>>
snapshots == <<store, batch, todo, kept>>
vars == <<runtime, restarts, calls, admission, snapshots>>

Stages == {"new", "recovering", "running", "draining", "saving", "closing", "stopped"}
Setup == {"idle", "incoming", "ringing", "screening", "accepted"}
Terminal == {"ended", "failed"}
CallState == Setup \cup Terminal \cup {"rejected", "connected", "muted", "hold",
                                       "transferred", "escalated", "timeout", "recovery"}
BeginSteps == {"unborn", "refused", "accepting", "admitted", "created", "counted", "begun",
               "removing", "uncounting", "unslotting", "gone"}
EndSteps == {"no", "remove", "count", "release", "delete", "forgotten", "kept",
             "reapRemove", "reapCount", "reaped"}
Writers == {"ticker", "stop"}

Init ==
  /\ runtime = "new" /\ restarts = 0
  /\ state = [c \in Call |-> "none"] /\ registered = {} /\ live = 0
  /\ slots = [p \in Provider |-> 0] /\ reserved = {} /\ overridden = FALSE
  /\ begin = [c \in Call |-> "unborn"] /\ ending = [c \in Call |-> "no"]
  /\ store = {} /\ batch = [w \in Writers |-> {}] /\ todo = {} /\ kept = {}

-----------------------------------------------------------------------------
(* The calls' state machine                                                *)

\* transitionSpec.
Exits == [s \in CallState |->
  CASE s = "idle"        -> {"incoming", "ringing", "failed", "timeout"}
    [] s = "incoming"    -> {"ringing", "screening", "rejected", "failed", "timeout"}
    [] s = "ringing"     -> {"screening", "accepted", "rejected", "failed", "timeout"}
    [] s = "screening"   -> {"accepted", "rejected", "escalated", "failed", "timeout"}
    [] s = "accepted"    -> {"connected", "failed", "timeout"}
    [] s = "connected"   -> {"muted", "hold", "transferred", "escalated", "timeout"} \cup Terminal
    [] s = "muted"       -> {"connected", "hold", "timeout"} \cup Terminal
    [] s = "hold"        -> {"connected", "muted", "transferred", "timeout"} \cup Terminal
    [] s = "escalated"   -> {"connected", "transferred"} \cup Terminal
    [] s = "recovery"    -> {"connected"} \cup Terminal
    [] s \in {"rejected", "transferred", "timeout"} -> Terminal
    [] s \in Terminal    -> {}]

\* CallSession.Transition: the machine moves, or refuses.
Transition(c, to) ==
  /\ to \in Exits[state[c]]
  /\ state' = [state EXCEPT ![c] = to]

\* MUTANT of HasDeadline: deadlineFor without the case of StateAccepted.
MutHasDeadline == {"idle", "incoming", "ringing", "screening", "rejected", "transferred",
                   "timeout", "escalated", "recovery"}

\* deadlineFor: the states a call may not stay in for ever.
HasDeadline == Setup \cup {"rejected", "transferred", "timeout", "escalated", "recovery"}

Unfinished(c) == c \in registered /\ state[c] \notin Terminal

\* An adapter that was given the call finds it in the registry.
Known(c) == begin[c] = "begun" /\ c \in registered
            /\ runtime \notin {"new", "recovering"}

-----------------------------------------------------------------------------
(* Begin                                                                   *)

Step(c, s) == begin' = [begin EXCEPT ![c] = s]

\* accepting(), and the context is valid.
Accepting(c) ==
  /\ begin[c] = "unborn" /\ runtime = "running"
  /\ Step(c, "accepting")
  /\ UNCHANGED <<runtime, restarts, state, registered, live, ending, admission, snapshots>>

\* The decision of Admit, under the scheduler's lock, which does not cover the
\* registry.
HasRoom(p, n) ==
  /\ n < Capacity
  /\ MaxCallsPerProvider > 0 => slots[p] < MaxCallsPerProvider

Reserve(c) ==
  /\ slots' = [slots EXCEPT ![ProviderOf[c]] = @ + 1]
  /\ reserved' = reserved \cup {c}

\* MUTANT of Admit: the provider's ceiling is checked with <=.
MutAdmit(c) ==
  /\ begin[c] = "accepting"
  /\ IF live < Capacity /\ slots[ProviderOf[c]] <= MaxCallsPerProvider
     THEN Step(c, "admitted") /\ Reserve(c)
     ELSE Step(c, "refused") /\ UNCHANGED <<slots, reserved>>
  /\ UNCHANGED <<runtime, restarts, state, registered, live, ending, overridden, snapshots>>

Admit(c) ==
  /\ begin[c] = "accepting"
  /\ IF HasRoom(ProviderOf[c], live)
     THEN Step(c, "admitted") /\ Reserve(c)
     ELSE Step(c, "refused") /\ UNCHANGED <<slots, reserved>>
  /\ UNCHANGED <<runtime, restarts, state, registered, live, ending, overridden, snapshots>>

\* lifecycle.begin refuses before it creates a session: no such provider, or
\* it cannot dial.
NotCreated(c) ==
  /\ begin[c] = "admitted"
  /\ Step(c, "unslotting")
  /\ UNCHANGED <<runtime, restarts, state, registered, live, ending, admission, snapshots>>

\* CallRegistry.Create: into the shard, then, outside its lock, the counter.
Create(c) ==
  /\ begin[c] = "admitted"
  /\ registered' = registered \cup {c}
  /\ state' = [state EXCEPT ![c] = "idle"]
  /\ Step(c, "created")
  /\ UNCHANGED <<runtime, restarts, live, ending, admission, snapshots>>

CountIn(c) ==
  /\ begin[c] = "created"
  /\ live' = live + 1
  /\ Step(c, "counted")
  /\ UNCHANGED <<runtime, restarts, state, registered, ending, admission, snapshots>>

\* The first transition, by direction; Begin returns the session.
First(c) ==
  /\ begin[c] = "counted" /\ state[c] = "idle"
  /\ \E to \in {"incoming", "ringing"} : Transition(c, to)
  /\ Step(c, "begun")
  /\ UNCHANGED <<runtime, restarts, registered, live, ending, admission, snapshots>>

\* The sweeper was faster: the first transition is refused.
FirstRefused(c) ==
  /\ begin[c] = "counted" /\ state[c] # "idle"
  /\ Step(c, "removing")
  /\ UNCHANGED <<runtime, restarts, state, registered, live, ending, admission, snapshots>>

\* Begin undoes what it did: CallRegistry.Remove, then Release.
UndoRemove(c) ==
  /\ begin[c] = "removing"
  /\ registered' = registered \ {c}
  /\ Step(c, IF c \in registered THEN "uncounting" ELSE "unslotting")
  /\ UNCHANGED <<runtime, restarts, state, live, ending, admission, snapshots>>

UndoCount(c) ==
  /\ begin[c] = "uncounting"
  /\ live' = live - 1
  /\ Step(c, "unslotting")
  /\ UNCHANGED <<runtime, restarts, state, registered, ending, admission, snapshots>>

\* CallScheduler.Release.
GiveBack(c) ==
  /\ slots' = [slots EXCEPT ![ProviderOf[c]] = IF @ > 0 THEN @ - 1 ELSE 0]
  /\ reserved' = reserved \ {c}
  /\ UNCHANGED overridden

UndoRelease(c) ==
  /\ begin[c] = "unslotting"
  /\ GiveBack(c)
  /\ Step(c, "refused")
  /\ UNCHANGED <<runtime, restarts, state, registered, live, ending, snapshots>>

-----------------------------------------------------------------------------
(* The call                                                                *)

\* Every operation that moves a call on, by its method or by Dispatch:
\* Ring, Screen, Accept, Reject, Connect, Mute, ..., Escalate, Timeout.
Move(c) ==
  /\ Known(c)
  /\ \E to \in CallState \ Terminal : Transition(c, to)
  /\ UNCHANGED <<runtime, restarts, registered, live, begin, ending, admission, snapshots>>

\* Dispatch applies a carrier's signal that the call is over, or the provider
\* does not answer in Accept: the transition, and no more.
Finish(c) ==
  /\ Known(c)
  /\ \E to \in Terminal : Transition(c, to)
  /\ UNCHANGED <<runtime, restarts, registered, live, begin, ending, admission, snapshots>>

\* End and Fail of the coordinator: of all that try, one gets the transition.
Conclude(c) ==
  /\ Known(c)
  /\ \E to \in Terminal : Transition(c, to)
  /\ ending' = [ending EXCEPT ![c] = "remove"]
  /\ UNCHANGED <<runtime, restarts, registered, live, begin, admission, snapshots>>

\* The sweeper runs from Start until Stop closes the channel.
Sweeping == runtime \in {"running", "draining", "saving"}

\* SweepTimeouts.
Sweep(c) ==
  /\ Sweeping /\ c \in registered /\ state[c] \in HasDeadline
  /\ Transition(c, "timeout")
  /\ UNCHANGED <<runtime, restarts, registered, live, begin, ending, admission, snapshots>>

\* ReapTerminal: end, by the sweeper.
Reap(c) ==
  /\ Sweeping /\ c \in registered /\ state[c] = "timeout"
  /\ Transition(c, "ended")
  /\ ending' = [ending EXCEPT ![c] = "reapRemove"]
  /\ UNCHANGED <<runtime, restarts, registered, live, begin, admission, snapshots>>

\* lifecycle.end removes the session: from the shard, then the counter.
Remove(c) ==
  /\ ending[c] \in {"remove", "reapRemove"}
  /\ registered' = registered \ {c}
  /\ ending' = [ending EXCEPT ![c] =
       IF @ = "remove" THEN (IF c \in registered THEN "count" ELSE "release")
       ELSE (IF c \in registered THEN "reapCount" ELSE "reaped")]
  /\ UNCHANGED <<runtime, restarts, state, live, begin, admission, snapshots>>

CountOut(c) ==
  /\ ending[c] \in {"count", "reapCount"}
  /\ live' = live - 1
  /\ ending' = [ending EXCEPT ![c] = IF @ = "count" THEN "release" ELSE "reaped"]
  /\ UNCHANGED <<runtime, restarts, state, registered, begin, admission, snapshots>>

\* MUTANT of Release: the coordinator releases when the call is unknown, too.
MutRelease(c) ==
  /\ ending[c] \in {"release", "forgotten"}
  /\ GiveBack(c)
  /\ ending' = [ending EXCEPT ![c] = "delete"]
  /\ UNCHANGED <<runtime, restarts, state, registered, live, begin, snapshots>>

Release(c) ==
  /\ ending[c] = "release"
  /\ GiveBack(c)
  /\ ending' = [ending EXCEPT ![c] = "delete"]
  /\ UNCHANGED <<runtime, restarts, state, registered, live, begin, snapshots>>

\* MUTANT of Forget: End deletes the snapshot before it ends the call.
MutForget(c) ==
  /\ ending[c] = "delete" \/ (Known(c) /\ ending[c] = "no")
  /\ store' = store \ {c}
  /\ ending' = [ending EXCEPT ![c] = IF @ = "delete" THEN "forgotten" ELSE @]
  /\ UNCHANGED <<runtime, restarts, state, registered, live, begin, admission, batch, todo, kept>>

\* store.Delete, whose failure is ignored.
Forget(c) ==
  /\ ending[c] = "delete"
  /\ \/ store' = store \ {c} /\ ending' = [ending EXCEPT ![c] = "forgotten"]
     \/ UNCHANGED store /\ ending' = [ending EXCEPT ![c] = "kept"]
  /\ UNCHANGED <<runtime, restarts, state, registered, live, begin, admission, batch, todo, kept>>

-----------------------------------------------------------------------------
(* Snapshots and shutdown                                                  *)

\* snapshotAll collects the sessions that are not terminal...
Collect(w) == batch' = [batch EXCEPT ![w] = {c \in Call : Unfinished(c)}]

TickerCollects ==
  /\ Sweeping /\ batch["ticker"] = {}
  /\ Collect("ticker")
  /\ UNCHANGED <<runtime, restarts, calls, admission, store, todo, kept>>

\* ... and saves them.  SaveBatch promises no atomicity, and may fail.
Save(w, saved) ==
  /\ store' = store \cup saved
  /\ batch' = [batch EXCEPT ![w] = {}]

TickerSaves ==
  /\ batch["ticker"] # {}
  /\ \E saved \in SUBSET batch["ticker"] : Save("ticker", saved)
  /\ UNCHANGED <<runtime, restarts, calls, admission, todo, kept>>

\* Stop refuses new calls, ...
Stop ==
  /\ runtime = "running" /\ runtime' = "draining"
  /\ UNCHANGED <<restarts, calls, admission, snapshots>>

\* ... drains: no call is left, or the time is up; then collects what is left, ...
Drained ==
  /\ runtime = "draining" /\ runtime' = "saving"
  /\ Collect("stop")
  /\ UNCHANGED <<restarts, calls, admission, store, todo, kept>>

\* ... saves it, closes the channel, ...
StopSaves ==
  /\ runtime = "saving" /\ runtime' = "closing"
  /\ \E saved \in SUBSET batch["stop"] : Save("stop", saved) /\ kept' = saved
  /\ UNCHANGED <<restarts, calls, admission, todo>>

\* ... and waits for the loops.
Stopped ==
  /\ runtime = "closing" /\ batch["ticker"] = {}
  /\ \A c \in Call : ending[c] \notin {"reapRemove", "reapCount"}
  /\ runtime' = "stopped"
  /\ UNCHANGED <<restarts, calls, admission, snapshots>>

-----------------------------------------------------------------------------
(* Restart and recovery                                                    *)

\* The process goes, at any moment, and the next one has the store alone.
Restart ==
  /\ restarts < MaxRestarts /\ restarts' = restarts + 1
  /\ runtime' = "new"
  /\ state' = [c \in Call |-> "none"] /\ registered' = {} /\ live' = 0
  /\ slots' = [p \in Provider |-> 0] /\ reserved' = {} /\ overridden' = FALSE
  /\ begin' = [c \in Call |-> IF begin[c] = "unborn" THEN "unborn" ELSE "gone"]
  /\ ending' = [c \in Call |-> "no"]
  /\ batch' = [w \in Writers |-> {}] /\ todo' = {} /\ kept' = {}
  /\ UNCHANGED store

\* Start, until LoadAll has answered; admission opens after recovery.
Start ==
  /\ runtime = "new" /\ runtime' = "recovering"
  /\ todo' = store
  /\ UNCHANGED <<restarts, calls, admission, store, batch, kept>>

\* recoverOne's store.Delete is best effort too.
Recovered(c) ==
  /\ runtime = "recovering" /\ c \in todo
  /\ todo' = todo \ {c}
  /\ store' \in {store, store \ {c}}
  /\ UNCHANGED <<runtime, restarts, batch, kept>>

\* MUTANT of AdmitRecovered: recovery resumes without asking the scheduler.
MutAdmitRecovered(c) == UNCHANGED <<slots, reserved, overridden>>

\* Admit for a call that is in the registry and its counter already; the
\* decision is ignored.
AdmitRecovered(c) ==
  IF HasRoom(ProviderOf[c], live + 1)
  THEN Reserve(c) /\ UNCHANGED overridden
  ELSE overridden' = TRUE /\ UNCHANGED <<slots, reserved>>

\* The call is still up: the session goes on from StateRecovery.
RecoverResumed(c) ==
  /\ Recovered(c) /\ AdmitRecovered(c)
  /\ registered' = registered \cup {c} /\ live' = live + 1
  /\ state' = [state EXCEPT ![c] = "connected"]
  /\ Step(c, "begun")
  /\ UNCHANGED ending

\* It is not: the session ends, and leaves the registry.
RecoverConcluded(c) ==
  /\ Recovered(c) /\ AdmitRecovered(c)
  /\ state' = [state EXCEPT ![c] = "ended"]
  /\ UNCHANGED <<registered, live, begin, ending>>

\* Restore refuses the snapshot: another build's schema, or a terminal state.
RecoverAbandoned(c) ==
  /\ Recovered(c)
  /\ UNCHANGED <<calls, admission>>

Open ==
  /\ runtime = "recovering" /\ todo = {} /\ runtime' = "running"
  /\ UNCHANGED <<restarts, calls, admission, snapshots>>

-----------------------------------------------------------------------------
BeginStep(c) ==
  \/ Accepting(c) \/ Admit(c) \/ NotCreated(c) \/ Create(c) \/ CountIn(c) \/ First(c)
  \/ FirstRefused(c) \/ UndoRemove(c) \/ UndoCount(c) \/ UndoRelease(c)

CallStep(c) ==
  \/ Move(c) \/ Finish(c) \/ Conclude(c) \/ Sweep(c) \/ Reap(c)
  \/ Remove(c) \/ CountOut(c) \/ Release(c) \/ Forget(c)

RecoveryStep(c) == RecoverResumed(c) \/ RecoverConcluded(c) \/ RecoverAbandoned(c)

RuntimeStep ==
  \/ TickerCollects \/ TickerSaves \/ Stop \/ Drained \/ StopSaves \/ Stopped
  \/ Restart \/ Start \/ Open

Next == RuntimeStep \/ \E c \in Call : BeginStep(c) \/ CallStep(c) \/ RecoveryStep(c)

Spec == Init /\ [][Next]_vars

\* The sweeper's ticker keeps ticking, and each tick looks at every call.
FairSpec == Spec /\ \A c \in Call : WF_vars(Sweep(c)) /\ WF_vars(Reap(c))

-----------------------------------------------------------------------------
(* Properties                                                              *)

\* The variables keep their types; slots and the counter stay in range.
TypeOK ==
  /\ runtime \in Stages /\ restarts \in 0..MaxRestarts
  /\ state \in [Call -> CallState \cup {"none"}] /\ registered \subseteq Call
  /\ live \in Int /\ slots \in [Provider -> Nat]
  /\ begin \in [Call -> BeginSteps] /\ ending \in [Call -> EndSteps]
  /\ store \subseteq Call /\ batch \in [Writers -> SUBSET Call]
  /\ todo \subseteq Call /\ kept \subseteq Call
  /\ reserved \subseteq Call /\ overridden \in BOOLEAN

Of(p, S) == {c \in S : ProviderOf[c] = p}

\* Whoever ends the call - End, Fail, the sweeper, Begin itself, a carrier's
\* signal - a slot that was granted is returned at most once, and none is
\* returned that was not granted (CallScheduler.Release takes no call and
\* cannot tell).
SlotsAreReservations ==
  ~overridden => \A p \in Provider : slots[p] = Cardinality(Of(p, reserved))

\* The calls of one provider never exceed its ceiling, whatever Begins race,
\* unless recovery resumed a call that Admit had refused.
ProviderCeiling ==
  ~overridden /\ MaxCallsPerProvider > 0 =>
    \A p \in Provider :
      Cardinality({c \in Call : Unfinished(c) /\ ProviderOf[c] = p}) <= MaxCallsPerProvider

\* What Stop saved of the calls it gave up on stays in the store until the
\* call is over: no delete of an ending call and no late save of the ticker
\* takes it away (Stop: live calls are snapshotted and recovered).
AbandonedCallsAreKept ==
  \A c \in kept : c \in store \/ state[c] \in Terminal

\* No call stays in the states before media: it moves on, or the sweeper times
\* it out and reaps it, as long as the sweeper runs (SweepTimeouts,
\* ReapTerminal).
SetupConcludes ==
  \A c \in Call :
    (c \in registered /\ state[c] \in Setup)
      ~> (c \notin registered \/ state[c] \notin Setup \cup {"timeout"} \/ ~Sweeping)

-----------------------------------------------------------------------------
(* The inductive invariant                                                 *)

Fresh == {"unborn", "accepting", "admitted"}
SlotOwnedByBegin == {"admitted", "created", "counted", "removing", "uncounting", "unslotting"}
SlotOwnedByEnder == {"remove", "count", "release"}

\* Whoever will return a slot, and every unfinished call, has one.
OwnersHoldSlots ==
  ~overridden => \A c \in Call :
    (begin[c] \in SlotOwnedByBegin \/ ending[c] \in SlotOwnedByEnder \/ Unfinished(c))
      => c \in reserved

SlotsWithinCeiling ==
  ~overridden /\ MaxCallsPerProvider > 0 => \A p \in Provider : slots[p] <= MaxCallsPerProvider

\* Of Begin and the coordinator's End only one is at work on a call.
StepsAgree ==
  \A c \in Call :
    /\ c \in registered => state[c] \in CallState
    /\ begin[c] \in {"unborn", "accepting"} => c \notin reserved
    /\ begin[c] \in Fresh \cup {"uncounting", "unslotting"} => c \notin registered
    /\ begin[c] \in Fresh => c \notin store \cup todo \cup batch["ticker"] \cup batch["stop"]
    /\ ending[c] \in SlotOwnedByEnder => begin[c] = "begun" /\ state[c] \in Terminal

\* No goroutine is at work before Start returns, and what is still to be
\* recovered has neither session nor slot.
StartsClean ==
  /\ runtime = "new" => registered = {} /\ reserved = {} /\ todo = {}
  /\ runtime \in {"new", "recovering"} =>
       \A c \in Call :
         /\ begin[c] \in {"unborn", "gone", "begun"} /\ ending[c] = "no"
         /\ c \in todo => c \notin registered /\ c \notin reserved
  /\ runtime \notin {"new", "recovering"} => todo = {}

CallRuntimeInv ==
  /\ TypeOK /\ SlotsAreReservations /\ OwnersHoldSlots /\ SlotsWithinCeiling
  /\ StepsAgree /\ StartsClean

-----------------------------------------------------------------------------
(* What the comments say and the code does not do: none of these holds.    *)

\* "Reservation and decision are one atomic step ... The lock spans both"
\* (Admit): the ceiling holds for calls that begin together.
RegistryWithinCapacity == Cardinality(registered) <= Capacity

\* "An admitted call always releases its slot" (INV-TEL-7): a slot belongs to a
\* call that is not over, or that somebody is about to release.
AdmittedCallsReleaseTheirSlot ==
  \A c \in reserved :
    begin[c] \in SlotOwnedByBegin \/ ending[c] \in SlotOwnedByEnder \/ Unfinished(c)

\* "The scheduler slot must be reserved for a resumed call" (recoverOne).
ResumedCallsHoldASlot ==
  runtime = "recovering" => \A c \in registered : c \in reserved

\* "Refuse new calls immediately.  Everything after this is about the calls
\* already here" (Stop).
DrainingRegistersNothing ==
  [][registered' \subseteq registered
     \/ runtime \notin {"draining", "saving", "closing", "stopped"}]_vars

\* A call that concluded is deleted, "so the store holds only calls that might
\* need recovering" (SessionStore.Delete).
StoreHoldsNoForgottenCall ==
  \A c \in Call : ending[c] = "forgotten" => c \notin store

\* "Each bounds how long a call may sit in a state before the sweeper moves it
\* to Timeout" (Config): no call stays in a state that has a deadline.
DeadlinesAreEnforced ==
  \A c \in Call :
    (c \in registered /\ state[c] \in HasDeadline)
      ~> (c \notin registered \/ state[c] \notin HasDeadline \/ ~Sweeping)

=============================================================================
