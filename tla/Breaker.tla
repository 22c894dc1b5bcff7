------------------------------ MODULE Breaker ------------------------------
(***************************************************************************)
(* The circuit breaker over one provider (packages/go/runtime/breaker.go).  *)
(* Allow hands a call a ticket: to report as an ordinary call or as a trial *)
(* of a half-open breaker.  Every operation runs under the breaker's lock,  *)
(* but a report comes whenever its call ends, whatever the state is then.   *)
(*                                                                         *)
(* The clock is abstracted: an observation leaves the window at any time,   *)
(* oldest first, and the cooldown ends at any time after the breaker opened.*)
(***************************************************************************)
EXTENDS Naturals, Sequences, FiniteSets, FiniteSetsExt

CONSTANTS
  Task,              \* the calls
  FailureThreshold, MinimumRequests, HalfOpenProbes, SuccessesToClose,
  MaxObservations    \* bound: observations kept at once

ASSUME BreakerAssumption ==
  /\ {FailureThreshold, MinimumRequests, HalfOpenProbes, SuccessesToClose} \subseteq Nat \ {0}
  /\ FailureThreshold <= MinimumRequests
  /\ MaxObservations \in Nat /\ MinimumRequests <= MaxObservations
  /\ IsFiniteSet(Task)

VARIABLES
  breaker,        \* "closed", "open" or "halfOpen"
  observations,   \* outcomes in the window: TRUE is a failure
  cooled,         \* it is open, and the cooldown has passed
  halfOpenCalls,  \* trials counted against HalfOpenProbes
  halfOpenOK,     \* trials that succeeded
  ticket          \* what each call in progress was let in as

breakerVars == <<breaker, observations, cooled, halfOpenCalls, halfOpenOK, ticket>>

BreakerInit ==
  /\ breaker = "closed" /\ observations = <<>> /\ cooled = FALSE
  /\ halfOpenCalls = 0 /\ halfOpenOK = 0
  /\ ticket = [t \in Task |-> "none"]

\* evaluateLocked: an open breaker whose cooldown has passed is half-open.
Evaluated == IF breaker = "open" /\ cooled THEN "halfOpen" ELSE breaker
Trials == IF breaker = "open" /\ cooled THEN 0 ELSE halfOpenCalls

CooldownEnds ==
  /\ breaker = "open" /\ ~cooled /\ cooled' = TRUE
  /\ UNCHANGED <<breaker, observations, halfOpenCalls, halfOpenOK, ticket>>

\* State: reading the state applies the cooldown.
ReadState ==
  /\ Evaluated # breaker
  /\ breaker' = Evaluated /\ cooled' = FALSE /\ halfOpenCalls' = 0 /\ halfOpenOK' = 0
  /\ UNCHANGED <<observations, ticket>>

\* Allow, with the answer it gives.
Allow(t, allowed) ==
  /\ ticket[t] = "none"
  /\ breaker' = Evaluated /\ cooled' = FALSE
  /\ halfOpenOK' = IF Evaluated # breaker THEN 0 ELSE halfOpenOK
  /\ allowed = (Evaluated = "closed" \/ (Evaluated = "halfOpen" /\ Trials < HalfOpenProbes))
  /\ halfOpenCalls' = IF allowed /\ Evaluated = "halfOpen" THEN Trials + 1 ELSE Trials
  /\ ticket' = [ticket EXCEPT ![t] =
                  IF ~allowed THEN "none" ELSE IF Evaluated = "closed" THEN "call" ELSE "trial"]
  /\ UNCHANGED observations

Open == breaker' = "open" /\ cooled' = FALSE

\* What is in the window once failed is added: some of the oldest have left.
InWindow(failed) ==
  LET all == Append(observations, failed)
  IN  {SubSeq(all, i, Len(all)) : i \in 1 .. Len(all)}

Failures(obs) == Cardinality({i \in DOMAIN obs : obs[i]})

\* reportClosed: an outcome that is evidence enters the window, whatever the
\* state, and a failure may open the breaker, or open it once more.
ReportClosed(how) ==
  \/ how = "ignored" /\ UNCHANGED <<breaker, observations, cooled>>
  \/ /\ how # "ignored"
     /\ observations' \in {w \in InWindow(how = "failed") : Len(w) <= MaxObservations}
     /\ IF how = "failed" /\ Len(observations') >= MinimumRequests
             /\ Failures(observations') >= FailureThreshold
        THEN Open
        ELSE UNCHANGED <<breaker, cooled>>

\* MUTANT of TrialPlace: a trial that was rate limited keeps its place.
KeepPlace(how) ==
  IF halfOpenCalls > 0 /\ how # "ignored" THEN halfOpenCalls - 1 ELSE halfOpenCalls

\* A trial returns a place, if one is taken.
TrialPlace(how) == IF halfOpenCalls > 0 THEN halfOpenCalls - 1 ELSE 0

\* reportHalfOpen, whatever the state: a failure opens, enough successes close.
ReportHalfOpen(how) ==
  /\ halfOpenCalls' = TrialPlace(how)
  /\ \/ how = "failed" /\ halfOpenOK' = 0 /\ Open /\ UNCHANGED observations
     \/ how = "ignored" /\ UNCHANGED <<breaker, observations, cooled, halfOpenOK>>
     \/ /\ how = "ok" /\ halfOpenOK + 1 >= SuccessesToClose
        /\ halfOpenOK' = 0 /\ observations' = <<>> /\ breaker' = "closed" /\ cooled' = FALSE
     \/ /\ how = "ok" /\ halfOpenOK + 1 < SuccessesToClose
        /\ halfOpenOK' = halfOpenOK + 1
        /\ UNCHANGED <<breaker, observations, cooled>>

\* The outcomes shouldCount tells apart: "ignored" is no evidence.
Outcome == {"ok", "failed", "ignored"}

\* The report Allow returned; it runs once.
Report(t, how) ==
  /\ ticket[t] # "none" /\ ticket' = [ticket EXCEPT ![t] = "none"]
  /\ \/ ticket[t] = "call" /\ ReportClosed(how) /\ UNCHANGED <<halfOpenCalls, halfOpenOK>>
     \/ ticket[t] = "trial" /\ ReportHalfOpen(how)

Reset ==
  /\ breaker # "closed" \/ observations # <<>>
  /\ breaker' = "closed" /\ cooled' = FALSE /\ observations' = <<>>
  /\ halfOpenCalls' = 0 /\ halfOpenOK' = 0
  /\ UNCHANGED ticket

----------------------------------------------------------------------------
(* What is checked of the breaker *)

BreakerTypeOK ==
  /\ breaker \in {"closed", "open", "halfOpen"} /\ observations \in Seq(BOOLEAN)
  /\ cooled \in BOOLEAN
  /\ halfOpenCalls \in 0 .. HalfOpenProbes /\ halfOpenOK \in 0 .. SuccessesToClose - 1
  /\ ticket \in [Task -> {"none", "call", "trial"}]

Trying == {t \in Task : ticket[t] = "trial"}

\* Every place that keeps a half-open breaker from trying is held by a trial
\* that is still to report: no order of reports, failures and cooldowns leaves
\* the breaker refusing with nobody to tell it otherwise (Allow,
\* reportHalfOpen, evaluateLocked).
NoTrialPlaceIsLost == halfOpenCalls <= Cardinality(Trying)

----------------------------------------------------------------------------
(* What comments say and the code does not do *)

\* "Reserving a slot at Allow and releasing it at report is what makes
\* HalfOpenProbes an actual limit" (breaker.go:181): a trial of an earlier
\* half-open period is not counted in the present one.
TrialsAreLimited == Cardinality(Trying) <= HalfOpenProbes

\* MinimumRequests is "the number of observations required before the breaker
\* will open at all" (breaker.go:48): a trial that fails after the breaker
\* closed opens it by itself.
OpensOnEvidence ==
  [][breaker = "closed" /\ breaker' = "open" => Len(observations') >= MinimumRequests]_breakerVars

============================================================================
