----------------------------- MODULE OtpSignIn -----------------------------
(***************************************************************************)
(* Sign-in by one-time code for one number, with the number's rate limits  *)
(* (services/go/identity/internal/app/identity.go: RequestOtp, validateOtp,*)
(* checkCode, wrongCode, confirmFailure; the repository's OTP and rate     *)
(* operations, MemoryIdentityRepository and pgstore alike).                *)
(*                                                                         *)
(* Requests and validations of the number run at once.  Each repository    *)
(* call is one atomic step on the number's state; the service reads its    *)
(* clock before the call and another call, or time, may come in between.   *)
(* A repository call may fail, with or without having taken effect, and a  *)
(* request may end at any step.                                            *)
(***************************************************************************)
EXTENDS Naturals, FiniteSets

CONSTANTS
  Call,        \* validations
  Challenge,   \* OTP requests; each creates at most one challenge
  Nobody,      \* the zero reservation id
  maxOtpAttempts, MaxRequests, MaxFailures,
  Window, Lockout, OtpLifetime,   \* durations
  MaxClock     \* bound: the last instant considered

ASSUME PolicyAssumption ==
  /\ Nobody \notin Call
  /\ {maxOtpAttempts, MaxRequests, MaxFailures, Window, Lockout} \subseteq Nat \ {0}
  /\ OtpLifetime \in Nat /\ MaxClock \in Nat \ {0}
  /\ IsFiniteSet(Call) /\ IsFiniteSet(Challenge)

VARIABLES
  clock,                               \* time.Now
  stage, requestedAt,                  \* the requests
  stored, attempts, expiresAt,         \* the stored challenges
  requests, failures, lockedUntil, lockedBy,   \* otpRateState
  pc, target, seen, reservedAt, verdict, answer,   \* the validations
  sessions,                            \* validations whose session was saved
  reported,                            \* validations that reported a lockout
  recorded, forgiven                   \* history: wrong codes counted on their
                                       \* challenge; failures cleared by a success

request == <<stage, requestedAt>>
challenge == <<stored, attempts, expiresAt>>
limiter == <<requests, failures, lockedUntil, lockedBy>>
call == <<pc, target, seen, reservedAt, verdict, answer>>
log == <<sessions, reported, recorded, forgiven>>
vars == <<clock, request, challenge, limiter, call, log>>

Stages == {"idle", "reserve", "save", "send", "withdraw", "issued", "refused"}
Steps == {"idle", "get", "check", "drop", "reserve", "compare", "record", "confirm",
          "consume", "release", "reset", "save", "done"}
Answers == {"none", "session", "invalid", "expired", "limited", "storeError", "lost"}

Init ==
  /\ clock = 1
  /\ stage = [r \in Challenge |-> "idle"] /\ requestedAt = [r \in Challenge |-> 0]
  /\ stored = {} /\ attempts = [r \in Challenge |-> 0]
  /\ expiresAt = [r \in Challenge |-> 0]
  /\ requests = {} /\ failures = {} /\ lockedUntil = 0 /\ lockedBy = Nobody
  /\ pc = [c \in Call |-> "idle"] /\ target \in [Call -> Challenge]
  /\ seen = [c \in Call |-> 0] /\ reservedAt = [c \in Call |-> 0]
  /\ verdict = [c \in Call |-> "none"] /\ answer = [c \in Call |-> "none"]
  /\ sessions = {} /\ reported = {} /\ recorded = {} /\ forgiven = {}

-----------------------------------------------------------------------------
(* The rate-limit state                                                    *)

\* withinWindow, failuresWithinWindow: an event counts while it is less than
\* Window old, and also when a clock read earlier has it in the future.
Within(events, at, now) == {e \in events : now < at[e] + Window}

Full(kept, limit) == Cardinality(kept) >= limit

\* The restriction both reservations check.
Limited(kept, limit, now) == now < lockedUntil \/ Full(kept, limit)

\* slotFreesAt: a full window next admits an event when its oldest leaves it.
SlotFreesAt(kept, at) ==
  CHOOSE t \in {at[e] + Window : e \in kept} : \A e \in kept : t <= at[e] + Window

\* MUTANT of RetryAt: a lockout hides the full window behind it.
MutRetryAt(kept, at, limit, now) ==
  IF now < lockedUntil THEN lockedUntil ELSE SlotFreesAt(kept, at)

\* limitedUntil: the later of the lockout's end and, in a full window, of the
\* moment a slot frees.
RetryAt(kept, at, limit, now) ==
  LET lock == IF now < lockedUntil THEN lockedUntil ELSE 0 IN
  IF Full(kept, limit) /\ SlotFreesAt(kept, at) > lock
    THEN SlotFreesAt(kept, at)
    ELSE lock

-----------------------------------------------------------------------------
(* RequestOtp                                                              *)

To(r, s) == stage' = [stage EXCEPT ![r] = s]

\* The request reads the clock for the number's allowance.
RequestOtp(r) ==
  /\ stage[r] = "idle"
  /\ requestedAt' = [requestedAt EXCEPT ![r] = clock]
  /\ To(r, "reserve")
  /\ UNCHANGED <<clock, challenge, limiter, call, log>>

\* ReserveOtpRequest prunes the window, then refuses or counts the request; a
\* store failure may come after the commit.
ReserveOtpRequest(r) ==
  /\ stage[r] = "reserve"
  /\ LET kept == Within(requests, requestedAt, requestedAt[r]) IN
     IF Limited(kept, MaxRequests, requestedAt[r])
       THEN requests' = kept /\ To(r, "refused")
       ELSE requests' = kept \cup {r} /\ (To(r, "save") \/ To(r, "refused"))
  /\ UNCHANGED <<clock, requestedAt, challenge, failures, lockedUntil, lockedBy, call, log>>

\* SaveOtp: the lifetime runs from an instant after the reservation's.
SaveOtp(r) ==
  /\ stage[r] = "save"
  /\ stored' = stored \cup {r}
  /\ \E t \in requestedAt[r] .. clock :
       expiresAt' = [expiresAt EXCEPT ![r] = t + OtpLifetime]
  /\ To(r, "send") \/ To(r, "refused")
  /\ UNCHANGED <<clock, requestedAt, attempts, limiter, call, log>>

\* The code is handed on, and the request id returned ...
SendOtp(r) ==
  /\ stage[r] = "send"
  /\ To(r, "issued")
  /\ UNCHANGED <<clock, requestedAt, challenge, limiter, call, log>>

\* ... or it is not, and the challenge is withdrawn, if the store lets it.
SendFails(r) ==
  /\ stage[r] = "send"
  /\ To(r, "withdraw")
  /\ UNCHANGED <<clock, requestedAt, challenge, limiter, call, log>>

Withdraw(r) ==
  /\ stage[r] = "withdraw"
  /\ stored' \in {stored, stored \ {r}}
  /\ To(r, "refused")
  /\ UNCHANGED <<clock, requestedAt, attempts, expiresAt, limiter, call, log>>

\* A store failure without effect, or the end of the process, ends the request
\* where it is.
RequestFails(r) ==
  /\ stage[r] \in {"reserve", "save", "send"}
  /\ To(r, "refused")
  /\ UNCHANGED <<clock, requestedAt, challenge, limiter, call, log>>

-----------------------------------------------------------------------------
(* validateOtp                                                             *)

Goto(c, s) == pc' = [pc EXCEPT ![c] = s]
Answer(c, a) == answer' = [answer EXCEPT ![c] = a]
Return(c, a) == Goto(c, "done") /\ Answer(c, a)

\* A client presents a challenge it was given the id of.
Begin(c) ==
  /\ pc[c] = "idle"
  /\ \E r \in Challenge : stage[r] = "issued" /\ target' = [target EXCEPT ![c] = r]
  /\ Goto(c, "get")
  /\ UNCHANGED <<clock, request, challenge, limiter, seen, reservedAt, verdict, answer, log>>

\* GetOtp returns a copy, with the attempts counted so far.
GetOtp(c) ==
  /\ pc[c] = "get" /\ target[c] \in stored
  /\ seen' = [seen EXCEPT ![c] = attempts[target[c]]]
  /\ Goto(c, "check")
  /\ UNCHANGED <<clock, request, challenge, limiter, target, reservedAt, verdict, answer, log>>

GetOtpMissing(c) ==
  /\ pc[c] = "get" /\ target[c] \notin stored
  /\ Return(c, "invalid")
  /\ UNCHANGED <<clock, request, challenge, limiter, target, seen, reservedAt, verdict, log>>

\* checkCode: the attempt guard and the expiry, on the copy; either drops the
\* challenge.
Exhausted(c) == seen[c] >= maxOtpAttempts
Expired(c) == clock > expiresAt[target[c]]

CheckRefused(c) ==
  /\ pc[c] = "check" /\ (Exhausted(c) \/ Expired(c))
  /\ Answer(c, IF Exhausted(c) THEN "invalid" ELSE "expired")
  /\ Goto(c, "drop")
  /\ UNCHANGED <<clock, request, challenge, limiter, target, seen, reservedAt, verdict, log>>

\* Otherwise the clock is read for the reservation.
Check(c) ==
  /\ pc[c] = "check" /\ ~Exhausted(c) /\ ~Expired(c)
  /\ reservedAt' = [reservedAt EXCEPT ![c] = clock]
  /\ Goto(c, "reserve")
  /\ UNCHANGED <<clock, request, challenge, limiter, target, seen, verdict, answer, log>>

\* DeleteOtp, best effort; the answer is already decided.
Drop(c) ==
  /\ pc[c] = "drop"
  /\ stored' \in {stored, stored \ {target[c]}}
  /\ Goto(c, "done")
  /\ UNCHANGED <<clock, request, attempts, expiresAt, limiter, target, seen, reservedAt,
                 verdict, answer, log>>

\* ReserveOtpVerification: a provisional failure, which locks the number when
\* it fills the window.
Reserve(c) ==
  LET kept == Within(failures, reservedAt, reservedAt[c]) IN
  /\ ~Limited(kept, MaxFailures, reservedAt[c])
  /\ failures' = kept \cup {c}
  /\ IF Full(kept \cup {c}, MaxFailures)
       THEN lockedUntil' = reservedAt[c] + Lockout /\ lockedBy' = c
       ELSE UNCHANGED <<lockedUntil, lockedBy>>

ReserveOtpVerification(c) ==
  /\ pc[c] = "reserve"
  /\ Reserve(c)
  /\ Goto(c, "compare")
  /\ UNCHANGED <<clock, request, challenge, requests, target, seen, reservedAt, verdict,
                 answer, log>>

\* A refusal keeps the pruning.
ReserveRefused(c) ==
  LET kept == Within(failures, reservedAt, reservedAt[c]) IN
  /\ pc[c] = "reserve" /\ Limited(kept, MaxFailures, reservedAt[c])
  /\ failures' = kept
  /\ Return(c, "limited")
  /\ UNCHANGED <<clock, request, challenge, requests, lockedUntil, lockedBy, target, seen,
                 reservedAt, verdict, log>>

\* A reservation whose caller is told it failed stays.
ReserveFails(c) ==
  /\ pc[c] = "reserve"
  /\ Reserve(c)
  /\ Return(c, "storeError")
  /\ UNCHANGED <<clock, request, challenge, requests, target, seen, reservedAt, verdict, log>>

\* The comparison: the code is evaluated.
Compare(c) ==
  /\ pc[c] = "compare"
  /\ \/ verdict' = [verdict EXCEPT ![c] = "right"] /\ Goto(c, "consume")
     \/ verdict' = [verdict EXCEPT ![c] = "wrong"] /\ Goto(c, "record")
  /\ UNCHANGED <<clock, request, challenge, limiter, target, seen, reservedAt, answer, log>>

\* MUTANT of Record: the stored counter is overwritten with the copy's.
MutRecordCopy(c) ==
  /\ target[c] \in stored
  /\ attempts' = [attempts EXCEPT ![target[c]] = seen[c] + 1]
  /\ recorded' = recorded \cup {c}
  /\ UNCHANGED stored

\* RecordFailedOtpAttempt increments the stored counter of a challenge that is
\* still there.
Record(c) ==
  /\ target[c] \in stored
  /\ attempts' = [attempts EXCEPT ![target[c]] = attempts[target[c]] + 1]
  /\ recorded' = recorded \cup {c}
  /\ UNCHANGED stored

\* wrongCode: the code was wrong for a live challenge.
RecordFailedOtpAttempt(c) ==
  /\ pc[c] = "record"
  /\ Record(c)
  /\ seen' = [seen EXCEPT ![c] = attempts'[target[c]]]
  /\ Goto(c, "confirm")
  /\ UNCHANGED <<clock, request, expiresAt, limiter, target, reservedAt, verdict, answer,
                 sessions, reported, forgiven>>

\* The challenge is gone: not a failure, so the reservation is withdrawn.
RecordGone(c) ==
  /\ pc[c] = "record" /\ target[c] \notin stored
  /\ Answer(c, "invalid")
  /\ Goto(c, "release")
  /\ UNCHANGED <<clock, request, challenge, limiter, target, seen, reservedAt, verdict, log>>

\* The counter could not be written, or was but said not: the failure stands.
RecordFails(c) ==
  /\ pc[c] = "record"
  /\ Record(c) \/ UNCHANGED <<stored, attempts, recorded>>
  /\ Answer(c, "storeError")
  /\ Goto(c, "confirm")
  /\ UNCHANGED <<clock, request, expiresAt, limiter, target, seen, reservedAt, verdict,
                 sessions, reported, forgiven>>

\* MUTANT of Confirm: the lock is looked up after it was withdrawn.
MutConfirm(c) == UNCHANGED reported

\* ConfirmOtpFailure reports the lock if this reservation set it and it stands.
Confirm(c) ==
  reported' = IF lockedBy = c /\ lockedUntil # 0 THEN reported \cup {c} ELSE reported

ConfirmOtpFailure(c) ==
  /\ pc[c] = "confirm"
  /\ Confirm(c)
  /\ IF answer[c] = "storeError"
       THEN Goto(c, "done") /\ UNCHANGED answer
       ELSE /\ Goto(c, IF Exhausted(c) THEN "drop" ELSE "done")
            /\ Answer(c, "invalid")
  /\ UNCHANGED <<clock, request, challenge, limiter, target, seen, reservedAt, verdict,
                 sessions, recorded, forgiven>>

ConfirmFails(c) ==
  /\ pc[c] = "confirm"
  /\ Return(c, "storeError")
  /\ UNCHANGED <<clock, request, challenge, limiter, target, seen, reservedAt, verdict, log>>

\* MUTANTS of Release: the lock set by the reservation stays; every reservation
\* standing is withdrawn with it.
MutReleaseLock(c) == failures' = failures \ {c} /\ UNCHANGED <<lockedUntil, lockedBy>>
MutReleaseAll(c) == failures' = {} /\ lockedUntil' = 0 /\ lockedBy' = Nobody

\* ReleaseOtpVerification: the reservation goes and, with it, a lockout it set;
\* nothing if it is no longer there.
Release(c) ==
  /\ failures' = failures \ {c}
  /\ IF c \in failures /\ lockedBy = c
       THEN lockedUntil' = 0 /\ lockedBy' = Nobody
       ELSE UNCHANGED <<lockedUntil, lockedBy>>

ReleaseOtpVerification(c) ==
  /\ pc[c] = "release"
  /\ Release(c)
  /\ Goto(c, "done")
  /\ UNCHANGED <<clock, request, challenge, requests, target, seen, reservedAt, verdict,
                 answer, log>>

ReleaseFails(c) ==
  /\ pc[c] = "release"
  /\ Release(c) \/ UNCHANGED <<failures, lockedUntil, lockedBy>>
  /\ Return(c, "storeError")
  /\ UNCHANGED <<clock, request, challenge, requests, target, seen, reservedAt, verdict, log>>

\* MUTANT of Consumable: DeleteOtp, which succeeds whether or not the challenge
\* was still there.
MutConsumable(c) == TRUE

Consumable(c) == target[c] \in stored

\* ConsumeOtp: only the call that removed the challenge proceeds.
ConsumeOtp(c) ==
  /\ pc[c] = "consume" /\ Consumable(c)
  /\ stored' = stored \ {target[c]}
  /\ Goto(c, "reset")
  /\ UNCHANGED <<clock, request, attempts, expiresAt, limiter, target, seen, reservedAt,
                 verdict, answer, log>>

ConsumeRefused(c) ==
  /\ pc[c] = "consume" /\ ~Consumable(c)
  /\ Answer(c, "invalid")
  /\ Goto(c, "release")
  /\ UNCHANGED <<clock, request, challenge, limiter, target, seen, reservedAt, verdict, log>>

ConsumeFails(c) ==
  /\ pc[c] = "consume"
  /\ stored' \in {stored, stored \ {target[c]}}
  /\ Answer(c, "storeError")
  /\ Goto(c, "release")
  /\ UNCHANGED <<clock, request, attempts, expiresAt, limiter, target, seen, reservedAt,
                 verdict, log>>

\* ResetOtpFailures clears the number's failures and lockout.
Reset ==
  /\ failures' = {} /\ lockedUntil' = 0 /\ lockedBy' = Nobody
  /\ forgiven' = forgiven \cup failures

ResetOtpFailures(c) ==
  /\ pc[c] = "reset"
  /\ Reset
  /\ Goto(c, "save")
  /\ UNCHANGED <<clock, request, challenge, requests, target, seen, reservedAt, verdict,
                 answer, sessions, reported, recorded>>

ResetFails(c) ==
  /\ pc[c] = "reset"
  /\ Reset \/ UNCHANGED <<failures, lockedUntil, lockedBy, forgiven>>
  /\ Return(c, "storeError")
  /\ UNCHANGED <<clock, request, challenge, requests, target, seen, reservedAt, verdict,
                 sessions, reported, recorded>>

SaveSession(c) ==
  /\ pc[c] = "save"
  /\ sessions' = sessions \cup {c}
  /\ Return(c, "session")
  /\ UNCHANGED <<clock, request, challenge, limiter, target, seen, reservedAt, verdict,
                 reported, recorded, forgiven>>

\* The integrity token is rejected or the account was erased meanwhile ...
SaveRefused(c) ==
  /\ pc[c] = "save"
  /\ Return(c, "invalid")
  /\ UNCHANGED <<clock, request, challenge, limiter, target, seen, reservedAt, verdict, log>>

\* ... or the store fails.
SaveFails(c) ==
  /\ pc[c] = "save"
  /\ sessions' \in {sessions, sessions \cup {c}}
  /\ Return(c, "storeError")
  /\ UNCHANGED <<clock, request, challenge, limiter, target, seen, reservedAt, verdict,
                 reported, recorded, forgiven>>

\* The process or its request ends between two steps, or the store fails
\* without effect where the failure ends the call.
Abandon(c) ==
  /\ pc[c] \notin {"idle", "done"}
  /\ Return(c, "lost")
  /\ UNCHANGED <<clock, request, challenge, limiter, target, seen, reservedAt, verdict, log>>

-----------------------------------------------------------------------------
\* A challenge is deleted by the erasure of its subscriber or by housekeeping.
Remove(r) ==
  /\ r \in stored
  /\ stored' = stored \ {r}
  /\ UNCHANGED <<clock, request, attempts, expiresAt, limiter, call, log>>

Tick ==
  /\ clock < MaxClock
  /\ clock' = clock + 1
  /\ UNCHANGED <<request, challenge, limiter, call, log>>

RequestStep(r) ==
  \/ RequestOtp(r) \/ ReserveOtpRequest(r) \/ SaveOtp(r) \/ SendOtp(r) \/ SendFails(r)
  \/ Withdraw(r) \/ RequestFails(r) \/ Remove(r)

ValidateStep(c) ==
  \/ Begin(c) \/ GetOtp(c) \/ GetOtpMissing(c) \/ CheckRefused(c) \/ Check(c) \/ Drop(c)
  \/ ReserveOtpVerification(c) \/ ReserveRefused(c) \/ ReserveFails(c) \/ Compare(c)
  \/ RecordFailedOtpAttempt(c) \/ RecordGone(c) \/ RecordFails(c)
  \/ ConfirmOtpFailure(c) \/ ConfirmFails(c) \/ ReleaseOtpVerification(c) \/ ReleaseFails(c)
  \/ ConsumeOtp(c) \/ ConsumeRefused(c) \/ ConsumeFails(c)
  \/ ResetOtpFailures(c) \/ ResetFails(c) \/ SaveSession(c) \/ SaveRefused(c) \/ SaveFails(c)
  \/ Abandon(c)

Next == (\E r \in Challenge : RequestStep(r)) \/ (\E c \in Call : ValidateStep(c)) \/ Tick

Spec == Init /\ [][Next]_vars

-----------------------------------------------------------------------------
(* Properties                                                              *)

TypeOK ==
  /\ clock \in 1 .. MaxClock
  /\ stage \in [Challenge -> Stages] /\ requestedAt \in [Challenge -> Nat]
  /\ stored \subseteq Challenge /\ attempts \in [Challenge -> Nat]
  /\ expiresAt \in [Challenge -> Nat]
  /\ requests \subseteq Challenge /\ failures \subseteq Call
  /\ lockedUntil \in Nat /\ lockedBy \in Call \cup {Nobody}
  /\ pc \in [Call -> Steps] /\ target \in [Call -> Challenge]
  /\ seen \in [Call -> Nat] /\ reservedAt \in [Call -> Nat]
  /\ verdict \in [Call -> {"none", "right", "wrong"}] /\ answer \in [Call -> Answers]
  /\ sessions \subseteq Call /\ reported \subseteq Call
  /\ recorded \subseteq Call /\ forgiven \subseteq Call

\* A one-time code makes at most one session, however many validations passed
\* its comparison at once: ConsumeOtp decides, not the comparison.
OneSessionPerChallenge ==
  \A c, d \in sessions : target[c] = target[d] => c = d

\* A challenge that signed somebody in never comes back: a wrong code racing
\* with the right one does not write its copy of the challenge back.
ConsumedStaysConsumed == \A c \in sessions : target[c] \notin stored

\* Concurrent wrong codes do not lose each other's attempts: the stored counter
\* is the number of wrong codes recorded on the challenge.
AttemptsAreNotLost ==
  \A r \in stored : attempts[r] = Cardinality({c \in recorded : target[c] = r})

\* A wrong code recorded on its challenge counts against the number for the
\* whole Window, unless a successful sign-in clears the number: neither another
\* call's release nor a pruning with an early clock drops it.
CountedWhileInWindow ==
  \A c \in recorded \ forgiven : clock < reservedAt[c] + Window => c \in failures

\* "One lockout is reported exactly once": a lockout that stands after the call
\* that set it has answered was reported by that call, unless its reservation
\* outlived the Window or the call could not finish.
StandingLockWasReported ==
  \A c \in Call :
    lockedUntil # 0 /\ lockedBy = c /\ pc[c] = "done" =>
      \/ c \in reported
      \/ answer[c] \in {"storeError", "lost"}
      \/ clock >= reservedAt[c] + Window

\* The RetryAt a refusal carries is exact: the number is restricted at every
\* earlier instant and, all else being equal, at none from there on.
RetryAtIsExact ==
  LET Exact(events, at, limit, now) ==
        LET kept == Within(events, at, now)
            retry == RetryAt(kept, at, limit, now)
            Restricted(t) == Limited(Within(kept, at, t), limit, t)
        IN  Limited(kept, limit, now) =>
              /\ retry > now /\ ~Restricted(retry)
              /\ \A t \in now .. retry - 1 : Restricted(t)
  IN  /\ \A c \in Call : pc[c] = "reserve" =>
                           Exact(failures, reservedAt, MaxFailures, reservedAt[c])
      /\ \A r \in Challenge : stage[r] = "reserve" =>
                           Exact(requests, requestedAt, MaxRequests, requestedAt[r])

-----------------------------------------------------------------------------
(* The inductive invariant behind the properties above                     *)

ReadingsArePast ==
  /\ \A c \in Call : reservedAt[c] <= clock
  /\ \A r \in Challenge : requestedAt[r] <= clock

\* The calls that removed their challenge, on their way to a session.
Winner(c) == pc[c] \in {"reset", "save"} \/ c \in sessions

\* Removing an issued challenge is final, so it has one winner.
WinnersAreUnique ==
  /\ \A c \in Call : pc[c] # "idle" => stage[target[c]] = "issued"
  /\ \A c \in Call : Winner(c) => pc[c] # "idle" /\ target[c] \notin stored
  /\ \A c, d \in Call : Winner(c) /\ Winner(d) /\ target[c] = target[d] => c = d

Reserved(c) == pc[c] \notin {"idle", "get", "check", "reserve"}

\* An answer is decided no earlier than the last steps.
AnswersComeLast ==
  \A c \in Call : pc[c] \notin {"confirm", "drop", "release", "done"} => answer[c] = "none"

\* A reservation stands from the comparison on.
Stands(c) == c \in failures \/ c \in forgiven \/ clock >= reservedAt[c] + Window

ReservationsStand ==
  /\ \A c \in Call : pc[c] \in {"compare", "record"} \/ c \in recorded => Stands(c)
  /\ \A c \in recorded : pc[c] \in {"confirm", "drop", "done"}
  /\ \A c \in failures : Reserved(c)

\* The call that locked the number is on its way to report or withdraw it.
Settled(c) ==
  c \in reported \/ answer[c] \in {"storeError", "lost"} \/ clock >= reservedAt[c] + Window

LocksAreSettled ==
  \A c \in Call :
    lockedUntil # 0 /\ lockedBy = c =>
      /\ Reserved(c)
      /\ pc[c] \in {"compare", "record", "confirm", "consume", "release", "reset"} \/ Settled(c)
      /\ c \in failures \/ clock >= reservedAt[c] + Window

\* A window never holds more events than it admits.
WindowsHold == Cardinality(failures) <= MaxFailures /\ Cardinality(requests) <= MaxRequests

OtpInv ==
  TypeOK /\ ReadingsArePast /\ WinnersAreUnique /\ AnswersComeLast /\ ReservationsStand
  /\ LocksAreSettled /\ WindowsHold

-----------------------------------------------------------------------------
(* What the comments promise and the code does not keep                    *)

\* "Reserving before comparing is what bounds the number of codes ever
\* evaluated": at most MaxFailures wrong codes are evaluated within a Window
\* (no success in between).
EvaluationsAreBounded ==
  \A t \in 1 .. MaxClock :
    Cardinality({c \in Call \ forgiven : verdict[c] = "wrong" /\ reservedAt[c] <= t
                                         /\ t < reservedAt[c] + Window}) <= MaxFailures

\* "The comparison below is not reached for an exhausted challenge."
ExhaustedIsNotCompared ==
  [][\A c \in Call : verdict[c] = "none" /\ verdict'[c] # "none" =>
                       attempts[target[c]] < maxOtpAttempts]_vars
=============================================================================
