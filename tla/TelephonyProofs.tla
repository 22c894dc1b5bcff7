-------------------------- MODULE TelephonyProofs --------------------------
(***************************************************************************)
(* The fence and the runtime of a telephony gateway.  The modules Fence    *)
(* and CallRuntime share no definition, and neither do their proofs.       *)
(*                                                                         *)
(* For every set of processes and servers and all timings with             *)
(* 0 < Timeout < Interval: the fence is well typed, and two processes are  *)
(* never the active owner together.  The argument is FenceInv: claims are  *)
(* ordered (the window of one is over when the grace of the other is), and *)
(* the claim of the session that holds the lock comes last.  No answer to  *)
(* a query sent after the window had lapsed revives an ownership.          *)
(*                                                                         *)
(* For any calls, providers and limits: every slot counted is one call's   *)
(* reservation, returned at most once, and the calls of a provider stay    *)
(* within its ceiling unless recovery resumed one that Admit had refused;  *)
(* and what Stop saved stays in the store until the call is over.          *)
(***************************************************************************)
EXTENDS Fence, CallRuntime, FiniteSetTheorems, TLAPS

-----------------------------------------------------------------------------
(* The fence *)

\* Whoever holds the lock on the primary is the only one that holds it.
LEMMA HolderUnique ==
  ASSUME HolderOnPrimary, NEW p \in Proc, NEW q \in Proc, Holder(p), Holder(q)
  PROVE  p = q
<1>1. PICK s \in Server : lock[s] = p  BY DEF Holder
<1>2. PICK t \in Server : lock[t] = q  BY DEF Holder
<1>3. s = primary /\ t = primary  BY <1>1, <1>2 DEF HolderOnPrimary
<1> QED  BY <1>1, <1>2, <1>3

\* The type invariant is inductive by itself.
LEMMA Typing == FenceInit => FenceTypeOK
  BY TimingAssumption DEF FenceInit, FenceTypeOK, Steps, Querying

LEMMA TypingStep == FenceTypeOK /\ [FenceNext]_fenceVars => FenceTypeOK'
<1> SUFFICES ASSUME FenceTypeOK, [FenceNext]_fenceVars PROVE FenceTypeOK'
  OBVIOUS
<1> USE TimingAssumption DEF FenceTypeOK, Steps, Querying
<1>1. ASSUME NEW p \in Proc, Work(p) PROVE FenceTypeOK'
  <2>1. CASE Run(p)  BY <2>1 DEF Run, Goto, server, claim, query, halting
  <2>2. CASE Dial(p)  BY <2>2 DEF Dial, Goto, claim, halting
  <2>3. CASE DialFails(p)
    BY <2>3 DEF DialFails, Goto, server, claim, query, halting
  <2>4. CASE TryLock(p)  BY <2>4 DEF TryLock, Goto, server, claim, halting
  <2>5. CASE Granted(p)  BY <2>5 DEF Granted, Goto, server, claim, halting
  <2>6. CASE TakeHold(p)  BY <2>6 DEF TakeHold, Goto, server, query, halting
  <2>7. CASE Refused(p)
    BY <2>7 DEF Refused, Goto, server, claim, query, halting
  <2>8. CASE QueryFails(p)
    BY <2>8 DEF QueryFails, Goto, server, claim, query, halting
  <2>9. CASE Heartbeat(p)  BY <2>9 DEF Heartbeat, Goto, server, claim, halting
  <2>10. CASE Confirm(p)  BY <2>10 DEF Confirm, Goto, server, halting
  <2>11. CASE ConfirmLost(p)
    BY <2>11 DEF ConfirmLost, Goto, Lose, server, query, halting
  <2>12. CASE StopHolding(p)
    BY <2>12 DEF StopHolding, Goto, server, claim, query, halting
  <2>13. CASE ReleaseLose(p)
    BY <2>13 DEF ReleaseLose, Goto, Lose, server, query, halting
  <2>14. CASE ReleaseSession(p)
    BY <2>14 DEF ReleaseSession, LockAfter, Goto, claim, query, halting
  <2>15. CASE PauseOver(p)
    BY <2>15 DEF PauseOver, Goto, server, claim, query, halting
  <2>16. CASE Return(p)  BY <2>16 DEF Return, Goto, server, claim, query, halting
  <2>17. CASE CancelOnStop(p)
    BY <2>17 DEF CancelOnStop, server, claim, query
  <2> QED
    BY <1>1, <2>1, <2>2, <2>3, <2>4, <2>5, <2>6, <2>7, <2>8, <2>9, <2>10, <2>11,
       <2>12, <2>13, <2>14, <2>15, <2>16, <2>17 DEF Work
<1>2. ASSUME NEW p \in Proc, Evaluate(p) PROVE FenceTypeOK'
  <2>1. CASE EvaluatePrimary(p)
    BY <2>1 DEF EvaluatePrimary, server, claim, halting
  <2>2. CASE EvaluateTryLock(p)  BY <2>2 DEF EvaluateTryLock, claim, halting
  <2>3. CASE EvaluateHolds(p)  BY <2>3 DEF EvaluateHolds, server, claim, halting
  <2> QED  BY <1>2, <2>1, <2>2, <2>3 DEF Evaluate
<1>3. ASSUME NEW p \in Proc, Shutdown(p) PROVE FenceTypeOK'
  BY <1>3 DEF Shutdown, Lose, server, query
<1>4. ASSUME NEW s \in Server, ReapOrphan(s) PROVE FenceTypeOK'
  BY <1>4 DEF ReapOrphan, claim, query, halting
<1>5. ASSUME NEW s \in Server, Promote(s) PROVE FenceTypeOK'
  BY <1>5 DEF Promote, claim, query, halting
<1>6. CASE Fault
  <2>1. ASSUME NEW p \in Proc, DropSession(p) PROVE FenceTypeOK'
    BY <2>1 DEF DropSession, LockAfter, claim, query, halting
  <2>2. ASSUME NEW p \in Proc, Crash(p) PROVE FenceTypeOK'
    BY <2>2 DEF Crash, LockAfter, Lose, Goto
  <2>3. CASE LosePrimary
    BY <2>3 DEF LosePrimary, claim, query, halting
  <2> QED  BY <1>6, <2>1, <2>2, <2>3 DEF Fault
<1>7. CASE Tick  BY <1>7 DEF Tick, server, claim, query, halting
<1>8. CASE UNCHANGED fenceVars  BY <1>8 DEF fenceVars, server, claim, query, halting
<1> QED  BY <1>1, <1>2, <1>3, <1>4, <1>5, <1>6, <1>7, <1>8 DEF FenceNext

\* Every variable of Fence keeps its type: clock readings stay in Nat, a lock
\* is free, orphaned or held by one process, a session sits on one server.
THEOREM FenceTypeCorrect == FenceSpec => []FenceTypeOK
  BY Typing, TypingStep, PTL DEF FenceSpec

-----------------------------------------------------------------------------
(* The order of claims                                                     *)

LEMMA BoundsAreClockReadings ==
  ASSUME FenceTypeOK PROVE \A p \in Proc : Upper(p) \in Nat /\ Lower(p) \in Nat
  BY DEF FenceTypeOK, Upper, Lower

\* A step that makes no new claim, moves no window later and no grace earlier,
\* and gives the lock to nobody keeps the claims in order.
LEMMA ClaimsStayInOrder ==
  ASSUME FenceTypeOK, FenceTypeOK', ClaimsInOrder,
         \A p \in Proc : Claiming(p)' =>
           Claiming(p) /\ Upper(p)' <= Upper(p) /\ Lower(p) <= Lower(p)',
         \A p \in Proc : Holder(p)' => Holder(p)
  PROVE  ClaimsInOrder'
<1> SUFFICES ASSUME NEW p \in Proc, NEW q \in Proc, p # q,
                    Claiming(p)', Claiming(q)'
             PROVE  /\ (Upper(p) <= Lower(q))' \/ (Upper(q) <= Lower(p))'
                    /\ Holder(q)' => (Upper(p) <= Lower(q))'
  BY DEF ClaimsInOrder, Precedes
<1>1. /\ Upper(p) \in Nat /\ Lower(p) \in Nat /\ Upper(q) \in Nat /\ Lower(q) \in Nat
  BY BoundsAreClockReadings
<1>2. /\ Upper(p)' \in Nat /\ Lower(p)' \in Nat /\ Upper(q)' \in Nat /\ Lower(q)' \in Nat
  <2>1. FenceTypeOK' => (\A r \in Proc : Upper(r) \in Nat /\ Lower(r) \in Nat)'
    BY DEF FenceTypeOK, Upper, Lower
  <2> QED  BY <2>1
<1>3. /\ Claiming(p) /\ Upper(p)' <= Upper(p) /\ Lower(p) <= Lower(p)'
      /\ Claiming(q) /\ Upper(q)' <= Upper(q) /\ Lower(q) <= Lower(q)'
      /\ Holder(q)' => Holder(q)
  OBVIOUS
<1>4. /\ Upper(p) <= Lower(q) \/ Upper(q) <= Lower(p)
      /\ Holder(q) => Upper(p) <= Lower(q)
  BY <1>3 DEF ClaimsInOrder, Precedes
<1> QED  BY <1>1, <1>2, <1>3, <1>4

\* The server answers r, which holds the lock from here on, and nobody else's
\* claim moves: every other claim precedes r's.
LEMMA HolderComesLast ==
  ASSUME FenceTypeOK, FenceTypeOK', ClaimsInOrder, NEW r \in Proc,
         Claiming(r)',
         \A p \in Proc : p # r /\ Claiming(p)' =>
           Claiming(p) /\ Upper(p)' = Upper(p) /\ Lower(p)' = Lower(p),
         \A p \in Proc : p # r /\ Claiming(p) => Upper(p) <= Lower(r)',
         \A p \in Proc : Holder(p)' => p = r
  PROVE  ClaimsInOrder'
<1> SUFFICES ASSUME NEW p \in Proc, NEW q \in Proc, p # q,
                    Claiming(p)', Claiming(q)'
             PROVE  /\ (Upper(p) <= Lower(q))' \/ (Upper(q) <= Lower(p))'
                    /\ Holder(q)' => (Upper(p) <= Lower(q))'
  BY DEF ClaimsInOrder, Precedes
<1>1. CASE q = r  BY <1>1
<1>2. CASE p = r /\ q # r
  <2>1. ~ Holder(q)'  BY <1>2
  <2>2. (Upper(q) <= Lower(p))'  BY <1>2
  <2> QED  BY <2>1, <2>2
<1>3. CASE p # r /\ q # r
  <2>1. ~ Holder(q)'  BY <1>3
  <2>2. /\ Claiming(p) /\ Upper(p)' = Upper(p) /\ Lower(p)' = Lower(p)
        /\ Claiming(q) /\ Upper(q)' = Upper(q) /\ Lower(q)' = Lower(q)
    BY <1>3
  <2>3. Upper(p) <= Lower(q) \/ Upper(q) <= Lower(p)
    BY <2>2 DEF ClaimsInOrder, Precedes
  <2> QED  BY <2>1, <2>2, <2>3
<1> QED  BY <1>1, <1>2, <1>3

-----------------------------------------------------------------------------
(* The other conjuncts                                                     *)

\* What FenceInv says beside types and order.
Placement ==
  NotHeldOutsideHold /\ ReadingsArePast /\ SeekersOnPrimary /\ HolderOnPrimary

LEMMA PlacementStep ==
  ASSUME FenceTypeOK, FenceTypeOK', Placement, [FenceNext]_fenceVars PROVE Placement'
<1> USE TimingAssumption, ValueAssumption
    DEF FenceTypeOK, Steps, Querying, Placement, NotHeldOutsideHold, ReadingsArePast,
        SeekersOnPrimary, HolderOnPrimary
<1>1. ASSUME NEW r \in Proc, Work(r) PROVE Placement'
  <2>1. CASE Run(r)  BY <2>1 DEF Run, Goto, server, claim, query, halting
  <2>2. CASE Dial(r)  BY <2>2 DEF Dial, Goto, claim, halting
  <2>3. CASE DialFails(r)  BY <2>3 DEF DialFails, Goto, server, claim, query, halting
  <2>4. CASE TryLock(r)  BY <2>4 DEF TryLock, Goto, server, claim, halting
  <2>5. CASE Granted(r)  BY <2>5 DEF Granted, Goto, server, claim, halting
  <2>6. CASE TakeHold(r)  BY <2>6 DEF TakeHold, Goto, server, query, halting
  <2>7. CASE Refused(r)  BY <2>7 DEF Refused, Goto, server, claim, query, halting
  <2>8. CASE QueryFails(r)  BY <2>8 DEF QueryFails, Goto, server, claim, query, halting
  <2>9. CASE Heartbeat(r)  BY <2>9 DEF Heartbeat, Goto, server, claim, halting
  <2>10. CASE Confirm(r)  BY <2>10 DEF Confirm, Goto, server, halting
  <2>11. CASE ConfirmLost(r)  BY <2>11 DEF ConfirmLost, Goto, Lose, server, query, halting
  <2>12. CASE StopHolding(r)  BY <2>12 DEF StopHolding, Goto, server, claim, query, halting
  <2>13. CASE ReleaseLose(r)  BY <2>13 DEF ReleaseLose, Goto, Lose, server, query, halting
  <2>14. CASE ReleaseSession(r)  BY <2>14 DEF ReleaseSession, LockAfter, Goto, claim, query, halting
  <2>15. CASE PauseOver(r)  BY <2>15 DEF PauseOver, Goto, server, claim, query, halting
  <2>16. CASE Return(r)  BY <2>16 DEF Return, Goto, server, claim, query, halting
  <2>17. CASE CancelOnStop(r)  BY <2>17 DEF CancelOnStop, server, claim, query
  <2> QED
    BY <1>1, <2>1, <2>2, <2>3, <2>4, <2>5, <2>6, <2>7, <2>8, <2>9, <2>10, <2>11, <2>12, <2>13, <2>14, <2>15, <2>16, <2>17 DEF Work
<1>2. ASSUME NEW r \in Proc, Evaluate(r) PROVE Placement'
  <2>1. CASE EvaluatePrimary(r)
    BY <2>1 DEF EvaluatePrimary, server, claim, halting
  <2>2. CASE EvaluateTryLock(r)  BY <2>2 DEF EvaluateTryLock, claim, halting
  <2>3. CASE EvaluateHolds(r)  BY <2>3 DEF EvaluateHolds, server, claim, halting
  <2> QED  BY <1>2, <2>1, <2>2, <2>3 DEF Evaluate
<1>3. ASSUME NEW r \in Proc, Shutdown(r) PROVE Placement'
  BY <1>3 DEF Shutdown, Lose, server, query
<1>4. ASSUME NEW s \in Server, ReapOrphan(s) PROVE Placement'
  BY <1>4 DEF ReapOrphan, claim, query, halting
<1>5. ASSUME NEW s \in Server, Promote(s) PROVE Placement'
  BY <1>5 DEF Promote, claim, query, halting
<1>6. CASE Fault
  <2>1. ASSUME NEW r \in Proc, DropSession(r) PROVE Placement'
    BY <2>1 DEF DropSession, LockAfter, claim, query, halting
  <2>2. ASSUME NEW r \in Proc, Crash(r) PROVE Placement'
    BY <2>2 DEF Crash, LockAfter, Lose, Goto
  <2>3. CASE LosePrimary
    BY <2>3 DEF LosePrimary, claim, query, halting
  <2> QED  BY <1>6, <2>1, <2>2, <2>3 DEF Fault
<1>7. CASE Tick  BY <1>7 DEF Tick, server, claim, query, halting
<1>8. CASE UNCHANGED fenceVars  BY <1>8 DEF fenceVars, server, claim, query, halting
<1> QED  BY <1>1, <1>2, <1>3, <1>4, <1>5, <1>6, <1>7, <1>8 DEF FenceNext

-----------------------------------------------------------------------------
(* Claims stay in order                                                    *)

\* Nothing in a step pushes a claim: ClaimsStayInOrder applies.
Settled(p) ==
  /\ Claiming(p)' =>
       Claiming(p) /\ Upper(p)' <= Upper(p) /\ Lower(p) <= Lower(p)'
  /\ Holder(p)' => Holder(p)

LEMMA SettledKeepsOrder ==
  ASSUME FenceTypeOK, FenceTypeOK', ClaimsInOrder, \A p \in Proc : Settled(p)
  PROVE  ClaimsInOrder'
  BY ClaimsStayInOrder DEF Settled

LEMMA OrderStep ==
  ASSUME FenceTypeOK, FenceTypeOK', Placement, ClaimsInOrder, [FenceNext]_fenceVars PROVE ClaimsInOrder'
<1> DEFINE Quiet == \A p \in Proc : Settled(p)
<1>1. ASSUME NEW r \in Proc, Work(r) PROVE Quiet
  <2> USE TimingAssumption, ValueAssumption
      DEF FenceTypeOK, Steps, Querying, Placement, NotHeldOutsideHold, ReadingsArePast,
          Settled, Claiming, Upper, Lower, Holder
  <2>1. CASE Run(r)  BY <2>1 DEF Run, Goto, server, claim, query, halting
  <2>2. CASE Dial(r)  BY <2>2 DEF Dial, Goto, claim, halting
  <2>3. CASE DialFails(r)  BY <2>3 DEF DialFails, Goto, server, claim, query, halting
  <2>4. CASE TryLock(r)  BY <2>4 DEF TryLock, Goto, server, claim, halting
  <2>5. CASE Granted(r)  BY <2>5 DEF Granted, Goto, server, claim, halting
  <2>6. CASE TakeHold(r)  BY <2>6 DEF TakeHold, Goto, server, query, halting
  <2>7. CASE Refused(r)  BY <2>7 DEF Refused, Goto, server, claim, query, halting
  <2>8. CASE QueryFails(r)  BY <2>8 DEF QueryFails, Goto, server, claim, query, halting
  <2>9. CASE Heartbeat(r)  BY <2>9 DEF Heartbeat, Goto, server, claim, halting
  <2>10. CASE Confirm(r)  BY <2>10 DEF Confirm, Goto, server, halting
  <2>11. CASE ConfirmLost(r)  BY <2>11 DEF ConfirmLost, Goto, Lose, server, query, halting
  <2>12. CASE StopHolding(r)  BY <2>12 DEF StopHolding, Goto, server, claim, query, halting
  <2>13. CASE ReleaseLose(r)  BY <2>13 DEF ReleaseLose, Goto, Lose, server, query, halting
  <2>14. CASE ReleaseSession(r)  BY <2>14 DEF ReleaseSession, LockAfter, Goto, claim, query, halting
  <2>15. CASE PauseOver(r)  BY <2>15 DEF PauseOver, Goto, server, claim, query, halting
  <2>16. CASE Return(r)  BY <2>16 DEF Return, Goto, server, claim, query, halting
  <2>17. CASE CancelOnStop(r)  BY <2>17 DEF CancelOnStop, server, claim, query
  <2> QED
    BY <1>1, <2>1, <2>2, <2>3, <2>4, <2>5, <2>6, <2>7, <2>8, <2>9, <2>10, <2>11, <2>12, <2>13, <2>14, <2>15, <2>16, <2>17 DEF Work
<1>2. ASSUME NEW r \in Proc, EvaluatePrimary(r) PROVE Quiet
  BY <1>2 DEF EvaluatePrimary, server, claim, halting, FenceTypeOK, Settled, Claiming,
     Upper, Lower, Holder
<1>3. ASSUME NEW r \in Proc, EvaluateTryLock(r) PROVE ClaimsInOrder'
  <2>1. CASE answer'[r] = "no"
    <3>1. Quiet
      BY <1>3, <2>1 DEF EvaluateTryLock, claim, halting, FenceTypeOK, Settled, Claiming,
         Upper, Lower, Holder
    <3> QED  BY <3>1, SettledKeepsOrder
  <2>2. CASE answer'[r] # "no"
    <3>1. /\ pc[r] = "lock" /\ backend[r] = primary /\ backend[r] \in Server
          /\ lock[primary] = Free /\ lock' = [lock EXCEPT ![primary] = r]
          /\ answer' = [answer EXCEPT ![r] = "yes"]
          /\ UNCHANGED <<clock, pc, claim, sent, received>>
      BY <1>3, <2>2 DEF EvaluateTryLock, FenceTypeOK, Placement, SeekersOnPrimary
    <3>2. Claiming(r)' /\ Lower(r)' = clock
      BY <3>1 DEF Claiming, Lower, FenceTypeOK, claim
    <3>3. ASSUME NEW p \in Proc, p # r, Claiming(p)'
          PROVE  Claiming(p) /\ Upper(p)' = Upper(p) /\ Lower(p)' = Lower(p)
      BY <3>1, <3>3 DEF Claiming, Upper, Lower, FenceTypeOK, claim
    <3>4. ASSUME NEW p \in Proc PROVE Upper(p) <= Lower(r)'
      BY <3>2 DEF Upper, Placement, ReadingsArePast
    <3>5. ASSUME NEW p \in Proc, Holder(p)' PROVE p = r
      <4>1. PICK s \in Server : lock'[s] = p  BY <3>5 DEF Holder
      <4>2. CASE s = primary  BY <3>1, <4>1, <4>2 DEF FenceTypeOK
      <4>3. CASE s # primary
        BY <3>1, <4>1, <4>3 DEF FenceTypeOK, Placement, HolderOnPrimary
      <4> QED  BY <4>2, <4>3
    <3> QED  BY <3>2, <3>3, <3>4, <3>5, HolderComesLast
  <2> QED  BY <2>1, <2>2
<1>4. ASSUME NEW r \in Proc, EvaluateHolds(r) PROVE ClaimsInOrder'
  <2>1. CASE answer'[r] = "no"
    <3>1. Quiet
      BY <1>4, <2>1 DEF EvaluateHolds, server, claim, halting, FenceTypeOK, Settled,
         Claiming, Upper, Lower, Holder
    <3> QED  BY <3>1, SettledKeepsOrder
  <2>2. CASE answer'[r] # "no"
    <3>1. /\ pc[r] = "confirm" /\ backend[r] \in Server /\ lock[backend[r]] = r
          /\ answer' = [answer EXCEPT ![r] = "yes"]
          /\ UNCHANGED <<clock, server, pc, claim, sent, received>>
      BY <1>4, <2>2 DEF EvaluateHolds, FenceTypeOK
    <3>2. Holder(r)  BY <3>1 DEF Holder
    <3>3. \A p \in Proc : Holder(p)' => p = r
      <4>1. \A p \in Proc : Holder(p)' => Holder(p)  BY <3>1 DEF Holder, server
      <4> QED  BY <3>2, <4>1, HolderUnique DEF Placement
    <3>4. ASSUME NEW p \in Proc, p # r, Claiming(p)'
          PROVE  Claiming(p) /\ Upper(p)' = Upper(p) /\ Lower(p)' = Lower(p)
      BY <3>1, <3>4 DEF Claiming, Upper, Lower, FenceTypeOK, claim
    <3>5. (Claiming(r)' => Claiming(r)) /\ Lower(r)' = Lower(r)
      BY <3>1 DEF Claiming, Lower, FenceTypeOK, claim
    <3>6. CASE Claiming(r)'
      <4>1. ASSUME NEW p \in Proc, p # r, Claiming(p) PROVE Upper(p) <= Lower(r)'
        BY <3>2, <3>5, <3>6, <4>1 DEF ClaimsInOrder, Precedes
      <4> QED  BY <3>3, <3>4, <3>6, <4>1, HolderComesLast
    <3>7. CASE ~ Claiming(r)'
      <4>1. \A p \in Proc : Holder(p)' => Holder(p)  BY <3>1 DEF Holder, server
      <4>2. ASSUME NEW p \in Proc, Claiming(p)'
            PROVE  Claiming(p) /\ Upper(p)' <= Upper(p) /\ Lower(p) <= Lower(p)'
        <5>1. p # r  BY <3>7, <4>2
        <5> QED  BY <3>4, <4>2, <5>1, BoundsAreClockReadings
      <4> QED  BY <4>1, <4>2, ClaimsStayInOrder
    <3> QED  BY <3>6, <3>7
  <2> QED  BY <2>1, <2>2
<1>5. ASSUME NEW r \in Proc, Shutdown(r) PROVE Quiet
  BY <1>5 DEF Shutdown, Lose, server, query, FenceTypeOK, Settled, Claiming, Upper,
     Lower, Holder
<1>6. ASSUME NEW s \in Server, ReapOrphan(s) PROVE Quiet
  BY <1>6, ValueAssumption DEF ReapOrphan, claim, query, halting, FenceTypeOK, Settled,
     Claiming, Upper, Lower, Holder
<1>7. ASSUME NEW s \in Server, Promote(s) PROVE Quiet
  BY <1>7 DEF Promote, claim, query, halting, FenceTypeOK, Settled, Claiming, Upper,
     Lower, Holder
<1>8. ASSUME Fault PROVE Quiet
  <2> USE ValueAssumption DEF FenceTypeOK, Settled, Claiming, Upper, Lower, Holder
  <2>1. ASSUME NEW r \in Proc, DropSession(r) PROVE Quiet
    BY <2>1 DEF DropSession, LockAfter, claim, query, halting
  <2>2. ASSUME NEW r \in Proc, Crash(r) PROVE Quiet
    BY <2>2 DEF Crash, LockAfter, Lose, Goto
  <2>3. CASE LosePrimary
    BY <2>3 DEF LosePrimary, claim, query, halting
  <2> QED  BY <1>8, <2>1, <2>2, <2>3 DEF Fault
<1>9. CASE Tick
  <2>1. Quiet
    BY <1>9 DEF Tick, server, claim, query, halting, FenceTypeOK, Settled, Claiming,
       Upper, Lower, Holder
  <2> QED  BY <2>1, SettledKeepsOrder
<1>10. CASE UNCHANGED fenceVars
  <2>1. Quiet
    BY <1>10 DEF fenceVars, server, claim, query, halting, FenceTypeOK, Settled, Claiming,
       Upper, Lower, Holder
  <2> QED  BY <2>1, SettledKeepsOrder
<1> QED
  BY <1>1, <1>2, <1>3, <1>4, <1>5, <1>6, <1>7, <1>8, <1>9, <1>10, SettledKeepsOrder
  DEF FenceNext, Evaluate

-----------------------------------------------------------------------------
LEMMA InvInit == FenceInit => FenceInv
  BY Typing, ValueAssumption
  DEF FenceInit, FenceInv, NotHeldOutsideHold, ReadingsArePast, SeekersOnPrimary,
      HolderOnPrimary, ClaimsInOrder, Claiming

LEMMA InvStep == FenceInv /\ [FenceNext]_fenceVars => FenceInv'
  BY TypingStep, PlacementStep, OrderStep DEF FenceInv, Placement

\* Two overlapping owners would each have to precede the other.
LEMMA InvExcludes == FenceInv => MutualExclusion
<1> SUFFICES ASSUME FenceInv, NEW p \in Proc, NEW q \in Proc, p # q,
                    Owned(p), Owned(q)
             PROVE  FALSE
  BY DEF MutualExclusion
<1>1. ASSUME NEW a \in Proc, NEW b \in Proc, Owned(a), Owned(b), Precedes(a, b)
      PROVE  FALSE
  <2>1. pc[a] \in {"hold", "confirm", "release"} /\ pc[b] \in {"hold", "confirm", "release"}
    BY <1>1 DEF FenceInv, NotHeldOutsideHold, Owned
  <2>2. confirmed[a] <= Upper(a)
    BY <2>1 DEF FenceInv, ReadingsArePast, FenceTypeOK, Upper
  <2>3. Upper(a) <= acquired[b]
    BY <1>1, <2>1 DEF Precedes, Lower
  <2>4. acquired[b] + Validity <= clock /\ clock < confirmed[a] + Validity
    BY <1>1, TimingAssumption DEF Owned, Validity, FenceInv, FenceTypeOK
  <2>5. /\ confirmed[a] \in Nat /\ acquired[b] \in Nat /\ clock \in Nat
        /\ Validity \in Nat /\ Upper(a) \in Nat
    BY TimingAssumption, BoundsAreClockReadings DEF FenceInv, FenceTypeOK, Validity
  <2> QED  BY <2>2, <2>3, <2>4, <2>5
<1>2. Claiming(p) /\ Claiming(q)  BY DEF Claiming, Owned
<1>3. Precedes(p, q) \/ Precedes(q, p)
  BY <1>2 DEF FenceInv, ClaimsInOrder
<1> QED  BY <1>1, <1>3

\* The strengthened invariant itself: claims are ordered in every reachable
\* state, whatever the sessions, servers and processes do.
THEOREM FenceInvariant == FenceSpec => []FenceInv
  BY InvInit, InvStep, PTL DEF FenceSpec

\* At most one gateway process is the active owner, for any number of
\* processes and servers and any valid timing.
THEOREM SingleOwner == FenceSpec => []MutualExclusion
  BY FenceInvariant, InvExcludes, PTL

\* holdOnce always leaves the fence not-held, Shutdown notwithstanding.
THEOREM LeavesNotHeld == FenceSpec => []NotHeldOutsideHold
<1>1. FenceInv => NotHeldOutsideHold  BY DEF FenceInv
<1> QED  BY <1>1, FenceInvariant, PTL

\* A step that makes a lapsed owner an owner again within its hold is the
\* Confirm of an answer, and Confirm asks that the window had not lapsed when
\* its query was sent.
LEMMA RevivalStep ==
  ASSUME FenceInv, [FenceNext]_fenceVars, NEW p \in Proc,
         held[p], clock >= confirmed[p] + Validity, Owned(p)', acquired'[p] = acquired[p]
  PROVE  ~Lapsed(p)
<1>0. /\ FenceTypeOK /\ NotHeldOutsideHold /\ Validity \in Nat
      /\ clock \in Nat /\ confirmed[p] \in Nat
  BY TimingAssumption DEF FenceInv, FenceTypeOK, Validity
<1>1. clock' \in Nat /\ clock' >= clock
  <2>1. clock' \in Nat  BY <1>0, TypingStep DEF FenceTypeOK
  <2>2. clock' = clock \/ clock' = clock + 1
    BY DEF FenceNext, Work, Evaluate, Fault, Run, Dial, DialFails, TryLock, Granted, TakeHold,
       Refused, QueryFails, Heartbeat, Confirm, ConfirmLost, StopHolding, ReleaseLose,
       ReleaseSession, PauseOver, Return, Shutdown, CancelOnStop, Crash, EvaluatePrimary,
       EvaluateTryLock, EvaluateHolds, DropSession, ReapOrphan, LosePrimary, Promote, Tick,
       fenceVars
  <2> QED  BY <1>0, <2>1, <2>2
<1>2. confirmed'[p] # confirmed[p]
  <2> SUFFICES ASSUME confirmed'[p] = confirmed[p]  PROVE FALSE
    OBVIOUS
  <2>1. clock' < confirmed[p] + Validity  BY DEF Owned, Validity
  <2> QED  BY <1>0, <1>1, <2>1
<1>3. Confirm(p) \/ TakeHold(p)
  <2>1. \A q \in Proc : Confirm(q) \/ TakeHold(q) => q = p
    BY <1>0, <1>2 DEF Confirm, TakeHold, FenceTypeOK
  <2>2. ASSUME ~(\E q \in Proc : Confirm(q) \/ TakeHold(q))  PROVE confirmed' = confirmed
    BY <2>2 DEF FenceNext, Work, Evaluate, Fault, Run, Dial, DialFails, TryLock, Granted,
       Refused, QueryFails, Heartbeat, ConfirmLost, StopHolding, ReleaseLose,
       ReleaseSession, PauseOver, Return, Shutdown, CancelOnStop, Crash, EvaluatePrimary,
       EvaluateTryLock, EvaluateHolds, DropSession, ReapOrphan, LosePrimary, Promote, Tick,
       fenceVars, claim
  <2> QED  BY <1>2, <2>1, <2>2
<1>4. ~TakeHold(p)
  BY <1>0 DEF TakeHold, NotHeldOutsideHold
<1> QED  BY <1>3, <1>4 DEF Confirm

\* A confirmation sent after the window had lapsed revives nothing (holdOnce).
THEOREM LapsedIsLapsed == FenceSpec => NoLateRevival
<1>1. FenceInv /\ [FenceNext]_fenceVars =>
        [\A p \in Proc :
           /\ held[p] /\ clock >= confirmed[p] + Validity
           /\ Owned(p)' /\ acquired'[p] = acquired[p]
           => ~Lapsed(p)]_fenceVars
  BY RevivalStep
<1> QED  BY <1>1, FenceInvariant, PTL DEF FenceSpec, NoLateRevival

-----------------------------------------------------------------------------
(* The runtime *)

LEMMA OfReserved ==
  ASSUME NEW S, S \subseteq Call, NEW q \in Provider
  PROVE  IsFiniteSet(Of(q, S)) /\ Cardinality(Of(q, S)) \in Nat
<1>1. Of(q, S) \subseteq Call  BY DEF Of
<1>2. IsFiniteSet(Call)  BY CallRuntimeAssumption
<1> QED  BY <1>1, <1>2, FS_Subset, FS_CardinalityType

\* Admit counts the call it grants a slot.
LEMMA ReserveCounts ==
  ASSUME TypeOK, NEW c \in Call, c \notin reserved, Reserve(c),
         \A q \in Provider : slots[q] = Cardinality(Of(q, reserved))
  PROVE  \A q \in Provider : slots'[q] = Cardinality(Of(q, reserved'))
<1> TAKE q \in Provider
<1>1. reserved \subseteq Call /\ slots \in [Provider -> Nat] /\ ProviderOf[c] \in Provider
  BY CallRuntimeAssumption DEF TypeOK
<1>2. IsFiniteSet(Of(q, reserved)) /\ Cardinality(Of(q, reserved)) \in Nat
  BY <1>1, OfReserved
<1>3. CASE q = ProviderOf[c]
  <2>1. Of(q, reserved') = Of(q, reserved) \cup {c} /\ c \notin Of(q, reserved)
    BY <1>3 DEF Of, Reserve
  <2>2. Cardinality(Of(q, reserved')) = Cardinality(Of(q, reserved)) + 1
    BY <2>1, <1>2, FS_AddElement
  <2> QED  BY <2>2, <1>1, <1>3 DEF Reserve
<1>4. CASE q # ProviderOf[c]
  <2>1. Of(q, reserved') = Of(q, reserved)  BY <1>4 DEF Of, Reserve
  <2> QED  BY <2>1, <1>1, <1>4 DEF Reserve
<1> QED  BY <1>3, <1>4

\* Release takes back the slot of the call that ends.
LEMMA GiveBackCounts ==
  ASSUME TypeOK, NEW c \in Call, c \in reserved, GiveBack(c),
         \A q \in Provider : slots[q] = Cardinality(Of(q, reserved))
  PROVE  \A q \in Provider : slots'[q] = Cardinality(Of(q, reserved'))
<1> TAKE q \in Provider
<1>1. reserved \subseteq Call /\ slots \in [Provider -> Nat] /\ ProviderOf[c] \in Provider
  BY CallRuntimeAssumption DEF TypeOK
<1>2. IsFiniteSet(Of(q, reserved)) /\ Cardinality(Of(q, reserved)) \in Nat
  BY <1>1, OfReserved
<1>3. CASE q = ProviderOf[c]
  <2>1. Of(q, reserved') = Of(q, reserved) \ {c} /\ c \in Of(q, reserved)
    BY <1>3 DEF Of, GiveBack
  <2>2. Cardinality(Of(q, reserved')) = Cardinality(Of(q, reserved)) - 1
    BY <2>1, <1>2, FS_RemoveElement
  <2>3. Cardinality(Of(q, reserved)) # 0
    BY <2>1, <1>2, FS_EmptySet
  <2>4. slots[q] > 0  BY <2>3, <1>2
  <2> QED  BY <2>2, <2>4, <1>1, <1>2, <1>3 DEF GiveBack
<1>4. CASE q # ProviderOf[c]
  <2>1. Of(q, reserved') = Of(q, reserved)  BY <1>4 DEF Of, GiveBack
  <2> QED  BY <2>1, <1>1, <1>4 DEF GiveBack
<1> QED  BY <1>3, <1>4

LEMMA NoReservations == \A q \in Provider : Cardinality(Of(q, {})) = 0
<1>1. \A q \in Provider : Of(q, {}) = {}  BY DEF Of
<1> QED  BY <1>1, FS_EmptySet

LEMMA CallRuntimeInit == Init => CallRuntimeInv
<1> SUFFICES ASSUME Init PROVE CallRuntimeInv  OBVIOUS
<1> USE CallRuntimeAssumption DEF Init
<1>1. TypeOK
  <2>1. runtime \in Stages /\ restarts \in 0..MaxRestarts  BY DEF Stages
  <2>2. begin \in [Call -> BeginSteps] /\ ending \in [Call -> EndSteps]
    BY DEF BeginSteps, EndSteps
  <2>3. slots \in [Provider -> Nat] /\ live \in Int  OBVIOUS
  <2>4. state \in [Call -> CallState \cup {"none"}] /\ registered \subseteq Call  OBVIOUS
  <2>5. batch \in [Writers -> SUBSET Call] /\ store \subseteq Call  OBVIOUS
  <2>6. todo \subseteq Call /\ kept \subseteq Call /\ reserved \subseteq Call
        /\ overridden \in BOOLEAN
    OBVIOUS
  <2> QED  BY <2>1, <2>2, <2>3, <2>4, <2>5, <2>6 DEF TypeOK
<1>2. SlotsAreReservations  BY NoReservations DEF SlotsAreReservations
<1>3. OwnersHoldSlots
  BY DEF OwnersHoldSlots, SlotOwnedByBegin, SlotOwnedByEnder, Unfinished
<1>4. SlotsWithinCeiling  BY DEF SlotsWithinCeiling
<1>5. StepsAgree  BY DEF StepsAgree, Fresh, SlotOwnedByEnder, Writers
<1>6. StartsClean  BY DEF StartsClean
<1> QED  BY <1>1, <1>2, <1>3, <1>4, <1>5, <1>6 DEF CallRuntimeInv

\* The table has no way out of a terminal state, and leads to states.
LEMMA ExitsLead ==
  \A s \in CallState : Exits[s] \subseteq CallState /\ (s \in Terminal => Exits[s] = {})
  BY DEF Exits, CallState, Setup, Terminal

-----------------------------------------------------------------------------
\* Every action keeps the types.
LEMMA TypeStep == CallRuntimeInv /\ [Next]_vars => TypeOK'
<1> SUFFICES ASSUME CallRuntimeInv, [Next]_vars PROVE TypeOK'
  OBVIOUS
<1>0. TypeOK /\ StepsAgree  BY DEF CallRuntimeInv
<1> USE <1>0, CallRuntimeAssumption, ExitsLead DEF TypeOK, StepsAgree, Stages,
     BeginSteps, EndSteps, Writers, CallState, Setup, Terminal, calls, admission,
     snapshots
<1>1. ASSUME NEW c \in Call, BeginStep(c) PROVE TypeOK'
  <2>1. CASE Accepting(c)  BY <2>1 DEF Accepting, Step
  <2>2. CASE Admit(c)  BY <2>2 DEF Admit, HasRoom, Reserve, Step
  <2>3. CASE NotCreated(c)  BY <2>3 DEF NotCreated, Step
  <2>4. CASE Create(c)  BY <2>4 DEF Create, Step
  <2>5. CASE CountIn(c)  BY <2>5 DEF CountIn, Step
  <2>6. CASE First(c)  BY <2>6 DEF First, Transition, Step
  <2>7. CASE FirstRefused(c)  BY <2>7 DEF FirstRefused, Step
  <2>8. CASE UndoRemove(c)  BY <2>8 DEF UndoRemove, Step
  <2>9. CASE UndoCount(c)  BY <2>9 DEF UndoCount, Step
  <2>10. CASE UndoRelease(c)  BY <2>10 DEF UndoRelease, GiveBack, Step
  <2> QED  BY <1>1, <2>1, <2>2, <2>3, <2>4, <2>5, <2>6, <2>7, <2>8, <2>9, <2>10 DEF
       BeginStep
<1>2. ASSUME NEW c \in Call, CallStep(c) PROVE TypeOK'
  <2>1. CASE Move(c)  BY <2>1 DEF Move, Transition, Known
  <2>2. CASE Finish(c)  BY <2>2 DEF Finish, Transition, Known
  <2>3. CASE Conclude(c)  BY <2>3 DEF Conclude, Transition, Known
  <2>4. CASE Sweep(c)  BY <2>4 DEF Sweep, Transition, Sweeping
  <2>5. CASE Reap(c)  BY <2>5 DEF Reap, Transition, Sweeping
  <2>6. CASE Remove(c)  BY <2>6 DEF Remove
  <2>7. CASE CountOut(c)  BY <2>7 DEF CountOut
  <2>8. CASE Release(c)  BY <2>8 DEF Release, GiveBack
  <2>9. CASE Forget(c)  BY <2>9 DEF Forget
  <2> QED  BY <1>2, <2>1, <2>2, <2>3, <2>4, <2>5, <2>6, <2>7, <2>8, <2>9 DEF CallStep
<1>3. ASSUME NEW c \in Call, RecoveryStep(c) PROVE TypeOK'
  <2>1. CASE RecoverResumed(c)
    <3>1. runtime' \in Stages /\ restarts' \in 0..MaxRestarts  BY <2>1 DEF
         RecoverResumed, Recovered, AdmitRecovered, HasRoom, Reserve, Step
    <3>2. slots' \in [Provider -> Nat] /\ live' \in Int  BY <2>1 DEF RecoverResumed,
         Recovered, AdmitRecovered, HasRoom, Reserve, Step
    <3>3. state' \in [Call -> CallState \cup {"none"}] /\ registered' \subseteq Call
      BY <2>1 DEF RecoverResumed, Recovered, AdmitRecovered, HasRoom, Reserve, Step
    <3>4. begin' \in [Call -> BeginSteps] /\ ending' \in [Call -> EndSteps]
      BY <2>1 DEF RecoverResumed, Recovered, AdmitRecovered, HasRoom, Reserve, Step
    <3>5. store' \subseteq Call /\ batch' \in [Writers -> SUBSET Call]  BY <2>1 DEF
         RecoverResumed, Recovered, AdmitRecovered, HasRoom, Reserve, Step
    <3>6. todo' \subseteq Call /\ kept' \subseteq Call /\ reserved' \subseteq Call
      BY <2>1 DEF RecoverResumed, Recovered, AdmitRecovered, HasRoom, Reserve, Step
    <3>7. overridden' \in BOOLEAN
      <4>1. overridden' = overridden \/ overridden' = TRUE \/ overridden' = FALSE
        BY <2>1 DEF RecoverResumed, Recovered, AdmitRecovered, HasRoom, Reserve, Step
      <4> QED  BY <4>1
    <3> QED  BY <3>1, <3>2, <3>3, <3>4, <3>5, <3>6, <3>7
  <2>2. CASE RecoverConcluded(c)
    <3>1. runtime' \in Stages /\ restarts' \in 0..MaxRestarts  BY <2>2 DEF
         RecoverConcluded, Recovered, AdmitRecovered, HasRoom, Reserve
    <3>2. slots' \in [Provider -> Nat] /\ live' \in Int  BY <2>2 DEF RecoverConcluded,
         Recovered, AdmitRecovered, HasRoom, Reserve
    <3>3. state' \in [Call -> CallState \cup {"none"}] /\ registered' \subseteq Call
      BY <2>2 DEF RecoverConcluded, Recovered, AdmitRecovered, HasRoom, Reserve
    <3>4. begin' \in [Call -> BeginSteps] /\ ending' \in [Call -> EndSteps]
      BY <2>2 DEF RecoverConcluded, Recovered, AdmitRecovered, HasRoom, Reserve
    <3>5. store' \subseteq Call /\ batch' \in [Writers -> SUBSET Call]  BY <2>2 DEF
         RecoverConcluded, Recovered, AdmitRecovered, HasRoom, Reserve
    <3>6. todo' \subseteq Call /\ kept' \subseteq Call /\ reserved' \subseteq Call
      BY <2>2 DEF RecoverConcluded, Recovered, AdmitRecovered, HasRoom, Reserve
    <3>7. overridden' \in BOOLEAN
      <4>1. overridden' = overridden \/ overridden' = TRUE \/ overridden' = FALSE
        BY <2>2 DEF RecoverConcluded, Recovered, AdmitRecovered, HasRoom, Reserve
      <4> QED  BY <4>1
    <3> QED  BY <3>1, <3>2, <3>3, <3>4, <3>5, <3>6, <3>7
  <2>3. CASE RecoverAbandoned(c)  BY <2>3 DEF RecoverAbandoned, Recovered
  <2> QED  BY <1>3, <2>1, <2>2, <2>3 DEF RecoveryStep
<1>4. CASE RuntimeStep
  <2>1. CASE TickerCollects  BY <2>1 DEF TickerCollects, Collect, Unfinished, Sweeping
  <2>2. CASE TickerSaves  BY <2>2 DEF TickerSaves, Save
  <2>3. CASE Stop  BY <2>3 DEF Stop
  <2>4. CASE Drained  BY <2>4 DEF Drained, Collect, Unfinished
  <2>5. CASE StopSaves  BY <2>5 DEF StopSaves, Save
  <2>6. CASE Stopped  BY <2>6 DEF Stopped
  <2>7. CASE Restart
    <3>1. runtime' \in Stages /\ restarts' \in 0..MaxRestarts  BY <2>7 DEF Restart
    <3>2. slots' \in [Provider -> Nat] /\ live' \in Int  BY <2>7 DEF Restart
    <3>3. state' \in [Call -> CallState \cup {"none"}] /\ registered' \subseteq Call
      BY <2>7 DEF Restart
    <3>4. begin' \in [Call -> BeginSteps] /\ ending' \in [Call -> EndSteps]
      BY <2>7 DEF Restart
    <3>5. store' \subseteq Call /\ batch' \in [Writers -> SUBSET Call]  BY <2>7 DEF Restart
    <3>6. todo' \subseteq Call /\ kept' \subseteq Call /\ reserved' \subseteq Call
      BY <2>7 DEF Restart
    <3>7. overridden' \in BOOLEAN
      <4>1. overridden' = overridden \/ overridden' = TRUE \/ overridden' = FALSE
        BY <2>7 DEF Restart
      <4> QED  BY <4>1
    <3> QED  BY <3>1, <3>2, <3>3, <3>4, <3>5, <3>6, <3>7
  <2>8. CASE Start  BY <2>8 DEF Start
  <2>9. CASE Open  BY <2>9 DEF Open
  <2> QED  BY <1>4, <2>1, <2>2, <2>3, <2>4, <2>5, <2>6, <2>7, <2>8, <2>9 DEF RuntimeStep
<1>5. CASE UNCHANGED vars  BY <1>5 DEF vars
<1> QED  BY <1>1, <1>2, <1>3, <1>4, <1>5 DEF Next

\* Begin owns a call's slot until it returns, and whoever ends the call after.
LEMMA StepsStep == CallRuntimeInv /\ [Next]_vars => StepsAgree'
<1> SUFFICES ASSUME CallRuntimeInv, [Next]_vars PROVE StepsAgree'
  OBVIOUS
<1>0. TypeOK /\ StepsAgree /\ StartsClean  BY DEF CallRuntimeInv
<1> USE <1>0, CallRuntimeAssumption, ExitsLead DEF TypeOK, StepsAgree, StartsClean,
     Fresh, SlotOwnedByEnder, Writers, Terminal, CallState, Setup, calls, admission,
     snapshots
<1>1. ASSUME NEW c \in Call, BeginStep(c) PROVE StepsAgree'
  <2>1. CASE Accepting(c)  BY <2>1 DEF Accepting, Step
  <2>2. CASE Admit(c)  BY <2>2 DEF Admit, HasRoom, Reserve, Step
  <2>3. CASE NotCreated(c)  BY <2>3 DEF NotCreated, Step
  <2>4. CASE Create(c)  BY <2>4 DEF Create, Step
  <2>5. CASE CountIn(c)  BY <2>5 DEF CountIn, Step
  <2>6. CASE First(c)  BY <2>6 DEF First, Transition, Step
  <2>7. CASE FirstRefused(c)  BY <2>7 DEF FirstRefused, Step
  <2>8. CASE UndoRemove(c)  BY <2>8 DEF UndoRemove, Step
  <2>9. CASE UndoCount(c)  BY <2>9 DEF UndoCount, Step
  <2>10. CASE UndoRelease(c)  BY <2>10 DEF UndoRelease, GiveBack, Step
  <2> QED  BY <1>1, <2>1, <2>2, <2>3, <2>4, <2>5, <2>6, <2>7, <2>8, <2>9, <2>10 DEF
       BeginStep
<1>2. ASSUME NEW c \in Call, CallStep(c) PROVE StepsAgree'
  <2>1. CASE Move(c)  BY <2>1 DEF Move, Transition, Known
  <2>2. CASE Finish(c)  BY <2>2 DEF Finish, Transition, Known
  <2>3. CASE Conclude(c)  BY <2>3 DEF Conclude, Transition, Known
  <2>4. CASE Sweep(c)  BY <2>4 DEF Sweep, Transition, Sweeping
  <2>5. CASE Reap(c)  BY <2>5 DEF Reap, Transition, Sweeping
  <2>6. CASE Remove(c)  BY <2>6 DEF Remove
  <2>7. CASE CountOut(c)  BY <2>7 DEF CountOut
  <2>8. CASE Release(c)  BY <2>8 DEF Release, GiveBack
  <2>9. CASE Forget(c)  BY <2>9 DEF Forget
  <2> QED  BY <1>2, <2>1, <2>2, <2>3, <2>4, <2>5, <2>6, <2>7, <2>8, <2>9 DEF CallStep
<1>3. ASSUME NEW c \in Call, RecoveryStep(c) PROVE StepsAgree'
  <2>1. CASE RecoverResumed(c)  BY <2>1 DEF RecoverResumed, Recovered, AdmitRecovered,
       HasRoom, Reserve, Step
  <2>2. CASE RecoverConcluded(c)  BY <2>2 DEF RecoverConcluded, Recovered,
       AdmitRecovered, HasRoom, Reserve
  <2>3. CASE RecoverAbandoned(c)  BY <2>3 DEF RecoverAbandoned, Recovered
  <2> QED  BY <1>3, <2>1, <2>2, <2>3 DEF RecoveryStep
<1>4. CASE RuntimeStep
  <2>1. CASE TickerCollects  BY <2>1 DEF TickerCollects, Collect, Unfinished, Sweeping
  <2>2. CASE TickerSaves  BY <2>2 DEF TickerSaves, Save
  <2>3. CASE Stop  BY <2>3 DEF Stop
  <2>4. CASE Drained  BY <2>4 DEF Drained, Collect, Unfinished
  <2>5. CASE StopSaves  BY <2>5 DEF StopSaves, Save
  <2>6. CASE Stopped  BY <2>6 DEF Stopped
  <2>7. CASE Restart  BY <2>7 DEF Restart
  <2>8. CASE Start  BY <2>8 DEF Start
  <2>9. CASE Open  BY <2>9 DEF Open
  <2> QED  BY <1>4, <2>1, <2>2, <2>3, <2>4, <2>5, <2>6, <2>7, <2>8, <2>9 DEF RuntimeStep
<1>5. CASE UNCHANGED vars  BY <1>5 DEF vars
<1> QED  BY <1>1, <1>2, <1>3, <1>4, <1>5 DEF Next

\* Nothing is at work before Start returns.
LEMMA StartsStep == CallRuntimeInv /\ [Next]_vars => StartsClean'
<1> SUFFICES ASSUME CallRuntimeInv, [Next]_vars PROVE StartsClean'
  OBVIOUS
<1>0. TypeOK /\ StepsAgree /\ StartsClean  BY DEF CallRuntimeInv
<1> USE <1>0, CallRuntimeAssumption DEF TypeOK, StartsClean, calls, admission, snapshots
<1>1. ASSUME NEW c \in Call, BeginStep(c) PROVE StartsClean'
  <2>1. CASE Accepting(c)  BY <2>1 DEF Accepting, Step
  <2>2. CASE Admit(c)  BY <2>2 DEF Admit, HasRoom, Reserve, Step
  <2>3. CASE NotCreated(c)  BY <2>3 DEF NotCreated, Step
  <2>4. CASE Create(c)  BY <2>4 DEF Create, Step
  <2>5. CASE CountIn(c)  BY <2>5 DEF CountIn, Step
  <2>6. CASE First(c)  BY <2>6 DEF First, Transition, Step
  <2>7. CASE FirstRefused(c)  BY <2>7 DEF FirstRefused, Step
  <2>8. CASE UndoRemove(c)  BY <2>8 DEF UndoRemove, Step
  <2>9. CASE UndoCount(c)  BY <2>9 DEF UndoCount, Step
  <2>10. CASE UndoRelease(c)  BY <2>10 DEF UndoRelease, GiveBack, Step
  <2> QED  BY <1>1, <2>1, <2>2, <2>3, <2>4, <2>5, <2>6, <2>7, <2>8, <2>9, <2>10 DEF
       BeginStep
<1>2. ASSUME NEW c \in Call, CallStep(c) PROVE StartsClean'
  <2>1. CASE Move(c)  BY <2>1 DEF Move, Transition, Known
  <2>2. CASE Finish(c)  BY <2>2 DEF Finish, Transition, Known
  <2>3. CASE Conclude(c)  BY <2>3 DEF Conclude, Transition, Known
  <2>4. CASE Sweep(c)  BY <2>4 DEF Sweep, Transition, Sweeping
  <2>5. CASE Reap(c)  BY <2>5 DEF Reap, Transition, Sweeping
  <2>6. CASE Remove(c)  BY <2>6 DEF Remove
  <2>7. CASE CountOut(c)  BY <2>7 DEF CountOut
  <2>8. CASE Release(c)  BY <2>8 DEF Release, GiveBack
  <2>9. CASE Forget(c)  BY <2>9 DEF Forget
  <2> QED  BY <1>2, <2>1, <2>2, <2>3, <2>4, <2>5, <2>6, <2>7, <2>8, <2>9 DEF CallStep
<1>3. ASSUME NEW c \in Call, RecoveryStep(c) PROVE StartsClean'
  <2>1. CASE RecoverResumed(c)  BY <2>1 DEF RecoverResumed, Recovered, AdmitRecovered,
       HasRoom, Reserve, Step
  <2>2. CASE RecoverConcluded(c)  BY <2>2 DEF RecoverConcluded, Recovered,
       AdmitRecovered, HasRoom, Reserve
  <2>3. CASE RecoverAbandoned(c)  BY <2>3 DEF RecoverAbandoned, Recovered
  <2> QED  BY <1>3, <2>1, <2>2, <2>3 DEF RecoveryStep
<1>4. CASE RuntimeStep
  <2>1. CASE TickerCollects  BY <2>1 DEF TickerCollects, Collect, Unfinished, Sweeping
  <2>2. CASE TickerSaves  BY <2>2 DEF TickerSaves, Save
  <2>3. CASE Stop  BY <2>3 DEF Stop
  <2>4. CASE Drained  BY <2>4 DEF Drained, Collect, Unfinished
  <2>5. CASE StopSaves  BY <2>5 DEF StopSaves, Save
  <2>6. CASE Stopped  BY <2>6 DEF Stopped
  <2>7. CASE Restart  BY <2>7 DEF Restart
  <2>8. CASE Start  BY <2>8 DEF Start
  <2>9. CASE Open  BY <2>9 DEF Open
  <2> QED  BY <1>4, <2>1, <2>2, <2>3, <2>4, <2>5, <2>6, <2>7, <2>8, <2>9 DEF RuntimeStep
<1>5. CASE UNCHANGED vars  BY <1>5 DEF vars
<1> QED  BY <1>1, <1>2, <1>3, <1>4, <1>5 DEF Next

\* Only the owner of a slot returns it.
LEMMA OwnersStep == CallRuntimeInv /\ [Next]_vars => OwnersHoldSlots'
<1> SUFFICES ASSUME CallRuntimeInv, [Next]_vars PROVE OwnersHoldSlots'
  OBVIOUS
<1>0. TypeOK /\ StepsAgree /\ StartsClean /\ OwnersHoldSlots  BY DEF CallRuntimeInv
<1> USE <1>0, CallRuntimeAssumption, ExitsLead DEF TypeOK, StepsAgree, StartsClean,
     OwnersHoldSlots, SlotOwnedByBegin, SlotOwnedByEnder, Unfinished, Terminal, Fresh,
     calls, admission, snapshots
<1>1. ASSUME NEW c \in Call, BeginStep(c) PROVE OwnersHoldSlots'
  <2>1. CASE Accepting(c)  BY <2>1 DEF Accepting, Step
  <2>2. CASE Admit(c)  BY <2>2 DEF Admit, HasRoom, Reserve, Step
  <2>3. CASE NotCreated(c)  BY <2>3 DEF NotCreated, Step
  <2>4. CASE Create(c)  BY <2>4 DEF Create, Step
  <2>5. CASE CountIn(c)  BY <2>5 DEF CountIn, Step
  <2>6. CASE First(c)  BY <2>6 DEF First, Transition, Step
  <2>7. CASE FirstRefused(c)  BY <2>7 DEF FirstRefused, Step
  <2>8. CASE UndoRemove(c)  BY <2>8 DEF UndoRemove, Step
  <2>9. CASE UndoCount(c)  BY <2>9 DEF UndoCount, Step
  <2>10. CASE UndoRelease(c)  BY <2>10 DEF UndoRelease, GiveBack, Step
  <2> QED  BY <1>1, <2>1, <2>2, <2>3, <2>4, <2>5, <2>6, <2>7, <2>8, <2>9, <2>10 DEF
       BeginStep
<1>2. ASSUME NEW c \in Call, CallStep(c) PROVE OwnersHoldSlots'
  <2>1. CASE Move(c)  BY <2>1 DEF Move, Transition, Known
  <2>2. CASE Finish(c)  BY <2>2 DEF Finish, Transition, Known
  <2>3. CASE Conclude(c)  BY <2>3 DEF Conclude, Transition, Known
  <2>4. CASE Sweep(c)  BY <2>4 DEF Sweep, Transition, Sweeping
  <2>5. CASE Reap(c)  BY <2>5 DEF Reap, Transition, Sweeping
  <2>6. CASE Remove(c)  BY <2>6 DEF Remove
  <2>7. CASE CountOut(c)  BY <2>7 DEF CountOut
  <2>8. CASE Release(c)  BY <2>8 DEF Release, GiveBack
  <2>9. CASE Forget(c)  BY <2>9 DEF Forget
  <2> QED  BY <1>2, <2>1, <2>2, <2>3, <2>4, <2>5, <2>6, <2>7, <2>8, <2>9 DEF CallStep
<1>3. ASSUME NEW c \in Call, RecoveryStep(c) PROVE OwnersHoldSlots'
  <2>1. CASE RecoverResumed(c)  BY <2>1 DEF RecoverResumed, Recovered, AdmitRecovered,
       HasRoom, Reserve, Step
  <2>2. CASE RecoverConcluded(c)  BY <2>2 DEF RecoverConcluded, Recovered,
       AdmitRecovered, HasRoom, Reserve
  <2>3. CASE RecoverAbandoned(c)  BY <2>3 DEF RecoverAbandoned, Recovered
  <2> QED  BY <1>3, <2>1, <2>2, <2>3 DEF RecoveryStep
<1>4. CASE RuntimeStep
  <2>1. CASE TickerCollects  BY <2>1 DEF TickerCollects, Collect, Unfinished, Sweeping
  <2>2. CASE TickerSaves  BY <2>2 DEF TickerSaves, Save
  <2>3. CASE Stop  BY <2>3 DEF Stop
  <2>4. CASE Drained  BY <2>4 DEF Drained, Collect, Unfinished
  <2>5. CASE StopSaves  BY <2>5 DEF StopSaves, Save
  <2>6. CASE Stopped  BY <2>6 DEF Stopped
  <2>7. CASE Restart  BY <2>7 DEF Restart
  <2>8. CASE Start  BY <2>8 DEF Start
  <2>9. CASE Open  BY <2>9 DEF Open
  <2> QED  BY <1>4, <2>1, <2>2, <2>3, <2>4, <2>5, <2>6, <2>7, <2>8, <2>9 DEF RuntimeStep
<1>5. CASE UNCHANGED vars  BY <1>5 DEF vars
<1> QED  BY <1>1, <1>2, <1>3, <1>4, <1>5 DEF Next

\* A slot is granted below the ceiling only.
LEMMA CeilingStep == CallRuntimeInv /\ [Next]_vars => SlotsWithinCeiling'
<1> SUFFICES ASSUME CallRuntimeInv, [Next]_vars PROVE SlotsWithinCeiling'
  OBVIOUS
<1>0. TypeOK /\ SlotsWithinCeiling  BY DEF CallRuntimeInv
<1> USE <1>0, CallRuntimeAssumption DEF TypeOK, SlotsWithinCeiling, calls, admission,
     snapshots
<1>1. ASSUME NEW c \in Call, BeginStep(c) PROVE SlotsWithinCeiling'
  <2>1. CASE Accepting(c)  BY <2>1 DEF Accepting, Step
  <2>2. CASE Admit(c)  BY <2>2 DEF Admit, HasRoom, Reserve, Step
  <2>3. CASE NotCreated(c)  BY <2>3 DEF NotCreated, Step
  <2>4. CASE Create(c)  BY <2>4 DEF Create, Step
  <2>5. CASE CountIn(c)  BY <2>5 DEF CountIn, Step
  <2>6. CASE First(c)  BY <2>6 DEF First, Transition, Step
  <2>7. CASE FirstRefused(c)  BY <2>7 DEF FirstRefused, Step
  <2>8. CASE UndoRemove(c)  BY <2>8 DEF UndoRemove, Step
  <2>9. CASE UndoCount(c)  BY <2>9 DEF UndoCount, Step
  <2>10. CASE UndoRelease(c)  BY <2>10 DEF UndoRelease, GiveBack, Step
  <2> QED  BY <1>1, <2>1, <2>2, <2>3, <2>4, <2>5, <2>6, <2>7, <2>8, <2>9, <2>10 DEF
       BeginStep
<1>2. ASSUME NEW c \in Call, CallStep(c) PROVE SlotsWithinCeiling'
  <2>1. CASE Move(c)  BY <2>1 DEF Move, Transition, Known
  <2>2. CASE Finish(c)  BY <2>2 DEF Finish, Transition, Known
  <2>3. CASE Conclude(c)  BY <2>3 DEF Conclude, Transition, Known
  <2>4. CASE Sweep(c)  BY <2>4 DEF Sweep, Transition, Sweeping
  <2>5. CASE Reap(c)  BY <2>5 DEF Reap, Transition, Sweeping
  <2>6. CASE Remove(c)  BY <2>6 DEF Remove
  <2>7. CASE CountOut(c)  BY <2>7 DEF CountOut
  <2>8. CASE Release(c)  BY <2>8 DEF Release, GiveBack
  <2>9. CASE Forget(c)  BY <2>9 DEF Forget
  <2> QED  BY <1>2, <2>1, <2>2, <2>3, <2>4, <2>5, <2>6, <2>7, <2>8, <2>9 DEF CallStep
<1>3. ASSUME NEW c \in Call, RecoveryStep(c) PROVE SlotsWithinCeiling'
  <2>1. CASE RecoverResumed(c)  BY <2>1 DEF RecoverResumed, Recovered, AdmitRecovered,
       HasRoom, Reserve, Step
  <2>2. CASE RecoverConcluded(c)  BY <2>2 DEF RecoverConcluded, Recovered,
       AdmitRecovered, HasRoom, Reserve
  <2>3. CASE RecoverAbandoned(c)  BY <2>3 DEF RecoverAbandoned, Recovered
  <2> QED  BY <1>3, <2>1, <2>2, <2>3 DEF RecoveryStep
<1>4. CASE RuntimeStep
  <2>1. CASE TickerCollects  BY <2>1 DEF TickerCollects, Collect, Unfinished, Sweeping
  <2>2. CASE TickerSaves  BY <2>2 DEF TickerSaves, Save
  <2>3. CASE Stop  BY <2>3 DEF Stop
  <2>4. CASE Drained  BY <2>4 DEF Drained, Collect, Unfinished
  <2>5. CASE StopSaves  BY <2>5 DEF StopSaves, Save
  <2>6. CASE Stopped  BY <2>6 DEF Stopped
  <2>7. CASE Restart  BY <2>7 DEF Restart
  <2>8. CASE Start  BY <2>8 DEF Start
  <2>9. CASE Open  BY <2>9 DEF Open
  <2> QED  BY <1>4, <2>1, <2>2, <2>3, <2>4, <2>5, <2>6, <2>7, <2>8, <2>9 DEF RuntimeStep
<1>5. CASE UNCHANGED vars  BY <1>5 DEF vars
<1> QED  BY <1>1, <1>2, <1>3, <1>4, <1>5 DEF Next

\* Every slot counted is the reservation of one call.
LEMMA ReservationsStep == CallRuntimeInv /\ [Next]_vars => SlotsAreReservations'
<1> SUFFICES ASSUME CallRuntimeInv, [Next]_vars PROVE SlotsAreReservations'
  OBVIOUS
<1>0. TypeOK /\ StepsAgree /\ StartsClean /\ OwnersHoldSlots /\ SlotsAreReservations  BY
     DEF CallRuntimeInv
<1> USE <1>0, CallRuntimeAssumption DEF SlotsAreReservations, calls, admission, snapshots
<1>1. ASSUME NEW c \in Call, BeginStep(c) PROVE SlotsAreReservations'
  <2>1. CASE Accepting(c)  BY <2>1 DEF Accepting, Step
  <2>2. CASE Admit(c)
    <3>1. CASE UNCHANGED <<slots, reserved>>  BY <2>2, <3>1 DEF Admit
    <3>2. CASE Reserve(c)
      <4>1. c \notin reserved  BY <2>2 DEF Admit, StepsAgree
      <4>2. overridden' = overridden  BY <2>2 DEF Admit
      <4> QED  BY <3>2, <4>1, <4>2, ReserveCounts
    <3> QED  BY <2>2, <3>1, <3>2 DEF Admit
  <2>3. CASE NotCreated(c)  BY <2>3 DEF NotCreated, Step
  <2>4. CASE Create(c)  BY <2>4 DEF Create, Step
  <2>5. CASE CountIn(c)  BY <2>5 DEF CountIn, Step
  <2>6. CASE First(c)  BY <2>6 DEF First, Transition, Step
  <2>7. CASE FirstRefused(c)  BY <2>7 DEF FirstRefused, Step
  <2>8. CASE UndoRemove(c)  BY <2>8 DEF UndoRemove, Step
  <2>9. CASE UndoCount(c)  BY <2>9 DEF UndoCount, Step
  <2>10. CASE UndoRelease(c)
    <3>1. CASE overridden  BY <2>10, <3>1 DEF UndoRelease, GiveBack
    <3>2. CASE ~overridden /\ c \in reserved
      <4>1. GiveBack(c)  BY <2>10 DEF UndoRelease
      <4> QED  BY <3>2, <4>1, GiveBackCounts
    <3>3. c \in reserved \/ overridden
      BY <2>10 DEF UndoRelease, OwnersHoldSlots, SlotOwnedByBegin, SlotOwnedByEnder
    <3> QED  BY <3>1, <3>2, <3>3
  <2> QED  BY <1>1, <2>1, <2>2, <2>3, <2>4, <2>5, <2>6, <2>7, <2>8, <2>9, <2>10 DEF
       BeginStep
<1>2. ASSUME NEW c \in Call, CallStep(c) PROVE SlotsAreReservations'
  <2>1. CASE Move(c)  BY <2>1 DEF Move, Transition, Known
  <2>2. CASE Finish(c)  BY <2>2 DEF Finish, Transition, Known
  <2>3. CASE Conclude(c)  BY <2>3 DEF Conclude, Transition, Known
  <2>4. CASE Sweep(c)  BY <2>4 DEF Sweep, Transition, Sweeping
  <2>5. CASE Reap(c)  BY <2>5 DEF Reap, Transition, Sweeping
  <2>6. CASE Remove(c)  BY <2>6 DEF Remove
  <2>7. CASE CountOut(c)  BY <2>7 DEF CountOut
  <2>8. CASE Release(c)
    <3>1. CASE overridden  BY <2>8, <3>1 DEF Release, GiveBack
    <3>2. CASE ~overridden /\ c \in reserved
      <4>1. GiveBack(c)  BY <2>8 DEF Release
      <4> QED  BY <3>2, <4>1, GiveBackCounts
    <3>3. c \in reserved \/ overridden
      BY <2>8 DEF Release, OwnersHoldSlots, SlotOwnedByBegin, SlotOwnedByEnder
    <3> QED  BY <3>1, <3>2, <3>3
  <2>9. CASE Forget(c)  BY <2>9 DEF Forget
  <2> QED  BY <1>2, <2>1, <2>2, <2>3, <2>4, <2>5, <2>6, <2>7, <2>8, <2>9 DEF CallStep
<1>3. ASSUME NEW c \in Call, RecoveryStep(c) PROVE SlotsAreReservations'
  <2>1. CASE RecoverResumed(c)
    <3>1. CASE overridden'  BY <3>1
    <3>2. CASE ~overridden'
      <4>1. ~overridden /\ Reserve(c) /\ c \notin reserved
        BY <2>1, <3>2 DEF RecoverResumed, Recovered, AdmitRecovered, Reserve, StartsClean
      <4> QED  BY <4>1, ReserveCounts
    <3> QED  BY <3>1, <3>2
  <2>2. CASE RecoverConcluded(c)
    <3>1. CASE overridden'  BY <3>1
    <3>2. CASE ~overridden'
      <4>1. ~overridden /\ Reserve(c) /\ c \notin reserved
        BY <2>2, <3>2 DEF RecoverConcluded, Recovered, AdmitRecovered, Reserve, StartsClean
      <4> QED  BY <4>1, ReserveCounts
    <3> QED  BY <3>1, <3>2
  <2>3. CASE RecoverAbandoned(c)  BY <2>3 DEF RecoverAbandoned, Recovered
  <2> QED  BY <1>3, <2>1, <2>2, <2>3 DEF RecoveryStep
<1>4. CASE RuntimeStep
  <2>1. CASE TickerCollects  BY <2>1 DEF TickerCollects, Collect, Unfinished, Sweeping
  <2>2. CASE TickerSaves  BY <2>2 DEF TickerSaves, Save
  <2>3. CASE Stop  BY <2>3 DEF Stop
  <2>4. CASE Drained  BY <2>4 DEF Drained, Collect, Unfinished
  <2>5. CASE StopSaves  BY <2>5 DEF StopSaves, Save
  <2>6. CASE Stopped  BY <2>6 DEF Stopped
  <2>7. CASE Restart
    <3> QED  BY <2>7, NoReservations DEF Restart
  <2>8. CASE Start  BY <2>8 DEF Start
  <2>9. CASE Open  BY <2>9 DEF Open
  <2> QED  BY <1>4, <2>1, <2>2, <2>3, <2>4, <2>5, <2>6, <2>7, <2>8, <2>9 DEF RuntimeStep
<1>5. CASE UNCHANGED vars  BY <1>5 DEF vars
<1> QED  BY <1>1, <1>2, <1>3, <1>4, <1>5 DEF Next

-----------------------------------------------------------------------------
\* The inductive invariant, for any calls, providers and limits.
THEOREM CallRuntimeInvariant == Spec => []CallRuntimeInv
<1>1. CallRuntimeInv /\ [Next]_vars => CallRuntimeInv'
  BY TypeStep, StepsStep, StartsStep, OwnersStep, CeilingStep, ReservationsStep
  DEF CallRuntimeInv
<1> QED  BY <1>1, CallRuntimeInit, PTL DEF Spec

\* Every variable keeps its type (CallScheduler's counters never go below 0).
THEOREM TypeCorrect == Spec => []TypeOK
<1>1. CallRuntimeInv => TypeOK  BY DEF CallRuntimeInv
<1> QED  BY <1>1, CallRuntimeInvariant, PTL

\* A granted slot is returned at most once, whoever ends the call.
THEOREM SlotsPaired == Spec => []SlotsAreReservations
<1>1. CallRuntimeInv => SlotsAreReservations  BY DEF CallRuntimeInv
<1> QED  BY <1>1, CallRuntimeInvariant, PTL

\* The calls of a provider are within its ceiling (MaxCallsPerProvider).
THEOREM CeilingHolds == Spec => []ProviderCeiling
<1>1. CallRuntimeInv => ProviderCeiling
  <2> SUFFICES ASSUME CallRuntimeInv, ~overridden, MaxCallsPerProvider > 0,
                      NEW q \in Provider
               PROVE  Cardinality({c \in Call : Unfinished(c) /\ ProviderOf[c] = q})
                        <= MaxCallsPerProvider
    BY DEF ProviderCeiling
  <2> DEFINE U == {c \in Call : Unfinished(c) /\ ProviderOf[c] = q}
  <2>1. U \subseteq Of(q, reserved)
    BY DEF CallRuntimeInv, OwnersHoldSlots, Of
  <2>2. IsFiniteSet(Of(q, reserved)) /\ Cardinality(Of(q, reserved)) \in Nat
    BY OfReserved DEF CallRuntimeInv, TypeOK
  <2>3. Cardinality(U) <= Cardinality(Of(q, reserved)) /\ Cardinality(U) \in Nat
    BY <2>1, <2>2, FS_Subset, FS_CardinalityType
  <2>4. Cardinality(Of(q, reserved)) <= MaxCallsPerProvider
    BY DEF CallRuntimeInv, SlotsAreReservations, SlotsWithinCeiling
  <2> QED  BY <2>2, <2>3, <2>4, CallRuntimeAssumption
<1> QED  BY <1>1, CallRuntimeInvariant, PTL

-----------------------------------------------------------------------------
\* What Stop saved is touched by nobody: recovery is over, the calls it stands
\* for have a session, and a delete is of a call that is over.
KeptAgree ==
  /\ AbandonedCallsAreKept
  /\ kept # {} => runtime \in {"closing", "stopped"}
  /\ \A c \in Call : begin[c] \in Fresh => c \notin kept
  /\ \A c \in Call : ending[c] \in SlotOwnedByEnder \cup {"delete"} =>
       begin[c] = "begun" /\ state[c] \in Terminal

\* Every action keeps it.
LEMMA KeptStep == CallRuntimeInv /\ KeptAgree /\ [Next]_vars => KeptAgree'
<1> SUFFICES ASSUME CallRuntimeInv, KeptAgree, [Next]_vars PROVE KeptAgree'
  OBVIOUS
<1>0. TypeOK /\ StepsAgree /\ StartsClean  BY DEF CallRuntimeInv
<1> USE <1>0, CallRuntimeAssumption, ExitsLead DEF KeptAgree, AbandonedCallsAreKept, TypeOK, StepsAgree, StartsClean,
     Fresh, SlotOwnedByEnder, Writers, Terminal, CallState, Setup, calls, admission,
     snapshots
<1>1. ASSUME NEW c \in Call, BeginStep(c) PROVE KeptAgree'
  <2>1. CASE Accepting(c)  BY <2>1 DEF Accepting, Step
  <2>2. CASE Admit(c)  BY <2>2 DEF Admit, HasRoom, Reserve, Step
  <2>3. CASE NotCreated(c)  BY <2>3 DEF NotCreated, Step
  <2>4. CASE Create(c)  BY <2>4 DEF Create, Step
  <2>5. CASE CountIn(c)  BY <2>5 DEF CountIn, Step
  <2>6. CASE First(c)  BY <2>6 DEF First, Transition, Step
  <2>7. CASE FirstRefused(c)  BY <2>7 DEF FirstRefused, Step
  <2>8. CASE UndoRemove(c)  BY <2>8 DEF UndoRemove, Step
  <2>9. CASE UndoCount(c)  BY <2>9 DEF UndoCount, Step
  <2>10. CASE UndoRelease(c)  BY <2>10 DEF UndoRelease, GiveBack, Step
  <2> QED  BY <1>1, <2>1, <2>2, <2>3, <2>4, <2>5, <2>6, <2>7, <2>8, <2>9, <2>10 DEF
       BeginStep
<1>2. ASSUME NEW c \in Call, CallStep(c) PROVE KeptAgree'
  <2>1. CASE Move(c)  BY <2>1 DEF Move, Transition, Known
  <2>2. CASE Finish(c)  BY <2>2 DEF Finish, Transition, Known
  <2>3. CASE Conclude(c)  BY <2>3 DEF Conclude, Transition, Known
  <2>4. CASE Sweep(c)  BY <2>4 DEF Sweep, Transition, Sweeping
  <2>5. CASE Reap(c)  BY <2>5 DEF Reap, Transition, Sweeping
  <2>6. CASE Remove(c)  BY <2>6 DEF Remove
  <2>7. CASE CountOut(c)  BY <2>7 DEF CountOut
  <2>8. CASE Release(c)  BY <2>8 DEF Release, GiveBack
  <2>9. CASE Forget(c)  BY <2>9 DEF Forget
  <2> QED  BY <1>2, <2>1, <2>2, <2>3, <2>4, <2>5, <2>6, <2>7, <2>8, <2>9 DEF CallStep
<1>3. ASSUME NEW c \in Call, RecoveryStep(c) PROVE KeptAgree'
  <2>1. CASE RecoverResumed(c)  BY <2>1 DEF RecoverResumed, Recovered, AdmitRecovered,
       HasRoom, Reserve, Step
  <2>2. CASE RecoverConcluded(c)  BY <2>2 DEF RecoverConcluded, Recovered,
       AdmitRecovered, HasRoom, Reserve
  <2>3. CASE RecoverAbandoned(c)  BY <2>3 DEF RecoverAbandoned, Recovered
  <2> QED  BY <1>3, <2>1, <2>2, <2>3 DEF RecoveryStep
<1>4. CASE RuntimeStep
  <2>1. CASE TickerCollects  BY <2>1 DEF TickerCollects, Collect, Unfinished, Sweeping
  <2>2. CASE TickerSaves  BY <2>2 DEF TickerSaves, Save
  <2>3. CASE Stop  BY <2>3 DEF Stop
  <2>4. CASE Drained  BY <2>4 DEF Drained, Collect, Unfinished
  <2>5. CASE StopSaves  BY <2>5 DEF StopSaves, Save
  <2>6. CASE Stopped  BY <2>6 DEF Stopped
  <2>7. CASE Restart  BY <2>7 DEF Restart
  <2>8. CASE Start  BY <2>8 DEF Start
  <2>9. CASE Open  BY <2>9 DEF Open
  <2> QED  BY <1>4, <2>1, <2>2, <2>3, <2>4, <2>5, <2>6, <2>7, <2>8, <2>9 DEF RuntimeStep
<1>5. CASE UNCHANGED vars  BY <1>5 DEF vars
<1> QED  BY <1>1, <1>2, <1>3, <1>4, <1>5 DEF Next

\* What Stop saved stays in the store until the call is over (Stop, Forget, the
\* ticker's save).
THEOREM StopKeepsCalls == Spec => []AbandonedCallsAreKept
<1>1. Init => KeptAgree
  BY DEF Init, KeptAgree, AbandonedCallsAreKept, SlotOwnedByEnder, Fresh
<1>2. KeptAgree => AbandonedCallsAreKept  BY DEF KeptAgree
<1> QED  BY <1>1, <1>2, KeptStep, CallRuntimeInvariant, PTL DEF Spec

=============================================================================
