------------------------- MODULE GenerationProofs --------------------------
(***************************************************************************)
(* For any generations, sessions and limits: the counters of the kernel    *)
(* agree, no slot of the semaphore and no place of a half-open breaker is  *)
(* lost, and a drain that ended by itself misses only latecomers.          *)
(***************************************************************************)
EXTENDS Generation, FiniteSetTheorems, SequenceTheorems, TLAPS

\* Each generation starts a stream with no attempts made and some left.
AttemptsAreLeft ==
  \A t \in Task :
    /\ pc[t] \notin {"opening", "calling"} => attempts[t] = 0
    /\ pc[t] = "opening" => attempts[t] < MaxAttempts

\* Whoever is counted after a clean drain was counted after Close.
OnlyLatecomers == clean => Closed /\ Those(Counted) \subseteq late

\* The inductive invariant.
GenerationIInv ==
  /\ TypeOK /\ CountersAgree /\ AttemptsAreLeft
  /\ NoSlotIsLost /\ NoTrialPlaceIsLost /\ OnlyLatecomers

----------------------------------------------------------------------------
(* Counting *)

LEMMA SomeTasks ==
  ASSUME NEW S \in SUBSET Task
  PROVE  IsFiniteSet(S) /\ Cardinality(S) \in Nat
BY BreakerAssumption, FS_Subset, FS_CardinalityType

LEMMA OneMore ==
  ASSUME NEW S \in SUBSET Task, NEW t \in Task \ S
  PROVE  Cardinality(S \cup {t}) = Cardinality(S) + 1
BY SomeTasks, FS_AddElement

LEMMA OneLess ==
  ASSUME NEW S \in SUBSET Task, NEW t \in S
  PROVE  Cardinality(S \ {t}) = Cardinality(S) - 1 /\ Cardinality(S) > 0
<1>1. Cardinality(S) # 0 /\ Cardinality(S) \in Nat  BY SomeTasks, FS_EmptySet
<1>2. Cardinality(S \ {t}) = Cardinality(S) - 1  BY SomeTasks, FS_RemoveElement
<1> QED  BY <1>1, <1>2

\* The generations that f puts somewhere in W, and those of one session.
Where(f, W) == {t \in Task : f[t] \in W}
WhereOf(f, W, s) == {t \in Task : f[t] \in W /\ SessionOf[t] = s}

LEMMA ThoseAreWhere ==
  ASSUME NEW W
  PROVE  Those(W) = Where(pc, W) /\ Those(W)' = Where(pc', W)
BY DEF Those, Where

\* What a move of one generation adds to the number of those in W.
Gain(f, t, there, W) ==
  (IF there \in W THEN 1 ELSE 0) - (IF f[t] \in W THEN 1 ELSE 0)
GainOf(f, t, there, W, s) == IF SessionOf[t] = s THEN Gain(f, t, there, W) ELSE 0

LEMMA MoveGains ==
  ASSUME NEW f \in [Task -> PCs], NEW t \in Task, NEW there, NEW W,
         NEW g, g = [f EXCEPT ![t] = there]
  PROVE  /\ Cardinality(Where(f, W)) \in Nat /\ Cardinality(Where(g, W)) \in Nat
         /\ Cardinality(Where(g, W)) = Cardinality(Where(f, W)) + Gain(f, t, there, W)
<1> DEFINE X == Where(f, W)
           Y == Where(g, W)
<1>1. X \in SUBSET Task /\ Y \in SUBSET Task  BY DEF Where
<1>2. (f[t] \in W <=> there \in W) => Y = X  BY DEF Where
<1>3. f[t] \notin W /\ there \in W => Y = X \cup {t} /\ t \in Task \ X  BY DEF Where
<1>4. f[t] \in W /\ there \notin W => Y = X \ {t} /\ t \in X  BY DEF Where
<1> HIDE DEF X, Y
<1>5. f[t] \notin W /\ there \in W => Cardinality(Y) = Cardinality(X) + 1
  BY <1>1, <1>3, OneMore
<1>6. f[t] \in W /\ there \notin W => Cardinality(Y) = Cardinality(X) - 1
  BY <1>1, <1>4, OneLess
<1>7. Cardinality(X) \in Nat /\ Cardinality(Y) \in Nat  BY <1>1, SomeTasks
<1>8. Cardinality(Y) = Cardinality(X) + Gain(f, t, there, W)
  BY <1>2, <1>5, <1>6, <1>7 DEF Gain
<1> QED  BY <1>7, <1>8 DEF X, Y

LEMMA MoveGainsOf ==
  ASSUME NEW f \in [Task -> PCs], NEW t \in Task, NEW there, NEW W, NEW s \in Session,
         NEW g, g = [f EXCEPT ![t] = there]
  PROVE  /\ Cardinality(WhereOf(f, W, s)) \in Nat
         /\ Cardinality(WhereOf(g, W, s)) =
              Cardinality(WhereOf(f, W, s)) + GainOf(f, t, there, W, s)
<1> DEFINE X == WhereOf(f, W, s)
           Y == WhereOf(g, W, s)
           Own == SessionOf[t] = s
<1>1. X \in SUBSET Task /\ Y \in SUBSET Task  BY DEF WhereOf
<1>2. ~Own \/ (f[t] \in W <=> there \in W) => Y = X  BY DEF WhereOf
<1>3. Own /\ f[t] \notin W /\ there \in W => Y = X \cup {t} /\ t \in Task \ X  BY DEF WhereOf
<1>4. Own /\ f[t] \in W /\ there \notin W => Y = X \ {t} /\ t \in X  BY DEF WhereOf
<1> HIDE DEF X, Y
<1>5. Own /\ f[t] \notin W /\ there \in W => Cardinality(Y) = Cardinality(X) + 1
  BY <1>1, <1>3, OneMore
<1>6. Own /\ f[t] \in W /\ there \notin W => Cardinality(Y) = Cardinality(X) - 1
  BY <1>1, <1>4, OneLess
<1>7. Cardinality(X) \in Nat /\ Cardinality(Y) \in Nat  BY <1>1, SomeTasks
<1>8. Cardinality(Y) = Cardinality(X) + GainOf(f, t, there, W, s)
  BY <1>2, <1>5, <1>6, <1>7 DEF Gain, GainOf
<1> QED  BY <1>7, <1>8 DEF X, Y

----------------------------------------------------------------------------
(* One generation's step *)

\* What every step of a generation does to what the invariants count.
Moved(t, there) ==
  /\ pc' = [pc EXCEPT ![t] = there]
  /\ wg' = wg + Gain(pc, t, there, Counted)
  /\ inFlight' = inFlight + Gain(pc, t, there, Loaded)
  /\ \A s \in Session : requests'[s] = requests[s] + GainOf(pc, t, there, Begun, s)
  /\ \A u \in Task :
       ticket'[u] # "none" <=> IF u = t THEN there = "calling" ELSE ticket[u] # "none"
  /\ free' = MaxConcurrent \/ free' + Gain(pc, t, there, Slotted) >= free
  /\ late \subseteq late'
  /\ Closed /\ there \in Counted /\ pc[t] \notin Counted => t \in late'
  /\ UNCHANGED <<stage, clean>>

LEMMA MovedKeeps ==
  ASSUME GenerationIInv, NEW t \in Task, NEW there \in PCs, Moved(t, there), free' \in Nat
  PROVE  CountersAgree' /\ NoSlotIsLost' /\ OnlyLatecomers'
<1>0. pc \in [Task -> PCs] /\ pc' = [pc EXCEPT ![t] = there]
  BY DEF GenerationIInv, TypeOK, Moved
<1>1. wg' = Cardinality(Those(Counted)')
  <2>1. wg = Cardinality(Where(pc, Counted))
    BY ThoseAreWhere DEF GenerationIInv, CountersAgree
  <2>2. wg' = wg + Gain(pc, t, there, Counted)  BY DEF Moved
  <2>3. wg' = Cardinality(Where(pc', Counted))  BY <1>0, <2>1, <2>2, MoveGains
  <2> QED  BY <2>3, ThoseAreWhere
<1>2. inFlight' = Cardinality(Those(Loaded)')
  <2> DEFINE W == Loaded
  <2>1. inFlight = Cardinality(Where(pc, W))
    BY ThoseAreWhere DEF GenerationIInv, CountersAgree
  <2>2. inFlight' = inFlight + Gain(pc, t, there, W)  BY DEF Moved
  <2> HIDE DEF W
  <2>3. inFlight' = Cardinality(Where(pc', W))  BY <1>0, <2>1, <2>2, MoveGains
  <2> QED  BY <2>3, ThoseAreWhere DEF W
<1>3. ASSUME NEW s \in Session
      PROVE  requests'[s] = Cardinality({u \in Those(Begun)' : SessionOf[u] = s})
  <2>1. /\ {u \in Those(Begun)' : SessionOf[u] = s} = WhereOf(pc', Begun, s)
        /\ {u \in Those(Begun) : SessionOf[u] = s} = WhereOf(pc, Begun, s)
    BY DEF Those, WhereOf
  <2>2. requests[s] = Cardinality(WhereOf(pc, Begun, s))
    BY <2>1 DEF GenerationIInv, CountersAgree
  <2>3. requests'[s] = requests[s] + GainOf(pc, t, there, Begun, s)  BY DEF Moved
  <2>4. requests'[s] = Cardinality(WhereOf(pc', Begun, s))
    <3>1. Cardinality(WhereOf(pc', Begun, s)) =
            Cardinality(WhereOf(pc, Begun, s)) + GainOf(pc, t, there, Begun, s)
      BY <1>0, MoveGainsOf
    <3> QED  BY <2>2, <2>3, <3>1
  <2> QED  BY <2>1, <2>4
<1>4. \A u \in Task : ticket'[u] # "none" <=> pc'[u] = "calling"
  BY <1>0 DEF Moved, GenerationIInv, CountersAgree
<1>5. NoSlotIsLost'
  <2> DEFINE W == Slotted
  <2>1. free + Cardinality(Where(pc, W)) >= MaxConcurrent
    BY ThoseAreWhere DEF GenerationIInv, NoSlotIsLost
  <2>2. free' = MaxConcurrent \/ free' + Gain(pc, t, there, W) >= free  BY DEF Moved
  <2>3. free \in Nat /\ free' \in Nat /\ MaxConcurrent \in Nat
    BY GenerationAssumption DEF GenerationIInv, TypeOK
  <2> HIDE DEF W
  <2>4. /\ Cardinality(Where(pc, W)) \in Nat /\ Cardinality(Where(pc', W)) \in Nat
        /\ Cardinality(Where(pc', W)) = Cardinality(Where(pc, W)) + Gain(pc, t, there, W)
    BY <1>0, MoveGains
  <2>5. Gain(pc, t, there, W) \in -1 .. 1  BY DEF Gain
  <2>6. free' + Cardinality(Where(pc', W)) >= MaxConcurrent
    BY <2>1, <2>2, <2>3, <2>4, <2>5
  <2> QED  BY <2>6, ThoseAreWhere DEF NoSlotIsLost, W
<1>6. OnlyLatecomers'
  <2>1. Those(Counted)' \subseteq Those(Counted)
             \cup (IF there \in Counted /\ pc[t] \notin Counted THEN {t} ELSE {})
    BY <1>0 DEF Those
  <2> QED  BY <2>1 DEF GenerationIInv, OnlyLatecomers, Moved, Closed
<1> QED  BY <1>1, <1>2, <1>3, <1>4, <1>5, <1>6 DEF CountersAgree

\* Every step of a generation is such a move.
LEMMA StepsMove ==
  ASSUME TypeOK, CountersAgree, NEW t \in Task, Ask(t) \/ Proceed(t)
  PROVE  \E there \in PCs : Moved(t, there) /\ free' \in Nat
<1> DEFINE Goes(there) == Moved(t, there) /\ free' \in Nat
<1> USE DEF Moved, Gain, GainOf, Held, Counted, Loaded, Slotted, Begun, PCs, Closed
<1>0. /\ pc \in [Task -> PCs] /\ free \in Nat /\ wg \in Nat /\ inFlight \in Nat
      /\ requests \in [Session -> Nat] /\ SessionOf[t] \in Session
      /\ MaxConcurrent \in Nat /\ free <= MaxConcurrent /\ late \subseteq Task
      /\ ticket \in [Task -> {"none", "call", "trial"}]
      /\ \A u \in Task : ticket[u] # "none" <=> pc[u] = "calling"
  BY GenerationAssumption DEF TypeOK, BreakerTypeOK, CountersAgree
<1>1. CASE Ask(t)
  <2>1. PICK there \in {"taking", "looking", "shed"} : pc' = [pc EXCEPT ![t] = there]
    BY <1>1 DEF Ask
  <2>2. pc[t] = "idle" /\ UNCHANGED <<breakerVars, slotVars, taskVars, stage, clean, sessionVars>>
    BY <1>1 DEF Ask
  <2>3. Goes(there)
    BY <1>0, <2>1, <2>2 DEF breakerVars, slotVars, taskVars, sessionVars
  <2> QED  BY <2>3
<1>2. CASE Look(t)
  <2>1. PICK there \in {"shed", "joining"} : pc' = [pc EXCEPT ![t] = there]
    BY <1>2 DEF Look
  <2>2. pc[t] = "looking" /\ UNCHANGED <<breakerVars, slotVars, taskVars, stage, clean, sessionVars>>
    BY <1>2 DEF Look
  <2>3. Goes(there)
    BY <1>0, <2>1, <2>2 DEF breakerVars, slotVars, taskVars, sessionVars
  <2> QED  BY <2>3
<1>3. CASE Join(t)
  <2>1. PICK there \in {"queueing", "shed", "waiting"} : pc' = [pc EXCEPT ![t] = there]
    BY <1>3 DEF Join, At
  <2>2. /\ pc[t] \in {"joining", "queueing"}
        /\ UNCHANGED <<breakerVars, slotVars, taskVars, stage, clean, sessionVars>>
    BY <1>3 DEF Join, At
  <2>3. Goes(there)
    BY <1>0, <2>1, <2>2 DEF breakerVars, slotVars, taskVars, sessionVars
  <2> QED  BY <2>3
<1>4. CASE TakeSlot(t)
  <2>1. Goes("counting")
    BY <1>0, <1>4 DEF TakeSlot, breakerVars, taskVars, sessionVars
  <2> QED  BY <2>1
<1>5. CASE GiveUp(t)
  <2>1. Goes("shed")
    BY <1>0, <1>5 DEF GiveUp, At, breakerVars, slotVars, taskVars, sessionVars
  <2> QED  BY <2>1
<1>6. CASE Count(t)
  <2>1. Goes("enlisting")
    BY <1>0, <1>6 DEF Count, At, breakerVars, taskVars, sessionVars
  <2> QED  BY <2>1
<1>18. CASE Enlist(t)
  <2>1. Goes("admitted")
    BY <1>0, <1>18 DEF Enlist, At, breakerVars, sessionVars
  <2> QED  BY <2>1
<1>7. CASE GetSession(t)
  <2>1. PICK there \in {"checking", "beginning", "releasing"} : pc' = [pc EXCEPT ![t] = there]
    BY <1>7 DEF GetSession, At
  <2>2. /\ pc[t] \in {"admitted", "checking"}
        /\ UNCHANGED <<breakerVars, slotVars, taskVars, stage, clean, sessionVars>>
    BY <1>7 DEF GetSession, At
  <2>3. Goes(there)
    BY <1>0, <2>1, <2>2 DEF breakerVars, slotVars, taskVars, sessionVars
  <2> QED  BY <2>3
<1>8. CASE BeginRequest(t)
  <2>1. Goes("opening")
    BY <1>0, <1>8 DEF BeginRequest, At, breakerVars, slotVars, taskVars
  <2> QED  BY <2>1
<1>9. CASE SetupFails(t)
  <2>1. Goes("completing")
    BY <1>0, <1>9 DEF SetupFails, Leave, breakerVars, slotVars, sessionVars
  <2> QED  BY <2>1
<1>10. CASE NoProvider(t)
  <2>1. PICK there \in {"completing", "opening"} : pc' = [pc EXCEPT ![t] = there]
    BY <1>10 DEF NoProvider, Hop, Leave
  <2>2. pc[t] = "opening" /\ UNCHANGED <<breakerVars, slotVars, late, stage, clean, sessionVars>>
    BY <1>10 DEF NoProvider
  <2>3. Goes(there)
    BY <1>0, <2>1, <2>2 DEF breakerVars, slotVars, sessionVars
  <2> QED  BY <2>3
<1>11. CASE AskBreaker(t)
  <2>1. PICK allowed \in BOOLEAN :
          /\ Allow(t, allowed)
          /\ IF allowed THEN pc' = [pc EXCEPT ![t] = "calling"]
             ELSE \E there \in {"completing", "opening"} : pc' = [pc EXCEPT ![t] = there]
    BY <1>11 DEF AskBreaker, Hop, Leave
  <2>2. pc[t] = "opening" /\ UNCHANGED <<slotVars, late, stage, clean, sessionVars>>
    BY <1>11 DEF AskBreaker
  <2>3. /\ ticket[t] = "none"
        /\ ticket' = [ticket EXCEPT ![t] = IF ~allowed THEN "none"
                                           ELSE IF Evaluated = "closed" THEN "call" ELSE "trial"]
    BY <2>1 DEF Allow
  <2>4. PICK there \in {"calling", "completing", "opening"} :
          pc' = [pc EXCEPT ![t] = there] /\ (allowed <=> there = "calling")
    BY <2>1
  <2>5. \A u \in Task :
          ticket'[u] # "none" <=> IF u = t THEN there = "calling" ELSE ticket[u] # "none"
    BY <1>0, <2>3, <2>4
  <2>6. Goes(there)
    BY <1>0, <2>2, <2>4, <2>5 DEF slotVars, sessionVars
  <2> QED  BY <2>6
<1>12. CASE Opened(t)
  <2>1. \A u \in Task : ticket'[u] # "none" <=> IF u = t THEN FALSE ELSE ticket[u] # "none"
    BY <1>0, <1>12 DEF Opened, Report
  <2>2. Goes("streaming")
    BY <1>0, <1>12, <2>1 DEF Opened, Leave, slotVars, sessionVars
  <2> QED  BY <2>2
<1>13. CASE OpenFails(t)
  <2>1. \A u \in Task : ticket'[u] # "none" <=> IF u = t THEN FALSE ELSE ticket[u] # "none"
    BY <1>0, <1>13 DEF OpenFails, Report
  <2>2. PICK there \in {"completing", "opening"} : pc' = [pc EXCEPT ![t] = there]
    BY <1>13 DEF OpenFails, Hop, Leave
  <2>3. pc[t] = "calling" /\ UNCHANGED <<slotVars, late, stage, clean, sessionVars>>
    BY <1>13 DEF OpenFails
  <2>4. Goes(there)
    BY <1>0, <2>1, <2>2, <2>3 DEF slotVars, sessionVars
  <2> QED  BY <2>4
<1>14. CASE StreamEnds(t)
  <2>1. Goes("closing")
    BY <1>0, <1>14 DEF StreamEnds, At, breakerVars, slotVars, taskVars, sessionVars
  <2> QED  BY <2>1
<1>19. CASE StreamClosed(t)
  <2>1. Goes("completing")
    BY <1>0, <1>19 DEF StreamClosed, At, breakerVars, slotVars, taskVars, sessionVars
  <2> QED  BY <2>1
<1>15. CASE Complete(t)
  <2>1. Goes("releasing")
    BY <1>0, <1>15 DEF Complete, At, breakerVars, slotVars, taskVars
  <2> QED  BY <2>1
<1>16. CASE Uncount(t)
  <2>1. Goes("returning")
    BY <1>0, <1>16 DEF Uncount, At, breakerVars, taskVars, sessionVars
  <2> QED  BY <2>1
<1>17. CASE GiveBack(t)
  <2>1. Goes("telling")
    BY <1>0, <1>17 DEF GiveBack, At, breakerVars, taskVars, sessionVars
  <2> QED  BY <2>1
<1>20. CASE Tell(t)
  <2>1. Goes("done")
    BY <1>0, <1>20 DEF Tell, At, breakerVars, taskVars, sessionVars
  <2> QED  BY <2>1
<1> QED
  BY <1>1, <1>2, <1>3, <1>4, <1>5, <1>6, <1>7, <1>8, <1>9, <1>10, <1>11, <1>12, <1>13,
     <1>14, <1>15, <1>16, <1>17, <1>18, <1>19, <1>20 DEF Proceed, OwnStep, Returned

----------------------------------------------------------------------------
(* The breaker *)

BreakerOK == BreakerTypeOK /\ NoTrialPlaceIsLost

LEMMA Limits ==
  /\ HalfOpenProbes \in Nat /\ HalfOpenProbes > 0
  /\ SuccessesToClose \in Nat /\ SuccessesToClose > 0
BY BreakerAssumption

LEMMA TryingIsCounted ==
  /\ Trying \in SUBSET Task /\ Cardinality(Trying) \in Nat
  /\ Trying' \in SUBSET Task /\ Cardinality(Trying') \in Nat
<1>1. Trying \in SUBSET Task /\ Trying' \in SUBSET Task  BY DEF Trying
<1> QED  BY <1>1, SomeTasks

LEMMA AllowKeeps ==
  ASSUME BreakerOK, NEW t \in Task, NEW allowed \in BOOLEAN, Allow(t, allowed)
  PROVE  BreakerOK'
<1> DEFINE tried == allowed /\ Evaluated = "halfOpen"
<1>1. /\ breaker \in {"closed", "open", "halfOpen"} /\ halfOpenCalls \in 0 .. HalfOpenProbes
      /\ halfOpenOK \in 0 .. SuccessesToClose - 1
      /\ ticket \in [Task -> {"none", "call", "trial"}]
      /\ halfOpenCalls <= Cardinality(Trying)
  BY DEF BreakerOK, BreakerTypeOK, NoTrialPlaceIsLost
<1>2. BreakerTypeOK'
  <2>1. halfOpenCalls' \in 0 .. HalfOpenProbes
    <3>1. Trials \in 0 .. HalfOpenProbes  BY <1>1, Limits DEF Trials
    <3>2. tried => Trials < HalfOpenProbes  BY DEF Allow
    <3>3. halfOpenCalls' = IF tried THEN Trials + 1 ELSE Trials  BY DEF Allow
    <3> HIDE DEF tried
    <3> QED  BY <3>1, <3>2, <3>3, Limits
  <2>2. halfOpenOK' \in 0 .. SuccessesToClose - 1
    BY <1>1, Limits DEF Allow
  <2>3. /\ breaker' \in {"closed", "open", "halfOpen"} /\ cooled' \in BOOLEAN
        /\ ticket' \in [Task -> {"none", "call", "trial"}]
    BY <1>1 DEF Allow, Evaluated
  <2>4. observations' \in Seq(BOOLEAN)
    BY DEF BreakerOK, BreakerTypeOK, Allow
  <2> QED  BY <2>1, <2>2, <2>3, <2>4 DEF BreakerTypeOK
<1>3. t \notin Trying /\ Trying' = IF tried THEN Trying \cup {t} ELSE Trying
  BY <1>1 DEF Allow, Trying, Evaluated
<1>4. halfOpenCalls' = IF tried THEN Trials + 1 ELSE Trials
  BY DEF Allow
<1>5. Trials \in Nat /\ Trials <= Cardinality(Trying)
  BY <1>1, Limits, TryingIsCounted DEF Trials
<1> HIDE DEF tried
<1>6. Cardinality(Trying \cup {t}) = Cardinality(Trying) + 1
  BY <1>3, TryingIsCounted, OneMore
<1>7. halfOpenCalls' <= Cardinality(Trying')
  BY <1>3, <1>4, <1>5, <1>6, TryingIsCounted
<1> QED  BY <1>2, <1>7 DEF BreakerOK, NoTrialPlaceIsLost

LEMMA ReportKeeps ==
  ASSUME BreakerOK, NEW t \in Task, NEW how \in Outcome, Report(t, how)
  PROVE  BreakerOK'
<1>1. /\ breaker \in {"closed", "open", "halfOpen"} /\ halfOpenCalls \in 0 .. HalfOpenProbes
      /\ halfOpenOK \in 0 .. SuccessesToClose - 1 /\ cooled \in BOOLEAN
      /\ ticket \in [Task -> {"none", "call", "trial"}] /\ observations \in Seq(BOOLEAN)
      /\ halfOpenCalls <= Cardinality(Trying)
  BY DEF BreakerOK, BreakerTypeOK, NoTrialPlaceIsLost
<1>2. ticket' \in [Task -> {"none", "call", "trial"}]  BY <1>1 DEF Report
<1>3. CASE ticket[t] = "call"
  <2>1. ReportClosed(how) /\ UNCHANGED <<halfOpenCalls, halfOpenOK>>  BY <1>3 DEF Report
  <2>2. observations' \in Seq(BOOLEAN)
    <3>1. CASE how = "ignored"  BY <1>1, <2>1, <3>1 DEF ReportClosed
    <3>2. CASE how # "ignored"
      <4> DEFINE all == Append(observations, how = "failed")
      <4>1. all \in Seq(BOOLEAN)  BY <1>1
      <4>2. PICK i \in 1 .. Len(all) : observations' = SubSeq(all, i, Len(all))
        BY <2>1, <3>2 DEF ReportClosed, InWindow
      <4> HIDE DEF all
      <4>3. Len(all) \in Nat /\ i \in Int  BY <4>1
      <4>4. \A m \in i .. Len(all) : m \in 1 .. Len(all)  BY <4>3
      <4> QED  BY <4>1, <4>2, <4>4, SubSeqProperties
    <3> QED  BY <3>1, <3>2
  <2>3. breaker' \in {"closed", "open", "halfOpen"} /\ cooled' \in BOOLEAN
    BY <1>1, <2>1 DEF ReportClosed, Open
  <2>4. Trying' = Trying  BY <1>1, <1>3 DEF Report, Trying
  <2> QED
    BY <1>1, <1>2, <2>1, <2>2, <2>3, <2>4 DEF BreakerOK, BreakerTypeOK, NoTrialPlaceIsLost
<1>4. CASE ticket[t] = "trial"
  <2>1. ReportHalfOpen(how)  BY <1>4 DEF Report
  <2>2. /\ breaker' \in {"closed", "open", "halfOpen"} /\ cooled' \in BOOLEAN
        /\ observations' \in Seq(BOOLEAN) /\ halfOpenOK' \in 0 .. SuccessesToClose - 1
    <3>1. breaker' \in {"closed", "open", "halfOpen"} /\ cooled' \in BOOLEAN
      BY <1>1, <2>1 DEF ReportHalfOpen, Open
    <3>2. observations' \in Seq(BOOLEAN)
      <4>1. observations' \in {observations, <<>>}  BY <2>1 DEF ReportHalfOpen
      <4> QED  BY <1>1, <4>1, EmptySeq, Zenon
    <3>3. halfOpenOK' \in 0 .. SuccessesToClose - 1
      BY <1>1, <2>1, Limits DEF ReportHalfOpen
    <3> QED  BY <3>1, <3>2, <3>3
  <2>3. halfOpenCalls' = IF halfOpenCalls > 0 THEN halfOpenCalls - 1 ELSE 0
    BY <2>1 DEF ReportHalfOpen, TrialPlace
  <2>4. t \in Trying /\ Trying' = Trying \ {t}  BY <1>1, <1>4 DEF Report, Trying
  <2>5. halfOpenCalls' \in 0 .. HalfOpenProbes /\ halfOpenCalls' <= Cardinality(Trying')
    <3>1. Cardinality(Trying \ {t}) = Cardinality(Trying) - 1
      BY <2>4, TryingIsCounted, OneLess
    <3> QED  BY <1>1, <2>3, <2>4, <3>1, Limits, TryingIsCounted
  <2> QED  BY <1>2, <2>2, <2>5 DEF BreakerOK, BreakerTypeOK, NoTrialPlaceIsLost
<1> QED  BY <1>1, <1>3, <1>4 DEF Report

LEMMA BreakerStepKeeps ==
  ASSUME BreakerOK, CooldownEnds \/ ReadState \/ Reset \/ UNCHANGED breakerVars
  PROVE  BreakerOK'
<1>1. Trying' = Trying
  BY DEF Trying, CooldownEnds, ReadState, Reset, breakerVars
<1>2. /\ breaker \in {"closed", "open", "halfOpen"} /\ halfOpenCalls \in 0 .. HalfOpenProbes
      /\ halfOpenOK \in 0 .. SuccessesToClose - 1 /\ cooled \in BOOLEAN
      /\ ticket \in [Task -> {"none", "call", "trial"}] /\ observations \in Seq(BOOLEAN)
      /\ halfOpenCalls <= Cardinality(Trying)
  BY DEF BreakerOK, BreakerTypeOK, NoTrialPlaceIsLost
<1>3. halfOpenCalls' \in {halfOpenCalls, 0}
  BY DEF CooldownEnds, ReadState, Reset, breakerVars
<1>4. halfOpenCalls' <= Cardinality(Trying')
  BY <1>1, <1>2, <1>3, Limits, TryingIsCounted
<1>5. BreakerTypeOK'
  <2>1. halfOpenCalls' \in 0 .. HalfOpenProbes  BY <1>2, <1>3, Limits
  <2>2. halfOpenOK' \in 0 .. SuccessesToClose - 1
    BY <1>2, Limits DEF CooldownEnds, ReadState, Reset, breakerVars
  <2>3. /\ breaker' \in {"closed", "open", "halfOpen"} /\ cooled' \in BOOLEAN
        /\ ticket' \in [Task -> {"none", "call", "trial"}]
    BY <1>2 DEF CooldownEnds, ReadState, Reset, breakerVars, Evaluated
  <2>4. observations' \in {observations, <<>>}
    BY DEF CooldownEnds, ReadState, Reset, breakerVars
  <2>5. observations' \in Seq(BOOLEAN)  BY <1>2, <2>4, EmptySeq, Zenon
  <2> QED  BY <2>1, <2>2, <2>3, <2>5 DEF BreakerTypeOK
<1> QED  BY <1>4, <1>5 DEF BreakerOK, NoTrialPlaceIsLost

----------------------------------------------------------------------------
(* What a step leaves behind *)

LEMMA AttemptsKeep ==
  ASSUME TypeOK, AttemptsAreLeft, NEW t \in Task, Ask(t) \/ Proceed(t)
  PROVE  /\ attempts' \in [Task -> 0 .. MaxAttempts] /\ hops' \in [Task -> 0 .. MaxFallbackHops]
         /\ AttemptsAreLeft'
<1> DEFINE Good == /\ attempts' \in [Task -> 0 .. MaxAttempts]
                   /\ hops' \in [Task -> 0 .. MaxFallbackHops]
                   /\ AttemptsAreLeft'
<1>0. /\ pc \in [Task -> PCs] /\ attempts \in [Task -> 0 .. MaxAttempts]
      /\ hops \in [Task -> 0 .. MaxFallbackHops]
      /\ MaxAttempts \in Nat /\ MaxAttempts > 0 /\ MaxFallbackHops \in Nat
      /\ \A u \in Task : pc[u] \notin {"opening", "calling"} => attempts[u] = 0
      /\ \A u \in Task : pc[u] = "opening" => attempts[u] < MaxAttempts
  BY GenerationAssumption DEF TypeOK, AttemptsAreLeft
<1>1. ASSUME NEW there, pc' = [pc EXCEPT ![t] = there], UNCHANGED <<attempts, hops>>,
             attempts[t] = 0
      PROVE  Good
  BY <1>0, <1>1 DEF AttemptsAreLeft
<1>2. ASSUME NEW next, Leave(t, next)
      PROVE  Good
  BY <1>0, <1>2 DEF Leave, AttemptsAreLeft
<1>3. ASSUME NEW tries \in 0 .. MaxAttempts - 1, Hop(t, tries)
      PROVE  Good
  <2>1. CASE Leave(t, "completing")  BY <2>1, <1>2
  <2>2. CASE /\ hops[t] + 1 <= MaxFallbackHops /\ hops' = [hops EXCEPT ![t] = @ + 1]
             /\ pc' = [pc EXCEPT ![t] = "opening"] /\ attempts' = [attempts EXCEPT ![t] = tries]
    BY <1>0, <2>2 DEF AttemptsAreLeft
  <2> QED  BY <1>3, <2>1, <2>2 DEF Hop
<1>4. CASE pc[t] \notin {"opening", "calling"}
  <2>1. /\ UNCHANGED <<attempts, hops>>
        /\ \E there : pc' = [pc EXCEPT ![t] = there]
    BY <1>4 DEF Proceed, Ask, Look, Join, TakeSlot, GiveUp, Count, Enlist, GetSession, BeginRequest,
         SetupFails, NoProvider, AskBreaker, Opened, OpenFails, StreamEnds, StreamClosed, Complete,
         Uncount, GiveBack, Tell, OwnStep, Returned, At, taskVars
  <2> QED  BY <1>0, <1>1, <1>4, <2>1
<1>5. CASE pc[t] = "opening"
  <2>1. SetupFails(t) \/ NoProvider(t) \/ AskBreaker(t)
    BY <1>5 DEF Proceed, Ask, Look, Join, TakeSlot, GiveUp, Count, Enlist, GetSession, BeginRequest,
         Opened, OpenFails, StreamEnds, StreamClosed, Complete,
         Uncount, GiveBack, Tell, OwnStep, Returned, At
  <2>2. attempts[t] \in 0 .. MaxAttempts - 1  BY <1>0, <1>5
  <2>3. CASE SetupFails(t)  BY <1>2, <2>3 DEF SetupFails
  <2>4. CASE NoProvider(t)  BY <1>3, <2>2, <2>4 DEF NoProvider
  <2>5. CASE AskBreaker(t)
    <3>1. CASE Hop(t, attempts[t])  BY <1>3, <2>2, <3>1
    <3>2. CASE /\ pc' = [pc EXCEPT ![t] = "calling"] /\ attempts' = [attempts EXCEPT ![t] = @ + 1]
               /\ UNCHANGED hops
      BY <1>0, <2>2, <3>2 DEF AttemptsAreLeft
    <3> QED  BY <2>5, <3>1, <3>2 DEF AskBreaker
  <2> QED  BY <2>1, <2>3, <2>4, <2>5
<1>6. CASE pc[t] = "calling"
  <2>1. Opened(t) \/ OpenFails(t)
    BY <1>6 DEF Proceed, Ask, Look, Join, TakeSlot, GiveUp, Count, Enlist, GetSession, BeginRequest,
         SetupFails, NoProvider, AskBreaker, StreamEnds, StreamClosed, Complete,
         Uncount, GiveBack, Tell, OwnStep, Returned, At
  <2>2. CASE Opened(t)  BY <1>2, <2>2 DEF Opened
  <2>3. CASE OpenFails(t)
    <3>1. CASE Hop(t, 0)  BY <1>0, <1>3, <3>1
    <3>2. CASE Leave(t, "completing")  BY <1>2, <3>2
    <3>3. CASE /\ attempts[t] < MaxAttempts /\ pc' = [pc EXCEPT ![t] = "opening"]
               /\ UNCHANGED <<attempts, hops>>
      BY <1>0, <3>3 DEF AttemptsAreLeft
    <3> QED  BY <2>3, <3>1, <3>2, <3>3 DEF OpenFails
  <2> QED  BY <2>1, <2>2, <2>3
<1> QED  BY <1>4, <1>5, <1>6

LEMMA BreakerKeeps ==
  ASSUME BreakerOK, NEW t \in Task, Ask(t) \/ Proceed(t)
  PROVE  BreakerOK'
<1>1. CASE AskBreaker(t)  BY <1>1, AllowKeeps DEF AskBreaker
<1>2. CASE Opened(t)  BY <1>2, ReportKeeps DEF Opened, Outcome
<1>3. CASE OpenFails(t)  BY <1>3, ReportKeeps DEF OpenFails, Outcome
<1>4. CASE ~AskBreaker(t) /\ ~Opened(t) /\ ~OpenFails(t)
  <2>1. UNCHANGED breakerVars
    BY <1>4 DEF Proceed, Ask, Look, Join, TakeSlot, GiveUp, Count, Enlist, GetSession, BeginRequest,
         SetupFails, NoProvider, StreamEnds, StreamClosed, Complete,
         Uncount, GiveBack, Tell, OwnStep, Returned
  <2> QED  BY <2>1, BreakerStepKeeps
<1> QED  BY <1>1, <1>2, <1>3, <1>4

\* The rest of the types.
LEMMA RestKeeps ==
  ASSUME TypeOK, NEW t \in Task, Ask(t) \/ Proceed(t)
  PROVE  /\ free' \in 0 .. MaxConcurrent /\ late' \subseteq Task
         /\ requests' \in [Session -> Int]
         /\ UNCHANGED <<stage, clean, state, known, expiring>>
<1>0. /\ free \in 0 .. MaxConcurrent /\ MaxConcurrent \in Nat /\ late \subseteq Task
      /\ requests \in [Session -> Nat]
  BY GenerationAssumption DEF TypeOK
<1>1. free' \in 0 .. MaxConcurrent
  BY <1>0 DEF Proceed, Ask, Look, Join, TakeSlot, GiveUp, Count, Enlist, GetSession, BeginRequest,
       SetupFails, NoProvider, AskBreaker, Opened, OpenFails, StreamEnds, StreamClosed, Complete,
         Uncount, GiveBack, Tell, OwnStep, Returned, slotVars
<1>2. late' \subseteq Task
  BY <1>0 DEF Proceed, Ask, Look, Join, TakeSlot, GiveUp, Count, Enlist, GetSession, BeginRequest,
       SetupFails, NoProvider, AskBreaker, Opened, OpenFails, StreamEnds, StreamClosed, Complete,
         Uncount, GiveBack, Tell, OwnStep, Returned, taskVars
<1>3. requests' \in [Session -> Int]
  BY <1>0 DEF Proceed, Ask, Look, Join, TakeSlot, GiveUp, Count, Enlist, GetSession, BeginRequest,
       SetupFails, NoProvider, AskBreaker, Opened, OpenFails, StreamEnds, StreamClosed, Complete,
         Uncount, GiveBack, Tell, OwnStep, Returned, sessionVars
<1>4. UNCHANGED <<stage, clean, state, known, expiring>>
  BY DEF Proceed, Ask, Look, Join, TakeSlot, GiveUp, Count, Enlist, GetSession, BeginRequest,
       SetupFails, NoProvider, AskBreaker, Opened, OpenFails, StreamEnds, StreamClosed, Complete,
         Uncount, GiveBack, Tell, OwnStep, Returned, sessionVars
<1> QED  BY <1>1, <1>2, <1>3, <1>4

----------------------------------------------------------------------------
(* The invariant *)

LEMMA GenerationKeeps ==
  ASSUME GenerationIInv, NEW t \in Task, Ask(t) \/ Proceed(t)
  PROVE  GenerationIInv'
<1>1. TypeOK /\ CountersAgree /\ AttemptsAreLeft /\ BreakerOK
  BY DEF GenerationIInv, TypeOK, BreakerOK
<1>2. PICK there \in PCs : Moved(t, there) /\ free' \in Nat  BY <1>1, StepsMove
<1>3. CountersAgree' /\ NoSlotIsLost' /\ OnlyLatecomers'  BY <1>2, MovedKeeps
<1>4. /\ attempts' \in [Task -> 0 .. MaxAttempts] /\ hops' \in [Task -> 0 .. MaxFallbackHops]
      /\ AttemptsAreLeft'
  BY <1>1, AttemptsKeep
<1>5. BreakerOK'  BY <1>1, BreakerKeeps
<1>6. /\ free' \in 0 .. MaxConcurrent /\ late' \subseteq Task /\ requests' \in [Session -> Int]
      /\ UNCHANGED <<stage, clean, state, known, expiring>>
  BY <1>1, RestKeeps
<1>7. pc' \in [Task -> PCs]  BY <1>1, <1>2 DEF TypeOK, Moved
<1>8. wg' \in Nat /\ inFlight' \in Nat /\ requests' \in [Session -> Nat]
  <2>1. wg' \in Nat /\ inFlight' \in Nat
    <3> DEFINE A == Those(Counted)'
               B == Those(Loaded)'
    <3>1. A \in SUBSET Task /\ B \in SUBSET Task  BY DEF Those
    <3>2. wg' = Cardinality(A) /\ inFlight' = Cardinality(B)  BY <1>3 DEF CountersAgree
    <3> HIDE DEF A, B
    <3> QED  BY <3>1, <3>2, SomeTasks
  <2>2. ASSUME NEW s \in Session
        PROVE  requests'[s] \in Nat
    <3> DEFINE C == {u \in Those(Begun)' : SessionOf[u] = s}
    <3>1. C \in SUBSET Task  BY DEF Those
    <3>2. requests'[s] = Cardinality(C)  BY <1>3 DEF CountersAgree
    <3> HIDE DEF C
    <3> QED  BY <3>1, <3>2, SomeTasks
  <2> QED  BY <1>6, <2>1, <2>2
<1>9. TypeOK'
  BY <1>1, <1>4, <1>5, <1>6, <1>7, <1>8 DEF TypeOK, BreakerOK
<1> QED  BY <1>3, <1>4, <1>5, <1>9 DEF GenerationIInv, BreakerOK

\* A step that moves no generation and touches no counter keeps what is counted.
LEMMA StillKeeps ==
  ASSUME GenerationIInv,
         UNCHANGED <<ticket, slotVars, pc, taskVars, requests>>,
         UNCHANGED clean \/ (clean' /\ stage' # "running" /\ Those(Counted) = {}),
         Closed => Closed'
  PROVE  CountersAgree' /\ AttemptsAreLeft' /\ NoSlotIsLost' /\ OnlyLatecomers'
<1>1. Those(Counted)' = Those(Counted) /\ Those(Begun)' = Those(Begun)
      /\ Those(Loaded)' = Those(Loaded)
      /\ Those(Slotted)' = Those(Slotted)
  BY DEF Those
<1>2. CountersAgree'
  BY <1>1 DEF GenerationIInv, CountersAgree, slotVars
<1>3. AttemptsAreLeft'  BY DEF GenerationIInv, AttemptsAreLeft, taskVars
<1>4. NoSlotIsLost'  BY <1>1 DEF GenerationIInv, NoSlotIsLost, slotVars
<1>5. OnlyLatecomers'
  BY <1>1 DEF GenerationIInv, OnlyLatecomers, taskVars, Closed
<1> QED  BY <1>2, <1>3, <1>4, <1>5

LEMMA SessionStepKeeps ==
  ASSUME GenerationIInv, NEW s \in Session, SessionStep(s)
  PROVE  GenerationIInv'
<1>1. UNCHANGED <<breakerVars, slotVars, pc, taskVars, stage, clean, requests>>
  BY DEF SessionStep, Create, Activate, Fail, Remove, Sweep, Expire, DrainSession, CloseSession
<1>2. CountersAgree' /\ AttemptsAreLeft' /\ NoSlotIsLost' /\ OnlyLatecomers'
  BY <1>1, StillKeeps DEF breakerVars, Closed
<1>3. BreakerOK'
  BY <1>1, BreakerStepKeeps DEF GenerationIInv, TypeOK, BreakerOK
<1>4. /\ known' \subseteq Session /\ expiring' \subseteq Session
      /\ state' \in [Session -> {"none", "initialising", "active", "draining",
                                 "closed", "expired", "failed"}]
  BY DEF SessionStep, Create, Activate, Fail, Remove, Sweep, Expire, DrainSession, CloseSession,
         Goto, MayGo, GenerationIInv, TypeOK
<1>5. TypeOK'
  BY <1>1, <1>3, <1>4 DEF GenerationIInv, TypeOK, BreakerOK, slotVars, taskVars
<1> QED  BY <1>2, <1>3, <1>5 DEF GenerationIInv, BreakerOK

LEMMA StopKeeps ==
  ASSUME GenerationIInv, Stop \/ Drained \/ DrainTimesOut \/ CloseProviders
  PROVE  GenerationIInv'
<1>1. UNCHANGED <<breakerVars, slotVars, pc, taskVars, sessionVars>>
  BY DEF Stop, Drained, DrainTimesOut, CloseProviders
<1>2. /\ stage \in {"running", "waiting", "closing", "stopped"} /\ clean \in BOOLEAN
      /\ wg = Cardinality(Those(Counted)) /\ Those(Counted) \in SUBSET Task
  BY DEF GenerationIInv, TypeOK, CountersAgree, Those
<1>3. wg = 0 => Those(Counted) = {}
  BY <1>2, SomeTasks, FS_EmptySet
<1>4. /\ stage' \in {"waiting", "closing", "stopped"}
      /\ UNCHANGED clean \/ (clean' /\ wg = 0)
  BY DEF Stop, Drained, DrainTimesOut, CloseProviders
<1>5. CountersAgree' /\ AttemptsAreLeft' /\ NoSlotIsLost' /\ OnlyLatecomers'
  BY <1>1, <1>3, <1>4, StillKeeps DEF breakerVars, sessionVars, Closed
<1>6. BreakerOK'
  BY <1>1, BreakerStepKeeps DEF GenerationIInv, TypeOK, BreakerOK
<1>7. TypeOK'
  BY <1>1, <1>2, <1>4, <1>6
     DEF GenerationIInv, TypeOK, BreakerOK, slotVars, taskVars, sessionVars
<1> QED  BY <1>5, <1>6, <1>7 DEF GenerationIInv, BreakerOK

LEMMA BreakerAloneKeeps ==
  ASSUME GenerationIInv, BreakerStep
  PROVE  GenerationIInv'
<1>1. /\ UNCHANGED <<ticket, slotVars, pc, taskVars, stage, clean, sessionVars>>
      /\ CooldownEnds \/ ReadState \/ Reset
  BY DEF BreakerStep, CooldownEnds, ReadState, Reset
<1>2. CountersAgree' /\ AttemptsAreLeft' /\ NoSlotIsLost' /\ OnlyLatecomers'
  BY <1>1, StillKeeps DEF sessionVars, Closed
<1>3. BreakerOK'
  BY <1>1, BreakerStepKeeps DEF GenerationIInv, TypeOK, BreakerOK
<1>4. TypeOK'
  BY <1>1, <1>3 DEF GenerationIInv, TypeOK, BreakerOK, slotVars, taskVars, sessionVars
<1> QED  BY <1>2, <1>3, <1>4 DEF GenerationIInv, BreakerOK

LEMMA InitIInv == Init => GenerationIInv
<1> SUFFICES ASSUME Init  PROVE GenerationIInv
  OBVIOUS
<1>1. \A t \in Task : pc[t] = "idle" /\ ticket[t] = "none" /\ attempts[t] = 0
  BY DEF Init, BreakerInit
<1>2. Those(Counted) = {} /\ Those(Loaded) = {} /\ Those(Begun) = {}
  BY <1>1 DEF Those, Held, Counted, Loaded, Begun
<1>3. Trying = {}  BY <1>1 DEF Trying
<1>4. Cardinality({}) = 0  BY FS_EmptySet
<1>5. BreakerOK
  <2>1. <<>> \in Seq(BOOLEAN)  BY EmptySeq, Zenon
  <2>2. halfOpenCalls = 0 /\ halfOpenOK = 0  BY DEF Init, BreakerInit
  <2>3. halfOpenCalls \in 0 .. HalfOpenProbes /\ halfOpenOK \in 0 .. SuccessesToClose - 1
    BY <2>2, Limits
  <2>4. BreakerTypeOK  BY <2>1, <2>3 DEF Init, BreakerInit, BreakerTypeOK
  <2>5. NoTrialPlaceIsLost  BY <1>3, <1>4, <2>2 DEF NoTrialPlaceIsLost
  <2> QED  BY <2>4, <2>5 DEF BreakerOK
<1>6. CountersAgree
  <2>1. \A s \in Session : {u \in Those(Begun) : SessionOf[u] = s} = {}  BY <1>2
  <2> QED  BY <1>1, <1>2, <1>4, <2>1 DEF CountersAgree, Init
<1>7. AttemptsAreLeft /\ OnlyLatecomers
  BY <1>1 DEF AttemptsAreLeft, OnlyLatecomers, Init
<1>8. NoSlotIsLost
  <2>1. Cardinality(Those(Slotted)) \in Nat
    <3>1. Those(Slotted) \in SUBSET Task  BY DEF Those
    <3> QED  BY <3>1, SomeTasks
  <2> QED  BY <2>1, GenerationAssumption DEF NoSlotIsLost, Init
<1>9. TypeOK
  <2>1. MaxConcurrent \in Nat /\ MaxAttempts \in Nat /\ MaxFallbackHops \in Nat
    BY GenerationAssumption
  <2>2. /\ free \in 0 .. MaxConcurrent /\ inFlight \in Nat /\ wg \in Nat
        /\ attempts \in [Task -> 0 .. MaxAttempts] /\ hops \in [Task -> 0 .. MaxFallbackHops]
        /\ requests \in [Session -> Nat]
    BY <2>1 DEF Init
  <2>3. /\ pc \in [Task -> PCs] /\ late \subseteq Task /\ stage = "running" /\ clean = FALSE
        /\ known \subseteq Session /\ expiring \subseteq Session
        /\ state \in [Session -> {"none"}]
    BY DEF Init, PCs
  <2> QED  BY <1>5, <2>2, <2>3 DEF TypeOK, BreakerOK
<1> QED  BY <1>5, <1>6, <1>7, <1>8, <1>9 DEF GenerationIInv, BreakerOK

LEMMA NextKeeps == GenerationIInv /\ [Next]_vars => GenerationIInv'
<1> SUFFICES ASSUME GenerationIInv, [Next]_vars
             PROVE  GenerationIInv'
  OBVIOUS
<1>1. ASSUME NEW t \in Task, Ask(t) \/ Proceed(t)  PROVE GenerationIInv'
  BY <1>1, GenerationKeeps
<1>2. ASSUME NEW s \in Session, SessionStep(s)  PROVE GenerationIInv'
  BY <1>2, SessionStepKeeps
<1>3. CASE BreakerStep  BY <1>3, BreakerAloneKeeps
<1>4. CASE Stop \/ Drained \/ DrainTimesOut \/ CloseProviders  BY <1>4, StopKeeps
<1>5. CASE UNCHANGED vars
  <2>1. /\ UNCHANGED <<ticket, slotVars, pc, taskVars, requests, clean, stage>>
        /\ UNCHANGED breakerVars
    BY <1>5 DEF vars, breakerVars, sessionVars
  <2>2. CountersAgree' /\ AttemptsAreLeft' /\ NoSlotIsLost' /\ OnlyLatecomers'
    BY <2>1, StillKeeps DEF Closed
  <2>3. BreakerOK'
    BY <2>1, BreakerStepKeeps DEF GenerationIInv, TypeOK, BreakerOK
  <2>4. TypeOK'
    BY <1>5, <2>3 DEF vars, GenerationIInv, TypeOK, BreakerOK, slotVars, taskVars, sessionVars
  <2> QED  BY <2>2, <2>3, <2>4 DEF GenerationIInv, BreakerOK
<1> QED  BY <1>1, <1>2, <1>3, <1>4, <1>5 DEF Next

----------------------------------------------------------------------------
(* The theorems *)

THEOREM GenerationInductive == Spec => []GenerationIInv
BY InitIInv, NextKeeps, PTL DEF Spec

\* The counters of the scheduler and of every session are the numbers of
\* generations between their two ends, through retries, failover, shedding and
\* the drain (Generate's fail, failWithSession and OnComplete).
THEOREM GenerationSafe == Spec => []GenerationInv
<1>1. GenerationIInv => GenerationInv  BY DEF GenerationIInv, GenerationInv
<1> QED  BY <1>1, GenerationInductive, PTL

\* No overshoot, in any order of returns, loses a slot (releaseFunc).
THEOREM SlotsStay == Spec => []NoSlotIsLost
<1>1. GenerationIInv => NoSlotIsLost  BY DEF GenerationIInv
<1> QED  BY <1>1, GenerationInductive, PTL

\* No order of reports, failures and cooldowns loses a place of a half-open
\* breaker (Allow, reportHalfOpen, evaluateLocked).
THEOREM TrialPlacesStay == Spec => []NoTrialPlaceIsLost
<1>1. GenerationIInv => NoTrialPlaceIsLost  BY DEF GenerationIInv
<1> QED  BY <1>1, GenerationInductive, PTL

\* A drain that ended by itself misses nobody who was counted before Close
\* (Kernel.Stop, Scheduler.Wait).
THEOREM DrainMissesOnlyLatecomers == Spec => []CleanDrainMissesOnlyLatecomers
<1>1. Begun \subseteq Counted  BY DEF Begun, Held, Counted
<1>2. GenerationIInv => CleanDrainMissesOnlyLatecomers
  BY <1>1 DEF GenerationIInv, OnlyLatecomers, CleanDrainMissesOnlyLatecomers, Those
<1> QED  BY <1>2, GenerationInductive, PTL

============================================================================
