----------------------------- MODULE OtpProofs -----------------------------
(***************************************************************************)
(* For any number of validations and challenges and any rate policy: a     *)
(* code makes one session, a consumed challenge stays consumed, a recorded *)
(* wrong code counts for its whole window, a standing lockout was          *)
(* reported, and a refusal names the first instant without restriction.    *)
(***************************************************************************)
EXTENDS OtpSignIn, FiniteSetTheorems, WellFoundedInduction, TLAPS

LEMMA OtpInit == Init => OtpInv
<1>1. Init => WindowsHold  BY PolicyAssumption, FS_EmptySet DEF Init, WindowsHold
<1> QED
  BY <1>1, PolicyAssumption
  DEF Init, OtpInv, TypeOK, ReadingsArePast, WinnersAreUnique, ReservationsStand,
      LocksAreSettled, AnswersComeLast, Reserved, Winner, Stands, Settled, Stages, Steps, Answers

\* Pruning with a clock read earlier drops only what left its window.
LEMMA WithinDrops ==
  ASSUME OtpInv, NEW c \in Call
  PROVE  /\ Within(failures, reservedAt, reservedAt[c]) \subseteq failures
         /\ \A d \in failures \ Within(failures, reservedAt, reservedAt[c]) :
              clock >= reservedAt[d] + Window
  BY PolicyAssumption DEF Within, OtpInv, TypeOK, ReadingsArePast

-----------------------------------------------------------------------------
LEMMA TypeStep == OtpInv /\ [Next]_vars => TypeOK'
<1> SUFFICES ASSUME OtpInv, [Next]_vars PROVE TypeOK'
  OBVIOUS
<1>0. TypeOK  BY DEF OtpInv
<1>1. ASSUME NEW r \in Challenge, RequestStep(r) PROVE TypeOK'
  <2> USE <1>0 DEF TypeOK, Stages, To, challenge, limiter, call, log, request
  <2>1. CASE RequestOtp(r)  BY <2>1 DEF RequestOtp
  <2>2. CASE ReserveOtpRequest(r)  BY <2>2 DEF ReserveOtpRequest, Within
  <2>3. CASE SaveOtp(r)
    <3>1. PICK t \in requestedAt[r] .. clock :
                 expiresAt' = [expiresAt EXCEPT ![r] = t + OtpLifetime]
      BY <2>3 DEF SaveOtp
    <3>2. t + OtpLifetime \in Nat  BY PolicyAssumption
    <3> QED  BY <2>3, <3>1, <3>2 DEF SaveOtp
  <2>4. CASE SendOtp(r)  BY <2>4 DEF SendOtp
  <2>5. CASE SendFails(r)  BY <2>5 DEF SendFails
  <2>6. CASE Withdraw(r)  BY <2>6 DEF Withdraw
  <2>7. CASE RequestFails(r)  BY <2>7 DEF RequestFails
  <2>8. CASE Remove(r)  BY <2>8 DEF Remove
  <2> QED  BY <1>1, <2>1, <2>2, <2>3, <2>4, <2>5, <2>6, <2>7, <2>8 DEF RequestStep
<1>2. ASSUME NEW c \in Call, ValidateStep(c) PROVE TypeOK'
  <2> USE <1>0, PolicyAssumption
      DEF TypeOK, Steps, Answers, Goto, Answer, Return, challenge, limiter, call, log, request
  <2>1. CASE Begin(c)  BY <2>1 DEF Begin
  <2>2. CASE GetOtp(c) \/ GetOtpMissing(c)  BY <2>2 DEF GetOtp, GetOtpMissing
  <2>3. CASE CheckRefused(c)  BY <2>3 DEF CheckRefused
  <2>4. CASE Check(c)  BY <2>4 DEF Check
  <2>5. CASE Drop(c)  BY <2>5 DEF Drop
  <2>6. CASE ReserveOtpVerification(c) \/ ReserveFails(c)
    BY <2>6 DEF ReserveOtpVerification, ReserveFails, Reserve, Within
  <2>7. CASE ReserveRefused(c)  BY <2>7 DEF ReserveRefused, Within
  <2>8. CASE Compare(c)  BY <2>8 DEF Compare
  <2>9. CASE RecordFailedOtpAttempt(c)
    BY <2>9 DEF RecordFailedOtpAttempt, Record
  <2>10. CASE RecordGone(c)  BY <2>10 DEF RecordGone
  <2>11. CASE RecordFails(c)  BY <2>11 DEF RecordFails, Record
  <2>12. CASE ConfirmOtpFailure(c)  BY <2>12 DEF ConfirmOtpFailure, Confirm
  <2>13. CASE ConfirmFails(c)  BY <2>13 DEF ConfirmFails
  <2>14. CASE ReleaseOtpVerification(c) \/ ReleaseFails(c)
    BY <2>14 DEF ReleaseOtpVerification, ReleaseFails, Release
  <2>15. CASE ConsumeOtp(c)  BY <2>15 DEF ConsumeOtp
  <2>16. CASE ConsumeRefused(c)  BY <2>16 DEF ConsumeRefused
  <2>17. CASE ConsumeFails(c)  BY <2>17 DEF ConsumeFails
  <2>18. CASE ResetOtpFailures(c)  BY <2>18 DEF ResetOtpFailures, Reset
  <2>19. CASE ResetFails(c)  BY <2>19 DEF ResetFails, Reset
  <2>20. CASE SaveSession(c)  BY <2>20 DEF SaveSession
  <2>21. CASE SaveRefused(c)  BY <2>21 DEF SaveRefused
  <2>22. CASE SaveFails(c)  BY <2>22 DEF SaveFails
  <2>23. CASE Abandon(c)  BY <2>23 DEF Abandon
  <2> QED
    BY <1>2, <2>1, <2>2, <2>3, <2>4, <2>5, <2>6, <2>7, <2>8, <2>9, <2>10, <2>11, <2>12,
       <2>13, <2>14, <2>15, <2>16, <2>17, <2>18, <2>19, <2>20, <2>21, <2>22, <2>23
    DEF ValidateStep
<1>3. CASE Tick
  BY <1>0, <1>3, PolicyAssumption DEF Tick, TypeOK, challenge, limiter, call, log, request
<1>4. CASE UNCHANGED vars
  BY <1>0, <1>4 DEF vars, TypeOK, challenge, limiter, call, log, request
<1> QED  BY <1>1, <1>2, <1>3, <1>4 DEF Next

LEMMA ReadingsStep == OtpInv /\ [Next]_vars => ReadingsArePast'
<1> SUFFICES ASSUME OtpInv, [Next]_vars PROVE ReadingsArePast'
  OBVIOUS
<1>0. TypeOK /\ ReadingsArePast  BY PolicyAssumption DEF OtpInv
<1> USE <1>0 DEF TypeOK, ReadingsArePast, To, request, challenge, limiter, call, log
<1>1. ASSUME NEW r \in Challenge, RequestStep(r) PROVE ReadingsArePast'
  <2>1. CASE RequestOtp(r)
    BY <2>1 DEF RequestOtp
  <2>2. CASE ReserveOtpRequest(r) \/ SaveOtp(r) \/ SendOtp(r) \/ SendFails(r) \/
       Withdraw(r) \/ RequestFails(r) \/ Remove(r)
    BY <2>2 DEF ReserveOtpRequest, SaveOtp, SendOtp, SendFails, Withdraw, RequestFails,
       Remove
  <2> QED
    BY <1>1, <2>1, <2>2 DEF RequestStep
<1>2. ASSUME NEW c \in Call, ValidateStep(c) PROVE ReadingsArePast'
  <2> USE DEF Goto, Answer, Return
  <2>1. CASE Check(c)
    BY <2>1 DEF Check
  <2>2. CASE Begin(c) \/ GetOtp(c) \/ GetOtpMissing(c) \/ CheckRefused(c) \/ Drop(c) \/
       ReserveOtpVerification(c) \/ ReserveRefused(c) \/ ReserveFails(c) \/ Compare(c)
       \/ RecordFailedOtpAttempt(c) \/ RecordGone(c) \/ RecordFails(c) \/
       ConfirmOtpFailure(c) \/ ConfirmFails(c) \/ ReleaseOtpVerification(c) \/
       ReleaseFails(c) \/ ConsumeOtp(c) \/ ConsumeRefused(c) \/ ConsumeFails(c) \/
       ResetOtpFailures(c) \/ ResetFails(c) \/ SaveSession(c) \/ SaveRefused(c) \/
       SaveFails(c) \/ Abandon(c)
    BY <2>2 DEF Begin, GetOtp, GetOtpMissing, CheckRefused, Drop,
       ReserveOtpVerification, Reserve, ReserveRefused, ReserveFails, Compare,
       RecordFailedOtpAttempt, Record, RecordGone, RecordFails, ConfirmOtpFailure,
       Confirm, ConfirmFails, ReleaseOtpVerification, Release, ReleaseFails, ConsumeOtp,
       Consumable, ConsumeRefused, ConsumeFails, ResetOtpFailures, Reset, ResetFails,
       SaveSession, SaveRefused, SaveFails, Abandon
  <2> QED
    BY <1>2, <2>1, <2>2 DEF ValidateStep
<1>3. CASE Tick  BY <1>3 DEF Tick
<1>4. CASE UNCHANGED vars  BY <1>4 DEF vars
<1> QED  BY <1>1, <1>2, <1>3, <1>4 DEF Next

LEMMA WinnersStep == OtpInv /\ [Next]_vars => WinnersAreUnique'
<1> SUFFICES ASSUME OtpInv, [Next]_vars PROVE WinnersAreUnique'
  OBVIOUS
<1>0. TypeOK /\ WinnersAreUnique  BY PolicyAssumption DEF OtpInv
<1> USE <1>0 DEF TypeOK, WinnersAreUnique, Winner, To, request, challenge, limiter,
     call, log
<1>1. ASSUME NEW r \in Challenge, RequestStep(r) PROVE WinnersAreUnique'
  <2>1. CASE RequestOtp(r)
    BY <2>1 DEF RequestOtp
  <2>2. CASE ReserveOtpRequest(r)
    BY <2>2 DEF ReserveOtpRequest
  <2>3. CASE SaveOtp(r)
    BY <2>3 DEF SaveOtp
  <2>4. CASE SendOtp(r)
    BY <2>4 DEF SendOtp
  <2>5. CASE SendFails(r)
    BY <2>5 DEF SendFails
  <2>6. CASE Withdraw(r)
    BY <2>6 DEF Withdraw
  <2>7. CASE RequestFails(r)
    BY <2>7 DEF RequestFails
  <2>8. CASE Remove(r)
    BY <2>8 DEF Remove
  <2> QED
    BY <1>1, <2>1, <2>2, <2>3, <2>4, <2>5, <2>6, <2>7, <2>8 DEF RequestStep
<1>2. ASSUME NEW c \in Call, ValidateStep(c) PROVE WinnersAreUnique'
  <2> USE DEF Goto, Answer, Return
  <2>1. CASE Begin(c)
    BY <2>1 DEF Begin
  <2>2. CASE GetOtp(c)
    BY <2>2 DEF GetOtp
  <2>3. CASE GetOtpMissing(c)
    BY <2>3 DEF GetOtpMissing
  <2>4. CASE CheckRefused(c)
    BY <2>4 DEF CheckRefused
  <2>5. CASE Check(c)
    BY <2>5 DEF Check
  <2>6. CASE Drop(c)
    BY <2>6 DEF Drop
  <2>7. CASE ReserveOtpVerification(c)
    BY <2>7 DEF ReserveOtpVerification, Reserve
  <2>8. CASE ReserveRefused(c)
    BY <2>8 DEF ReserveRefused
  <2>9. CASE ReserveFails(c)
    BY <2>9 DEF ReserveFails, Reserve
  <2>10. CASE Compare(c)
    BY <2>10 DEF Compare
  <2>11. CASE RecordFailedOtpAttempt(c)
    BY <2>11 DEF RecordFailedOtpAttempt, Record
  <2>12. CASE RecordGone(c)
    BY <2>12 DEF RecordGone
  <2>13. CASE RecordFails(c)
    BY <2>13 DEF RecordFails, Record
  <2>14. CASE ConfirmOtpFailure(c)
    BY <2>14 DEF ConfirmOtpFailure, Confirm
  <2>15. CASE ConfirmFails(c)
    BY <2>15 DEF ConfirmFails
  <2>16. CASE ReleaseOtpVerification(c)
    BY <2>16 DEF ReleaseOtpVerification, Release
  <2>17. CASE ReleaseFails(c)
    BY <2>17 DEF ReleaseFails, Release
  <2>18. CASE ConsumeOtp(c)
    BY <2>18 DEF ConsumeOtp, Consumable
  <2>19. CASE ConsumeRefused(c)
    BY <2>19 DEF ConsumeRefused
  <2>20. CASE ConsumeFails(c)
    BY <2>20 DEF ConsumeFails
  <2>21. CASE ResetOtpFailures(c)
    BY <2>21 DEF ResetOtpFailures, Reset
  <2>22. CASE ResetFails(c)
    BY <2>22 DEF ResetFails, Reset
  <2>23. CASE SaveSession(c)
    BY <2>23 DEF SaveSession
  <2>24. CASE SaveRefused(c)
    BY <2>24 DEF SaveRefused
  <2>25. CASE SaveFails(c)
    BY <2>25 DEF SaveFails
  <2>26. CASE Abandon(c)
    BY <2>26 DEF Abandon
  <2> QED
    BY <1>2, <2>1, <2>2, <2>3, <2>4, <2>5, <2>6, <2>7, <2>8, <2>9, <2>10, <2>11, <2>12,
       <2>13, <2>14, <2>15, <2>16, <2>17, <2>18, <2>19, <2>20, <2>21, <2>22, <2>23,
       <2>24, <2>25, <2>26 DEF ValidateStep
<1>3. CASE Tick  BY <1>3 DEF Tick
<1>4. CASE UNCHANGED vars  BY <1>4 DEF vars
<1> QED  BY <1>1, <1>2, <1>3, <1>4 DEF Next

LEMMA AnswersStep == OtpInv /\ [Next]_vars => AnswersComeLast'
<1> SUFFICES ASSUME OtpInv, [Next]_vars PROVE AnswersComeLast'
  OBVIOUS
<1>0. TypeOK /\ AnswersComeLast  BY PolicyAssumption DEF OtpInv
<1> USE <1>0 DEF TypeOK, AnswersComeLast, To, request, challenge, limiter, call, log
<1>1. ASSUME NEW r \in Challenge, RequestStep(r) PROVE AnswersComeLast'
  <2>1. CASE RequestOtp(r) \/ ReserveOtpRequest(r) \/ SaveOtp(r) \/ SendOtp(r) \/
       SendFails(r) \/ Withdraw(r) \/ RequestFails(r) \/ Remove(r)
    BY <2>1 DEF RequestOtp, ReserveOtpRequest, SaveOtp, SendOtp, SendFails, Withdraw,
       RequestFails, Remove
  <2> QED
    BY <1>1, <2>1 DEF RequestStep
<1>2. ASSUME NEW c \in Call, ValidateStep(c) PROVE AnswersComeLast'
  <2> USE DEF Goto, Answer, Return
  <2>1. CASE Begin(c) \/ GetOtp(c) \/ GetOtpMissing(c) \/ CheckRefused(c) \/ Check(c) \/
       Drop(c)
    BY <2>1 DEF Begin, GetOtp, GetOtpMissing, CheckRefused, Check, Drop
  <2>2. CASE ReserveOtpVerification(c) \/ ReserveRefused(c) \/ ReserveFails(c) \/ Compare(c)
    BY <2>2 DEF ReserveOtpVerification, Reserve, ReserveRefused, ReserveFails, Compare
  <2>3. CASE RecordFailedOtpAttempt(c) \/ RecordGone(c) \/ RecordFails(c) \/
       ConfirmOtpFailure(c) \/ ConfirmFails(c)
    BY <2>3 DEF RecordFailedOtpAttempt, Record, RecordGone, RecordFails,
       ConfirmOtpFailure, Confirm, ConfirmFails
  <2>4. CASE ReleaseOtpVerification(c) \/ ReleaseFails(c) \/ ConsumeOtp(c) \/
       ConsumeRefused(c) \/ ConsumeFails(c)
    BY <2>4 DEF ReleaseOtpVerification, Release, ReleaseFails, ConsumeOtp, Consumable,
       ConsumeRefused, ConsumeFails
  <2>5. CASE ResetOtpFailures(c) \/ ResetFails(c) \/ SaveSession(c) \/ SaveRefused(c) \/
       SaveFails(c) \/ Abandon(c)
    BY <2>5 DEF ResetOtpFailures, Reset, ResetFails, SaveSession, SaveRefused,
       SaveFails, Abandon
  <2> QED
    BY <1>2, <2>1, <2>2, <2>3, <2>4, <2>5 DEF ValidateStep
<1>3. CASE Tick  BY <1>3 DEF Tick
<1>4. CASE UNCHANGED vars  BY <1>4 DEF vars
<1> QED  BY <1>1, <1>2, <1>3, <1>4 DEF Next

LEMMA ReservationsStep == OtpInv /\ [Next]_vars => ReservationsStand'
<1> SUFFICES ASSUME OtpInv, [Next]_vars PROVE ReservationsStand'
  OBVIOUS
<1>0. TypeOK /\ ReadingsArePast /\ ReservationsStand /\ PolicyAssumption  BY
     PolicyAssumption DEF OtpInv
<1>5. \A c \in Call :
        /\ Within(failures, reservedAt, reservedAt[c]) \subseteq failures
        /\ \A d \in failures \ Within(failures, reservedAt, reservedAt[c]) :
             clock >= reservedAt[d] + Window
  BY WithinDrops
<1> USE <1>0 DEF TypeOK, ReadingsArePast, ReservationsStand, Reserved, Stands, To,
     request, challenge, limiter, call, log
<1>1. ASSUME NEW r \in Challenge, RequestStep(r) PROVE ReservationsStand'
  <2>1. CASE RequestOtp(r) \/ ReserveOtpRequest(r) \/ SaveOtp(r) \/ SendOtp(r) \/
       SendFails(r) \/ Withdraw(r) \/ RequestFails(r) \/ Remove(r)
    BY <2>1 DEF RequestOtp, ReserveOtpRequest, SaveOtp, SendOtp, SendFails, Withdraw,
       RequestFails, Remove
  <2> QED
    BY <1>1, <2>1 DEF RequestStep
<1>2. ASSUME NEW c \in Call, ValidateStep(c) PROVE ReservationsStand'
  <2> USE DEF Goto, Answer, Return
  <2>1. CASE Begin(c)
    BY <2>1 DEF Begin
  <2>2. CASE GetOtp(c)
    BY <2>2 DEF GetOtp
  <2>3. CASE GetOtpMissing(c)
    BY <2>3 DEF GetOtpMissing
  <2>4. CASE CheckRefused(c)
    BY <2>4 DEF CheckRefused
  <2>5. CASE Check(c)
    BY <2>5 DEF Check
  <2>6. CASE Drop(c)
    BY <2>6 DEF Drop
  <2>7. CASE ReserveOtpVerification(c)
    BY <2>7, <1>5 DEF ReserveOtpVerification, Reserve
  <2>8. CASE ReserveRefused(c)
    BY <2>8, <1>5 DEF ReserveRefused
  <2>9. CASE ReserveFails(c)
    BY <2>9, <1>5 DEF ReserveFails, Reserve
  <2>10. CASE Compare(c)
    BY <2>10 DEF Compare
  <2>11. CASE RecordFailedOtpAttempt(c)
    BY <2>11 DEF RecordFailedOtpAttempt, Record
  <2>12. CASE RecordGone(c)
    BY <2>12 DEF RecordGone
  <2>13. CASE RecordFails(c)
    BY <2>13 DEF RecordFails, Record
  <2>14. CASE ConfirmOtpFailure(c)
    BY <2>14 DEF ConfirmOtpFailure, Confirm
  <2>15. CASE ConfirmFails(c)
    BY <2>15 DEF ConfirmFails
  <2>16. CASE ReleaseOtpVerification(c)
    BY <2>16 DEF ReleaseOtpVerification, Release
  <2>17. CASE ReleaseFails(c)
    BY <2>17 DEF ReleaseFails, Release
  <2>18. CASE ConsumeOtp(c)
    BY <2>18 DEF ConsumeOtp, Consumable
  <2>19. CASE ConsumeRefused(c)
    BY <2>19 DEF ConsumeRefused
  <2>20. CASE ConsumeFails(c)
    BY <2>20 DEF ConsumeFails
  <2>21. CASE ResetOtpFailures(c)
    BY <2>21 DEF ResetOtpFailures, Reset
  <2>22. CASE ResetFails(c)
    BY <2>22 DEF ResetFails, Reset
  <2>23. CASE SaveSession(c)
    BY <2>23 DEF SaveSession
  <2>24. CASE SaveRefused(c)
    BY <2>24 DEF SaveRefused
  <2>25. CASE SaveFails(c)
    BY <2>25 DEF SaveFails
  <2>26. CASE Abandon(c)
    BY <2>26 DEF Abandon
  <2> QED
    BY <1>2, <2>1, <2>2, <2>3, <2>4, <2>5, <2>6, <2>7, <2>8, <2>9, <2>10, <2>11, <2>12,
       <2>13, <2>14, <2>15, <2>16, <2>17, <2>18, <2>19, <2>20, <2>21, <2>22, <2>23,
       <2>24, <2>25, <2>26 DEF ValidateStep
<1>3. CASE Tick  BY <1>3 DEF Tick
<1>4. CASE UNCHANGED vars  BY <1>4 DEF vars
<1> QED  BY <1>1, <1>2, <1>3, <1>4 DEF Next

LEMMA LocksStep == OtpInv /\ [Next]_vars => LocksAreSettled'
<1> SUFFICES ASSUME OtpInv, [Next]_vars PROVE LocksAreSettled'
  OBVIOUS
<1>0. TypeOK /\ ReadingsArePast /\ AnswersComeLast /\ ReservationsStand /\
     LocksAreSettled /\ PolicyAssumption  BY PolicyAssumption DEF OtpInv
<1>5. \A c \in Call :
        /\ Within(failures, reservedAt, reservedAt[c]) \subseteq failures
        /\ \A d \in failures \ Within(failures, reservedAt, reservedAt[c]) :
             clock >= reservedAt[d] + Window
  BY WithinDrops
<1> USE <1>0 DEF TypeOK, ReadingsArePast, AnswersComeLast, ReservationsStand,
     LocksAreSettled, Reserved, Settled, To, request, challenge, limiter, call, log
<1>1. ASSUME NEW r \in Challenge, RequestStep(r) PROVE LocksAreSettled'
  <2>1. CASE RequestOtp(r) \/ ReserveOtpRequest(r) \/ SaveOtp(r) \/ SendOtp(r) \/
       SendFails(r) \/ Withdraw(r) \/ RequestFails(r) \/ Remove(r)
    BY <2>1 DEF RequestOtp, ReserveOtpRequest, SaveOtp, SendOtp, SendFails, Withdraw,
       RequestFails, Remove
  <2> QED
    BY <1>1, <2>1 DEF RequestStep
<1>2. ASSUME NEW c \in Call, ValidateStep(c) PROVE LocksAreSettled'
  <2> USE DEF Goto, Answer, Return
  <2>1. CASE Begin(c)
    BY <2>1 DEF Begin
  <2>2. CASE GetOtp(c)
    BY <2>2 DEF GetOtp
  <2>3. CASE GetOtpMissing(c)
    BY <2>3 DEF GetOtpMissing
  <2>4. CASE CheckRefused(c)
    BY <2>4 DEF CheckRefused
  <2>5. CASE Check(c)
    BY <2>5 DEF Check
  <2>6. CASE Drop(c)
    BY <2>6 DEF Drop
  <2>7. CASE ReserveOtpVerification(c)
    BY <2>7, <1>5 DEF ReserveOtpVerification, Reserve
  <2>8. CASE ReserveRefused(c)
    BY <2>8, <1>5 DEF ReserveRefused
  <2>9. CASE ReserveFails(c)
    BY <2>9, <1>5 DEF ReserveFails, Reserve
  <2>10. CASE Compare(c)
    BY <2>10 DEF Compare
  <2>11. CASE RecordFailedOtpAttempt(c)
    BY <2>11 DEF RecordFailedOtpAttempt, Record
  <2>12. CASE RecordGone(c)
    BY <2>12 DEF RecordGone
  <2>13. CASE RecordFails(c)
    BY <2>13 DEF RecordFails, Record
  <2>14. CASE ConfirmOtpFailure(c)
    BY <2>14 DEF ConfirmOtpFailure, Confirm
  <2>15. CASE ConfirmFails(c)
    BY <2>15 DEF ConfirmFails
  <2>16. CASE ReleaseOtpVerification(c)
    BY <2>16 DEF ReleaseOtpVerification, Release
  <2>17. CASE ReleaseFails(c)
    BY <2>17 DEF ReleaseFails, Release
  <2>18. CASE ConsumeOtp(c)
    BY <2>18 DEF ConsumeOtp, Consumable
  <2>19. CASE ConsumeRefused(c)
    BY <2>19 DEF ConsumeRefused
  <2>20. CASE ConsumeFails(c)
    BY <2>20 DEF ConsumeFails
  <2>21. CASE ResetOtpFailures(c)
    BY <2>21 DEF ResetOtpFailures, Reset
  <2>22. CASE ResetFails(c)
    BY <2>22 DEF ResetFails, Reset
  <2>23. CASE SaveSession(c)
    BY <2>23 DEF SaveSession
  <2>24. CASE SaveRefused(c)
    BY <2>24 DEF SaveRefused
  <2>25. CASE SaveFails(c)
    BY <2>25 DEF SaveFails
  <2>26. CASE Abandon(c)
    BY <2>26 DEF Abandon
  <2> QED
    BY <1>2, <2>1, <2>2, <2>3, <2>4, <2>5, <2>6, <2>7, <2>8, <2>9, <2>10, <2>11, <2>12,
       <2>13, <2>14, <2>15, <2>16, <2>17, <2>18, <2>19, <2>20, <2>21, <2>22, <2>23,
       <2>24, <2>25, <2>26 DEF ValidateStep
<1>3. CASE Tick  BY <1>3 DEF Tick
<1>4. CASE UNCHANGED vars  BY <1>4 DEF vars
<1> QED  BY <1>1, <1>2, <1>3, <1>4 DEF Next

\* What a prune keeps is no larger, and a finite window keeps its room.
LEMMA KeptFits ==
  ASSUME NEW S, IsFiniteSet(S), NEW events \in SUBSET S, NEW kept \in SUBSET events
  PROVE  /\ IsFiniteSet(events) /\ IsFiniteSet(kept)
         /\ Cardinality(events) \in Nat /\ Cardinality(kept) \in Nat
         /\ Cardinality(kept) <= Cardinality(events)
BY FS_Subset, FS_CardinalityType

\* A window that has room takes one event more.
LEMMA RoomForOne ==
  ASSUME NEW S, IsFiniteSet(S), NEW events \in SUBSET S, NEW kept \in SUBSET events,
         NEW e \in S, NEW limit \in Nat,
         ~ Full(kept, limit)
  PROVE  Cardinality(kept \cup {e}) <= limit
<1>1. IsFiniteSet(kept) /\ Cardinality(kept) \in Nat  BY KeptFits
<1>2. Cardinality(kept) + 1 <= limit  BY <1>1 DEF Full
<1>3. Cardinality(kept \cup {e}) \in {Cardinality(kept), Cardinality(kept) + 1}
  BY <1>1, FS_AddElement
<1> QED  BY <1>1, <1>2, <1>3

LEMMA WindowsStep == OtpInv /\ [Next]_vars => WindowsHold'
<1> SUFFICES ASSUME OtpInv, [Next]_vars PROVE WindowsHold'
  OBVIOUS
<1>0. TypeOK /\ WindowsHold /\ failures \subseteq Call /\ requests \subseteq Challenge
  BY DEF OtpInv, TypeOK
<1>1. IsFiniteSet(Call) /\ IsFiniteSet(Challenge) /\ MaxFailures \in Nat /\ MaxRequests \in Nat
  BY PolicyAssumption
<1>2. ASSUME failures' \subseteq failures, requests' \subseteq requests  PROVE WindowsHold'
  <2>1. Cardinality(failures') <= Cardinality(failures) /\ Cardinality(failures') \in Nat
        /\ Cardinality(failures) \in Nat
    BY <1>0, <1>1, <1>2, KeptFits
  <2>2. Cardinality(requests') <= Cardinality(requests) /\ Cardinality(requests') \in Nat
        /\ Cardinality(requests) \in Nat
    BY <1>0, <1>1, <1>2, KeptFits
  <2> QED  BY <1>0, <1>1, <2>1, <2>2 DEF WindowsHold
<1>3. ASSUME NEW c \in Call, Reserve(c), requests' = requests  PROVE WindowsHold'
  <2> DEFINE kept == Within(failures, reservedAt, reservedAt[c])
  <2>1. kept \subseteq failures  BY DEF Within
  <2>2. ~ Full(kept, MaxFailures) /\ failures' = kept \cup {c}
    BY <1>3 DEF Reserve, Limited
  <2> HIDE DEF kept
  <2>3. Cardinality(failures') <= MaxFailures  BY <1>0, <1>1, <2>1, <2>2, RoomForOne
  <2> QED  BY <1>0, <1>3, <2>3 DEF WindowsHold
<1>4. ASSUME NEW r \in Challenge, ReserveOtpRequest(r)  PROVE WindowsHold'
  <2> DEFINE kept == Within(requests, requestedAt, requestedAt[r])
  <2>1. kept \subseteq requests  BY DEF Within
  <2>2. failures' = failures  BY <1>4 DEF ReserveOtpRequest
  <2>3. requests' = kept \/ (~ Full(kept, MaxRequests) /\ requests' = kept \cup {r})
    BY <1>4 DEF ReserveOtpRequest, Limited
  <2> HIDE DEF kept
  <2>4. CASE requests' = kept  BY <1>2, <2>1, <2>2, <2>4
  <2>5. CASE ~ Full(kept, MaxRequests) /\ requests' = kept \cup {r}
    <3>1. Cardinality(requests') <= MaxRequests  BY <1>0, <1>1, <2>1, <2>5, RoomForOne
    <3> QED  BY <1>0, <2>2, <3>1 DEF WindowsHold
  <2> QED  BY <2>3, <2>4, <2>5
<1>5. ASSUME NEW r \in Challenge, RequestStep(r)  PROVE WindowsHold'
  <2>1. CASE ReserveOtpRequest(r)  BY <1>4, <2>1
  <2>2. CASE ~ ReserveOtpRequest(r)
    <3>1. UNCHANGED limiter
      BY <1>5, <2>2
      DEF RequestStep, RequestOtp, SaveOtp, SendOtp, SendFails, Withdraw, RequestFails, Remove
    <3> QED  BY <1>2, <3>1 DEF limiter
  <2> QED  BY <2>1, <2>2
<1>6. ASSUME NEW c \in Call, ValidateStep(c)  PROVE WindowsHold'
  <2>1. CASE ReserveOtpVerification(c) \/ ReserveFails(c)
    BY <1>3, <2>1 DEF ReserveOtpVerification, ReserveFails
  <2>2. CASE ReserveRefused(c)
    BY <1>2, <2>2 DEF ReserveRefused, Within
  <2>3. CASE ReleaseOtpVerification(c) \/ ReleaseFails(c)
    BY <1>2, <2>3 DEF ReleaseOtpVerification, ReleaseFails, Release
  <2>4. CASE ResetOtpFailures(c) \/ ResetFails(c)
    BY <1>2, <2>4 DEF ResetOtpFailures, ResetFails, Reset
  <2>5. CASE \/ Begin(c) \/ GetOtp(c) \/ GetOtpMissing(c) \/ CheckRefused(c) \/ Check(c)
             \/ Drop(c) \/ Compare(c) \/ RecordFailedOtpAttempt(c) \/ RecordGone(c)
             \/ RecordFails(c) \/ ConfirmOtpFailure(c) \/ ConfirmFails(c) \/ ConsumeOtp(c)
             \/ ConsumeRefused(c) \/ ConsumeFails(c) \/ SaveSession(c) \/ SaveRefused(c)
             \/ SaveFails(c) \/ Abandon(c)
    <3>1. UNCHANGED limiter
      BY <2>5
      DEF Begin, GetOtp, GetOtpMissing, CheckRefused, Check, Drop, Compare,
          RecordFailedOtpAttempt, RecordGone, RecordFails, ConfirmOtpFailure, ConfirmFails,
          ConsumeOtp, ConsumeRefused, ConsumeFails, SaveSession, SaveRefused, SaveFails, Abandon
    <3> QED  BY <1>2, <3>1 DEF limiter
  <2> QED  BY <1>6, <2>1, <2>2, <2>3, <2>4, <2>5 DEF ValidateStep
<1>7. CASE Tick  BY <1>2, <1>7 DEF Tick, limiter
<1>8. CASE UNCHANGED vars  BY <1>2, <1>8 DEF vars, limiter
<1> QED  BY <1>5, <1>6, <1>7, <1>8 DEF Next

-----------------------------------------------------------------------------
\* The invariant: what winners, reservations and locks owe each other.
THEOREM OtpInvariant == Spec => []OtpInv
<1>1. OtpInv /\ [Next]_vars => OtpInv'
  BY TypeStep, ReadingsStep, WinnersStep, AnswersStep, ReservationsStep, LocksStep,
     WindowsStep
  DEF OtpInv
<1> QED  BY <1>1, OtpInit, PTL DEF Spec

\* A code makes at most one session.
THEOREM CodesAreSingleUse == Spec => []OneSessionPerChallenge
<1>1. OtpInv => OneSessionPerChallenge
  BY DEF OtpInv, TypeOK, WinnersAreUnique, Winner, OneSessionPerChallenge
<1> QED  BY <1>1, OtpInvariant, PTL

\* The challenge of a session never comes back.
THEOREM ConsumptionIsFinal == Spec => []ConsumedStaysConsumed
<1>1. OtpInv => ConsumedStaysConsumed
  BY DEF OtpInv, TypeOK, WinnersAreUnique, Winner, ConsumedStaysConsumed
<1> QED  BY <1>1, OtpInvariant, PTL

\* A recorded wrong code counts for its whole window.
THEOREM FailuresCount == Spec => []CountedWhileInWindow
<1>1. OtpInv => CountedWhileInWindow
  <2> SUFFICES ASSUME OtpInv, NEW c \in recorded \ forgiven, clock < reservedAt[c] + Window
               PROVE  c \in failures
    BY DEF CountedWhileInWindow
  <2>1. c \in Call /\ Stands(c)  BY DEF OtpInv, TypeOK, ReservationsStand
  <2> QED  BY <2>1, PolicyAssumption DEF Stands, OtpInv, TypeOK
<1> QED  BY <1>1, OtpInvariant, PTL

\* A standing lockout was reported by the call that set it.
THEOREM LockoutsAreReported == Spec => []StandingLockWasReported
<1>1. OtpInv => StandingLockWasReported
  BY DEF OtpInv, LocksAreSettled, Settled, StandingLockWasReported
<1> QED  BY <1>1, OtpInvariant, PTL

-----------------------------------------------------------------------------
\* The wrong codes recorded on a challenge, stored or not.
Recorded(r) == {c \in recorded : target[c] = r}

Counts == recorded \subseteq Call /\ \A r \in Challenge : attempts[r] = Cardinality(Recorded(r))

\* Recording a code adds one to its own challenge's set and to no other.
LEMMA CountsStep == OtpInv /\ Counts /\ [Next]_vars => Counts'
<1> SUFFICES ASSUME OtpInv, Counts, [Next]_vars PROVE Counts'
  OBVIOUS
<1>0. TypeOK /\ TypeOK' /\ ReservationsStand  BY TypeStep DEF OtpInv
<1>1. ASSUME NEW c \in Call, Record(c), UNCHANGED target, pc[c] = "record" PROVE Counts'
  <2>1. c \notin recorded  BY <1>0, <1>1 DEF ReservationsStand
  <2>2. recorded' = recorded \cup {c} /\ target[c] \in Challenge
    BY <1>0, <1>1 DEF Record, TypeOK
  <2>3. ASSUME NEW r \in Challenge, r # target[c]
        PROVE  attempts'[r] = attempts[r] /\ Recorded(r)' = Recorded(r)
    BY <1>0, <1>1, <2>2, <2>3 DEF Record, Recorded, TypeOK
  <2>4. attempts'[target[c]] = attempts[target[c]] + 1
    BY <1>0, <1>1, <2>2 DEF Record, TypeOK
  <2>5. Recorded(target[c])' = Recorded(target[c]) \cup {c}
    <3>1. target' = target  BY <1>1
    <3> QED  BY <3>1, <2>2 DEF Recorded
  <2>6. IsFiniteSet(Recorded(target[c])) /\ c \notin Recorded(target[c])
    BY <2>1, <1>0, PolicyAssumption, FS_Subset DEF Recorded, TypeOK
  <2>7. Cardinality(Recorded(target[c])') = Cardinality(Recorded(target[c])) + 1
    BY <2>5, <2>6, FS_AddElement
  <2>8. ASSUME NEW r \in Challenge PROVE attempts'[r] = Cardinality(Recorded(r)')
    <3>1. CASE r # target[c]  BY <2>3, <3>1 DEF Counts
    <3>2. CASE r = target[c]  BY <2>2, <2>4, <2>7, <3>2, <1>1 DEF Counts, Recorded
    <3> QED  BY <3>1, <3>2
  <2> QED  BY <2>8, <1>0 DEF Counts, TypeOK, Recorded
<1>2. CASE UNCHANGED <<recorded, attempts, target>>
  BY <1>2 DEF Counts, Recorded
<1>3. ASSUME NEW c \in Call, Begin(c) PROVE Counts'
  <2>1. c \notin recorded  BY <1>0, <1>3 DEF ReservationsStand, Begin
  <2>2. recorded' = recorded /\ attempts' = attempts  BY <1>3 DEF Begin, log, challenge
  <2>3. \A d \in recorded : target'[d] = target[d]
    BY <1>0, <1>3, <2>1 DEF Begin, TypeOK
  <2>4. \A r \in Challenge : Recorded(r)' = Recorded(r)  BY <2>2, <2>3 DEF Recorded
  <2> QED  BY <2>2, <2>4 DEF Counts
<1>4. ASSUME NEW c \in Call, ValidateStep(c) PROVE Counts'
  <2>1. CASE RecordFailedOtpAttempt(c) \/ RecordFails(c)
    <3>1. \/ Record(c) /\ UNCHANGED target /\ pc[c] = "record"
          \/ UNCHANGED <<recorded, attempts, target>>
      BY <2>1 DEF RecordFailedOtpAttempt, RecordFails
    <3> QED  BY <3>1, <1>1, <1>2
  <2>2. CASE Begin(c)  BY <2>2, <1>3
  <2>3. CASE ~ (RecordFailedOtpAttempt(c) \/ RecordFails(c) \/ Begin(c))
    <3>1. UNCHANGED <<recorded, attempts, target>>
      BY <1>4, <2>3
      DEF ValidateStep, GetOtp, GetOtpMissing, CheckRefused, Check, Drop,
          ReserveOtpVerification, ReserveRefused, ReserveFails, Compare, RecordGone,
          ConfirmOtpFailure, ConfirmFails, ReleaseOtpVerification, ReleaseFails,
          ConsumeOtp, ConsumeRefused, ConsumeFails, ResetOtpFailures, ResetFails,
          SaveSession, SaveRefused, SaveFails, Abandon, challenge, log
    <3> QED  BY <3>1, <1>2
  <2> QED  BY <2>1, <2>2, <2>3
<1>5. ASSUME NEW r \in Challenge, RequestStep(r) PROVE UNCHANGED <<recorded, attempts, target>>
  BY <1>5
  DEF RequestStep, RequestOtp, ReserveOtpRequest, SaveOtp, SendOtp, SendFails, Withdraw,
      RequestFails, Remove, challenge, call, log
<1>6. CASE Tick  BY <1>2, <1>6 DEF Tick, challenge, call, log
<1>7. CASE UNCHANGED vars  BY <1>2, <1>7 DEF vars, challenge, call, log
<1> QED  BY <1>2, <1>4, <1>5, <1>6, <1>7 DEF Next

\* The stored counter is the number of wrong codes recorded on the challenge.
THEOREM AttemptsAreExact == Spec => []AttemptsAreNotLost
<1>1. Init => Counts
  <2> SUFFICES ASSUME Init, NEW r \in Challenge PROVE attempts[r] = Cardinality(Recorded(r))
    BY DEF Init, Counts
  <2>1. Recorded(r) = {} /\ attempts[r] = 0  BY DEF Init, Recorded
  <2> QED  BY <2>1, FS_EmptySet
<1>2. OtpInv /\ Counts => AttemptsAreNotLost
  BY DEF OtpInv, TypeOK, Counts, Recorded, AttemptsAreNotLost
<1> QED  BY <1>1, <1>2, CountsStep, OtpInvariant, PTL DEF Spec

-----------------------------------------------------------------------------
(* When a refused number is next admitted                                  *)

\* The slot that frees first is an event's, and no event leaves before it.
LEMMA SlotIsOldest ==
  ASSUME NEW kept, kept # {}, NEW at, \A e \in kept : at[e] \in Nat
  PROVE  /\ \E e \in kept : SlotFreesAt(kept, at) = at[e] + Window
         /\ \A e \in kept : SlotFreesAt(kept, at) <= at[e] + Window
<1> DEFINE ends == {at[e] + Window : e \in kept}
           R == OpToRel(<, Nat)
<1>1. ends \subseteq Nat /\ ends # {}  BY PolicyAssumption
<1>2. PICK x \in ends : \A y \in ends : ~ (<<y, x>> \in R)
  <2> HIDE DEF R, ends
  <2>1. IsWellFoundedOn(R, Nat)  BY NatLessThanWellFounded DEF R
  <2> QED  BY <1>1, <2>1, WFMin
<1>3. \A y \in ends : x <= y
  <2> SUFFICES ASSUME NEW y \in ends  PROVE x <= y
    OBVIOUS
  <2>1. <<y, x>> \in Nat \X Nat /\ ~ (y < x)  BY <1>1, <1>2 DEF OpToRel
  <2> QED  BY <1>1, <2>1
<1>4. \A e \in kept : x <= at[e] + Window  BY <1>3
<1>5. SlotFreesAt(kept, at) \in ends /\ \A e \in kept : SlotFreesAt(kept, at) <= at[e] + Window
  BY <1>4 DEF SlotFreesAt
<1> QED  BY <1>5

\* limitedUntil is the first instant at which the number is not restricted, as
\* long as the window it looks at holds no more than it admits.
LEMMA RetryIsExact ==
  ASSUME NEW events, IsFiniteSet(events), NEW at, \A e \in events : at[e] \in Nat,
         NEW limit \in Nat \ {0}, Cardinality(events) <= limit,
         NEW now \in Nat, lockedUntil \in Nat,
         Limited(Within(events, at, now), limit, now)
  PROVE  LET kept == Within(events, at, now)
             retry == RetryAt(kept, at, limit, now)
         IN  /\ retry > now
             /\ ~ Limited(Within(kept, at, retry), limit, retry)
             /\ \A t \in now .. retry - 1 : Limited(Within(kept, at, t), limit, t)
<1> DEFINE kept == Within(events, at, now)
           retry == RetryAt(kept, at, limit, now)
           slot == SlotFreesAt(kept, at)
<1>1. kept \subseteq events /\ \A e \in kept : at[e] \in Nat /\ now < at[e] + Window
  BY DEF Within
<1>2. Window \in Nat  BY PolicyAssumption
<1>3. Limited(kept, limit, now)  OBVIOUS
<1>4. retry = RetryAt(kept, at, limit, now) /\ slot = SlotFreesAt(kept, at)  OBVIOUS
<1> HIDE DEF kept, retry, slot
<1>5. IsFiniteSet(kept) /\ Cardinality(kept) \in Nat /\ Cardinality(kept) <= limit
  BY <1>1, KeptFits
<1>6. ASSUME Full(kept, limit)
      PROVE  /\ slot \in Nat /\ now < slot
             /\ \E e \in kept : slot = at[e] + Window
             /\ \A e \in kept : slot <= at[e] + Window
  <2>1. kept # {}  BY <1>5, <1>6, FS_EmptySet DEF Full
  <2>2. /\ \E e \in kept : slot = at[e] + Window
        /\ \A e \in kept : slot <= at[e] + Window
    BY <1>1, <1>4, <2>1, SlotIsOldest
  <2> QED  BY <1>1, <1>2, <2>2
<1>7. /\ retry \in Nat /\ now < retry /\ lockedUntil <= retry
      /\ Full(kept, limit) => slot <= retry
      /\ (retry = lockedUntil) \/ (Full(kept, limit) /\ retry = slot)
  <2>1. CASE Full(kept, limit)  BY <1>3, <1>4, <1>6, <2>1 DEF RetryAt, Limited
  <2>2. CASE ~ Full(kept, limit)  BY <1>3, <1>4, <2>2 DEF RetryAt, Limited
  <2> QED  BY <2>1, <2>2
<1>8. ~ Limited(Within(kept, at, retry), limit, retry)
  <2> DEFINE left == Within(kept, at, retry)
  <2>1. left \subseteq kept  BY DEF Within
  <2>2. CASE Full(kept, limit)
    <3>1. PICK e \in kept : slot = at[e] + Window  BY <1>6, <2>2
    <3>2. e \notin left  BY <1>1, <1>2, <1>7, <2>2, <3>1 DEF Within
    <3> HIDE DEF left
    <3>3. left \subseteq kept \ {e}  BY <2>1, <3>2
    <3>4. IsFiniteSet(kept \ {e}) /\ Cardinality(kept \ {e}) = Cardinality(kept) - 1
      BY <1>5, FS_RemoveElement
    <3>5. Cardinality(left) <= Cardinality(kept) - 1 /\ Cardinality(left) \in Nat
      BY <3>3, <3>4, FS_Subset, FS_CardinalityType
    <3>6. ~ Full(left, limit)  BY <1>5, <3>5 DEF Full
    <3> QED  BY <1>7, <3>6 DEF Limited, left
  <2>3. CASE ~ Full(kept, limit)
    <3> HIDE DEF left
    <3>1. Cardinality(left) <= Cardinality(kept) /\ Cardinality(left) \in Nat
      BY <1>5, <2>1, FS_Subset, FS_CardinalityType
    <3>2. ~ Full(left, limit)  BY <1>5, <2>3, <3>1 DEF Full
    <3> QED  BY <1>7, <3>2 DEF Limited, left
  <2> QED  BY <2>2, <2>3
<1>9. ASSUME NEW t \in now .. retry - 1  PROVE Limited(Within(kept, at, t), limit, t)
  <2>1. t \in Nat /\ t < retry  BY <1>7
  <2>2. CASE retry = lockedUntil  BY <2>1, <2>2 DEF Limited
  <2>3. CASE Full(kept, limit) /\ retry = slot
    <3>1. \A e \in kept : t < at[e] + Window  BY <1>1, <1>2, <1>6, <2>1, <2>3
    <3>2. Within(kept, at, t) = kept  BY <3>1 DEF Within
    <3> QED  BY <2>3, <3>2 DEF Limited
  <2> QED  BY <1>7, <2>2, <2>3
<1> QED  BY <1>4, <1>7, <1>8, <1>9 DEF kept

\* Every refusal names the first instant at which the number is not restricted.
THEOREM RefusalsAreExact == Spec => []RetryAtIsExact
<1>1. OtpInv => RetryAtIsExact
  <2> SUFFICES ASSUME OtpInv PROVE RetryAtIsExact
    OBVIOUS
  <2>1. /\ lockedUntil \in Nat /\ failures \subseteq Call /\ requests \subseteq Challenge
        /\ \A c \in Call : reservedAt[c] \in Nat
        /\ \A r \in Challenge : requestedAt[r] \in Nat
        /\ Cardinality(failures) <= MaxFailures /\ Cardinality(requests) <= MaxRequests
    BY DEF OtpInv, TypeOK, WindowsHold
  <2>2. IsFiniteSet(failures) /\ IsFiniteSet(requests)
    BY <2>1, PolicyAssumption, FS_Subset
  <2>3. MaxFailures \in Nat \ {0} /\ MaxRequests \in Nat \ {0}  BY PolicyAssumption
  <2>4. ASSUME NEW c \in Call, Limited(Within(failures, reservedAt, reservedAt[c]), MaxFailures,
                                      reservedAt[c])
        PROVE LET kept == Within(failures, reservedAt, reservedAt[c])
                  retry == RetryAt(kept, reservedAt, MaxFailures, reservedAt[c])
              IN  /\ retry > reservedAt[c]
                  /\ ~ Limited(Within(kept, reservedAt, retry), MaxFailures, retry)
                  /\ \A t \in reservedAt[c] .. retry - 1 :
                       Limited(Within(kept, reservedAt, t), MaxFailures, t)
    <3>1. \A e \in failures : reservedAt[e] \in Nat  BY <2>1
    <3> QED  BY <2>1, <2>2, <2>3, <2>4, <3>1, RetryIsExact
  <2>5. ASSUME NEW r \in Challenge, Limited(Within(requests, requestedAt, requestedAt[r]),
                                           MaxRequests, requestedAt[r])
        PROVE LET kept == Within(requests, requestedAt, requestedAt[r])
                  retry == RetryAt(kept, requestedAt, MaxRequests, requestedAt[r])
              IN  /\ retry > requestedAt[r]
                  /\ ~ Limited(Within(kept, requestedAt, retry), MaxRequests, retry)
                  /\ \A t \in requestedAt[r] .. retry - 1 :
                       Limited(Within(kept, requestedAt, t), MaxRequests, t)
    <3>1. \A e \in requests : requestedAt[e] \in Nat  BY <2>1
    <3> QED  BY <2>1, <2>2, <2>3, <2>5, <3>1, RetryIsExact
  <2> QED  BY <2>4, <2>5, Zenon DEF RetryAtIsExact
<1> QED  BY <1>1, OtpInvariant, PTL
=============================================================================
