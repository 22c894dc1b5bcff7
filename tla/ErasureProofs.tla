--------------------------- MODULE ErasureProofs ---------------------------
(***************************************************************************)
(* For any number of sign-ins, challenges, rotations and erasure requests: *)
(* an erasure leaves no session of a sign-in that began at or before the   *)
(* instant it was requested, nothing erased comes back, no session or code *)
(* erases twice, a success names an erasure that was done, and of two      *)
(* deletions alike the one that comes second is not refused.               *)
(***************************************************************************)
EXTENDS AccountErasure, TLAPS

LEMMA ErasureInit == Init => ErasureInv
  BY ErasureAssumption
  DEF Init, ErasureInv, TypeOK, SavedOnce, RequestsAreNamed, ReceiptsMatchErasures, FenceHolds,
      ErasedStaysGone, OneErasurePerCredential, DoneMeansErased, Request, Challenge,
      SignInSteps, RequestSteps, Answers

-----------------------------------------------------------------------------
\* Every action keeps the types.
LEMMA TypeStep == ErasureInv /\ [Next]_vars => TypeOK'
<1> SUFFICES ASSUME ErasureInv, [Next]_vars PROVE TypeOK'
  OBVIOUS
<1>0. TypeOK  BY DEF ErasureInv
<1> USE <1>0, ErasureAssumption DEF TypeOK, SignInSteps, RequestSteps, Answers,
     Challenge, Request, store, signIns, requests, refreshes
<1>1. ASSUME NEW s \in SignIn, SignInStep(s) \/ RevokeSession(s) PROVE TypeOK'
  <2> USE DEF To
  <2>1. CASE Begin(s)  BY <2>1 DEF Begin
  <2>2. CASE Get(s)  BY <2>2 DEF Get
  <2>3. CASE Consume(s)  BY <2>3 DEF Consume
  <2>4. CASE ConsumeRefused(s)  BY <2>4 DEF ConsumeRefused
  <2>5. CASE SaveSession(s)  BY <2>5 DEF SaveSession, Fenced
  <2>6. CASE SaveRefused(s)  BY <2>6 DEF SaveRefused
  <2>7. CASE RevokeSession(s)  BY <2>7 DEF RevokeSession
  <2> QED  BY <1>1, <2>1, <2>2, <2>3, <2>4, <2>5, <2>6, <2>7 DEF SignInStep
<1>2. ASSUME NEW f \in Refresh, RefreshStep(f) PROVE TypeOK'
  <2>1. CASE ReadSession(f)  BY <2>1 DEF ReadSession
  <2>2. CASE ReplaceSession(f)  BY <2>2 DEF ReplaceSession, Swappable
  <2>3. CASE SwapRefused(f)  BY <2>3 DEF SwapRefused
  <2> QED  BY <1>2, <2>1, <2>2, <2>3 DEF RefreshStep
<1>3. ASSUME NEW d \in Request, EraseStep(d) PROVE TypeOK'
  <2> USE DEF Goto, Return, Request
  <2>1. CASE ReadClock(d)  BY <2>1 DEF ReadClock
  <2>2. CASE EraseSubscriber(d)  BY <2>2 DEF EraseSubscriber, Erasable, Erase
  <2>3. CASE EraseConflict(d)  BY <2>3 DEF EraseConflict, Erasable
  <2>4. CASE StoreFails(d)  BY <2>4 DEF StoreFails
  <2>5. CASE AnswerFromReceipt(d)  BY <2>5 DEF AnswerFromReceipt, Receipt
  <2> QED  BY <1>3, <2>1, <2>2, <2>3, <2>4, <2>5 DEF EraseStep
<1>4. ASSUME NEW d \in Deletion, DeletionStep(d) PROVE TypeOK'
  <2> USE DEF Goto, Return, Request
  <2>1. CASE AskWithSession(d)  BY <2>1 DEF AskWithSession
  <2>2. CASE ReadForDeletion(d)  BY <2>2 DEF ReadForDeletion
  <2>3. CASE DeletionRefused(d)  BY <2>3 DEF DeletionRefused
  <2>4. CASE RevokeReused(d)  BY <2>4 DEF RevokeReused
  <2> QED  BY <1>4, <1>3, <2>1, <2>2, <2>3, <2>4 DEF DeletionStep
<1>5. ASSUME NEW d \in Confirmation, ConfirmationStep(d) PROVE TypeOK'
  <2> USE DEF Goto, Return, Request
  <2>1. CASE AskWithCode(d)  BY <2>1 DEF AskWithCode
  <2>2. CASE ReadCode(d)  BY <2>2 DEF ReadCode
  <2>3. CASE CodeRefused(d)  BY <2>3 DEF CodeRefused
  <2> QED  BY <1>5, <1>3, <2>1, <2>2, <2>3 DEF ConfirmationStep
<1>6. ASSUME NEW k \in Challenge, SaveOtp(k) \/ DeleteOtp(k) PROVE TypeOK'
  <2>1. CASE SaveOtp(k)  BY <2>1 DEF SaveOtp
  <2>2. CASE DeleteOtp(k)  BY <2>2 DEF DeleteOtp
  <2> QED  BY <1>6, <2>1, <2>2 DEF Challenge
<1>7. ASSUME NEW x \in SignIn \cup Challenge, Expire(x) PROVE TypeOK'  BY <1>7 DEF Expire
<1>8. CASE Tick  BY <1>8 DEF Tick
<1>9. CASE UNCHANGED vars  BY <1>9 DEF vars
<1> QED  BY <1>1, <1>2, <1>3, <1>4, <1>5, <1>6, <1>7, <1>8, <1>9 DEF Next

\* A session is saved by its sign-in's last step and written again by none.
LEMMA SavedStep == ErasureInv /\ [Next]_vars => SavedOnce'
<1> SUFFICES ASSUME ErasureInv, [Next]_vars PROVE SavedOnce'
  OBVIOUS
<1>0. TypeOK /\ SavedOnce  BY DEF ErasureInv
<1> USE <1>0, ErasureAssumption DEF TypeOK, SavedOnce, store, signIns, requests, refreshes
<1>1. ASSUME NEW s \in SignIn, SignInStep(s) \/ RevokeSession(s) PROVE SavedOnce'
  <2> USE DEF To
  <2>1. CASE Begin(s)  BY <2>1 DEF Begin
  <2>2. CASE Get(s)  BY <2>2 DEF Get
  <2>3. CASE Consume(s)  BY <2>3 DEF Consume
  <2>4. CASE ConsumeRefused(s)  BY <2>4 DEF ConsumeRefused
  <2>5. CASE SaveSession(s)  BY <2>5 DEF SaveSession, Fenced
  <2>6. CASE SaveRefused(s)  BY <2>6 DEF SaveRefused
  <2>7. CASE RevokeSession(s)  BY <2>7 DEF RevokeSession
  <2> QED  BY <1>1, <2>1, <2>2, <2>3, <2>4, <2>5, <2>6, <2>7 DEF SignInStep
<1>2. ASSUME NEW f \in Refresh, RefreshStep(f) PROVE SavedOnce'
  <2>1. CASE ReadSession(f)  BY <2>1 DEF ReadSession
  <2>2. CASE ReplaceSession(f)  BY <2>2 DEF ReplaceSession, Swappable
  <2>3. CASE SwapRefused(f)  BY <2>3 DEF SwapRefused
  <2> QED  BY <1>2, <2>1, <2>2, <2>3 DEF RefreshStep
<1>3. ASSUME NEW d \in Request, EraseStep(d) PROVE SavedOnce'
  <2> USE DEF Goto, Return, Request
  <2>1. CASE ReadClock(d)  BY <2>1 DEF ReadClock
  <2>2. CASE EraseSubscriber(d)  BY <2>2 DEF EraseSubscriber, Erasable, Erase
  <2>3. CASE EraseConflict(d)  BY <2>3 DEF EraseConflict, Erasable
  <2>4. CASE StoreFails(d)  BY <2>4 DEF StoreFails
  <2>5. CASE AnswerFromReceipt(d)  BY <2>5 DEF AnswerFromReceipt, Receipt
  <2> QED  BY <1>3, <2>1, <2>2, <2>3, <2>4, <2>5 DEF EraseStep
<1>4. ASSUME NEW d \in Deletion, DeletionStep(d) PROVE SavedOnce'
  <2> USE DEF Goto, Return, Request
  <2>1. CASE AskWithSession(d)  BY <2>1 DEF AskWithSession
  <2>2. CASE ReadForDeletion(d)  BY <2>2 DEF ReadForDeletion
  <2>3. CASE DeletionRefused(d)  BY <2>3 DEF DeletionRefused
  <2>4. CASE RevokeReused(d)  BY <2>4 DEF RevokeReused
  <2> QED  BY <1>4, <1>3, <2>1, <2>2, <2>3, <2>4 DEF DeletionStep
<1>5. ASSUME NEW d \in Confirmation, ConfirmationStep(d) PROVE SavedOnce'
  <2> USE DEF Goto, Return, Request
  <2>1. CASE AskWithCode(d)  BY <2>1 DEF AskWithCode
  <2>2. CASE ReadCode(d)  BY <2>2 DEF ReadCode
  <2>3. CASE CodeRefused(d)  BY <2>3 DEF CodeRefused
  <2> QED  BY <1>5, <1>3, <2>1, <2>2, <2>3 DEF ConfirmationStep
<1>6. ASSUME NEW k \in Challenge, SaveOtp(k) \/ DeleteOtp(k) PROVE SavedOnce'
  <2>1. CASE SaveOtp(k)  BY <2>1 DEF SaveOtp
  <2>2. CASE DeleteOtp(k)  BY <2>2 DEF DeleteOtp
  <2> QED  BY <1>6, <2>1, <2>2 DEF Challenge
<1>7. ASSUME NEW x \in SignIn \cup Challenge, Expire(x) PROVE SavedOnce'  BY <1>7 DEF Expire
<1>8. CASE Tick  BY <1>8 DEF Tick
<1>9. CASE UNCHANGED vars  BY <1>9 DEF vars
<1> QED  BY <1>1, <1>2, <1>3, <1>4, <1>5, <1>6, <1>7, <1>8, <1>9 DEF Next

\* A request names what it was asked with until it is answered.
LEMMA NamesStep == ErasureInv /\ [Next]_vars => RequestsAreNamed'
<1> SUFFICES ASSUME ErasureInv, [Next]_vars PROVE RequestsAreNamed'
  OBVIOUS
<1>0. TypeOK /\ RequestsAreNamed  BY DEF ErasureInv
<1> USE <1>0, ErasureAssumption DEF TypeOK, RequestsAreNamed, store, signIns, requests,
     refreshes
<1>1. ASSUME NEW s \in SignIn, SignInStep(s) \/ RevokeSession(s) PROVE RequestsAreNamed'
  <2> USE DEF To
  <2>1. CASE Begin(s)  BY <2>1 DEF Begin
  <2>2. CASE Get(s)  BY <2>2 DEF Get
  <2>3. CASE Consume(s)  BY <2>3 DEF Consume
  <2>4. CASE ConsumeRefused(s)  BY <2>4 DEF ConsumeRefused
  <2>5. CASE SaveSession(s)  BY <2>5 DEF SaveSession, Fenced
  <2>6. CASE SaveRefused(s)  BY <2>6 DEF SaveRefused
  <2>7. CASE RevokeSession(s)  BY <2>7 DEF RevokeSession
  <2> QED  BY <1>1, <2>1, <2>2, <2>3, <2>4, <2>5, <2>6, <2>7 DEF SignInStep
<1>2. ASSUME NEW f \in Refresh, RefreshStep(f) PROVE RequestsAreNamed'
  <2>1. CASE ReadSession(f)  BY <2>1 DEF ReadSession
  <2>2. CASE ReplaceSession(f)  BY <2>2 DEF ReplaceSession, Swappable
  <2>3. CASE SwapRefused(f)  BY <2>3 DEF SwapRefused
  <2> QED  BY <1>2, <2>1, <2>2, <2>3 DEF RefreshStep
<1>3. ASSUME NEW d \in Request, EraseStep(d) PROVE RequestsAreNamed'
  <2> USE DEF Goto, Return, Request
  <2>1. CASE ReadClock(d)  BY <2>1 DEF ReadClock
  <2>2. CASE EraseSubscriber(d)  BY <2>2 DEF EraseSubscriber, Erasable, Erase
  <2>3. CASE EraseConflict(d)  BY <2>3 DEF EraseConflict, Erasable
  <2>4. CASE StoreFails(d)  BY <2>4 DEF StoreFails
  <2>5. CASE AnswerFromReceipt(d)  BY <2>5 DEF AnswerFromReceipt, Receipt
  <2> QED  BY <1>3, <2>1, <2>2, <2>3, <2>4, <2>5 DEF EraseStep
<1>4. ASSUME NEW d \in Deletion, DeletionStep(d) PROVE RequestsAreNamed'
  <2> USE DEF Goto, Return, Request
  <2>1. CASE AskWithSession(d)  BY <2>1 DEF AskWithSession
  <2>2. CASE ReadForDeletion(d)  BY <2>2 DEF ReadForDeletion
  <2>3. CASE DeletionRefused(d)  BY <2>3 DEF DeletionRefused
  <2>4. CASE RevokeReused(d)  BY <2>4 DEF RevokeReused
  <2> QED  BY <1>4, <1>3, <2>1, <2>2, <2>3, <2>4 DEF DeletionStep
<1>5. ASSUME NEW d \in Confirmation, ConfirmationStep(d) PROVE RequestsAreNamed'
  <2> USE DEF Goto, Return, Request
  <2>1. CASE AskWithCode(d)  BY <2>1 DEF AskWithCode
  <2>2. CASE ReadCode(d)  BY <2>2 DEF ReadCode
  <2>3. CASE CodeRefused(d)  BY <2>3 DEF CodeRefused
  <2> QED  BY <1>5, <1>3, <2>1, <2>2, <2>3 DEF ConfirmationStep
<1>6. ASSUME NEW k \in Challenge, SaveOtp(k) \/ DeleteOtp(k) PROVE RequestsAreNamed'
  <2>1. CASE SaveOtp(k)  BY <2>1 DEF SaveOtp
  <2>2. CASE DeleteOtp(k)  BY <2>2 DEF DeleteOtp
  <2> QED  BY <1>6, <2>1, <2>2 DEF Challenge
<1>7. ASSUME NEW x \in SignIn \cup Challenge, Expire(x) PROVE RequestsAreNamed'  BY <1>7
     DEF Expire
<1>8. CASE Tick  BY <1>8 DEF Tick
<1>9. CASE UNCHANGED vars  BY <1>9 DEF vars
<1> QED  BY <1>1, <1>2, <1>3, <1>4, <1>5, <1>6, <1>7, <1>8, <1>9 DEF Next

\* Receipts are written with erasures only, of what goes with them.
LEMMA ReceiptsStep == ErasureInv /\ [Next]_vars => ReceiptsMatchErasures'
<1> SUFFICES ASSUME ErasureInv, [Next]_vars PROVE ReceiptsMatchErasures'
  OBVIOUS
<1>0. TypeOK /\ RequestsAreNamed /\ ReceiptsMatchErasures  BY DEF ErasureInv
<1> USE <1>0, ErasureAssumption DEF TypeOK, RequestsAreNamed, ReceiptsMatchErasures,
     Challenge, store, signIns, requests, refreshes
<1>1. ASSUME NEW s \in SignIn, SignInStep(s) \/ RevokeSession(s) PROVE
     ReceiptsMatchErasures'
  <2> USE DEF To
  <2>1. CASE Begin(s)  BY <2>1 DEF Begin
  <2>2. CASE Get(s)  BY <2>2 DEF Get
  <2>3. CASE Consume(s)  BY <2>3 DEF Consume
  <2>4. CASE ConsumeRefused(s)  BY <2>4 DEF ConsumeRefused
  <2>5. CASE SaveSession(s)  BY <2>5 DEF SaveSession, Fenced
  <2>6. CASE SaveRefused(s)  BY <2>6 DEF SaveRefused
  <2>7. CASE RevokeSession(s)  BY <2>7 DEF RevokeSession
  <2> QED  BY <1>1, <2>1, <2>2, <2>3, <2>4, <2>5, <2>6, <2>7 DEF SignInStep
<1>2. ASSUME NEW f \in Refresh, RefreshStep(f) PROVE ReceiptsMatchErasures'
  <2>1. CASE ReadSession(f)  BY <2>1 DEF ReadSession
  <2>2. CASE ReplaceSession(f)  BY <2>2 DEF ReplaceSession, Swappable
  <2>3. CASE SwapRefused(f)  BY <2>3 DEF SwapRefused
  <2> QED  BY <1>2, <2>1, <2>2, <2>3 DEF RefreshStep
<1>3. ASSUME NEW d \in Request, EraseStep(d) PROVE ReceiptsMatchErasures'
  <2> USE DEF Goto, Return, Request
  <2>1. CASE ReadClock(d)  BY <2>1 DEF ReadClock
  <2>2. CASE EraseSubscriber(d)
    <3>1. PICK e : e = [by |-> d, of |-> of[d], at |-> requestedAt[d]]  OBVIOUS
    <3>2. erasures' = erasures \cup {e} /\ e.of = of[d]
      BY <2>2, <3>1 DEF EraseSubscriber, Erase
    <3>3. receipts' = receipts \cup {of[d]} /\ codes' = {} /\ erased' = erased \cup sessions
      BY <2>2 DEF EraseSubscriber, Erase
    <3>4. receipts' = {g.of : g \in erasures'}  BY <3>2, <3>3
    <3>5. of[d] \in SignIn => of[d] \in sessions
      BY <2>2 DEF EraseSubscriber, Erasable
    <3> QED  BY <3>3, <3>4, <3>5
  <2>3. CASE EraseConflict(d)  BY <2>3 DEF EraseConflict, Erasable
  <2>4. CASE StoreFails(d)  BY <2>4 DEF StoreFails
  <2>5. CASE AnswerFromReceipt(d)  BY <2>5 DEF AnswerFromReceipt, Receipt
  <2> QED  BY <1>3, <2>1, <2>2, <2>3, <2>4, <2>5 DEF EraseStep
<1>4. ASSUME NEW d \in Deletion, DeletionStep(d) PROVE ReceiptsMatchErasures'
  <2> USE DEF Goto, Return, Request
  <2>1. CASE AskWithSession(d)  BY <2>1 DEF AskWithSession
  <2>2. CASE ReadForDeletion(d)  BY <2>2 DEF ReadForDeletion
  <2>3. CASE DeletionRefused(d)  BY <2>3 DEF DeletionRefused
  <2>4. CASE RevokeReused(d)  BY <2>4 DEF RevokeReused
  <2> QED  BY <1>4, <1>3, <2>1, <2>2, <2>3, <2>4 DEF DeletionStep
<1>5. ASSUME NEW d \in Confirmation, ConfirmationStep(d) PROVE ReceiptsMatchErasures'
  <2> USE DEF Goto, Return, Request
  <2>1. CASE AskWithCode(d)  BY <2>1 DEF AskWithCode
  <2>2. CASE ReadCode(d)  BY <2>2 DEF ReadCode
  <2>3. CASE CodeRefused(d)  BY <2>3 DEF CodeRefused
  <2> QED  BY <1>5, <1>3, <2>1, <2>2, <2>3 DEF ConfirmationStep
<1>6. ASSUME NEW k \in Challenge, SaveOtp(k) \/ DeleteOtp(k) PROVE ReceiptsMatchErasures'
  <2>1. CASE SaveOtp(k)  BY <2>1 DEF SaveOtp
  <2>2. CASE DeleteOtp(k)  BY <2>2 DEF DeleteOtp
  <2> QED  BY <1>6, <2>1, <2>2 DEF Challenge
<1>7. ASSUME NEW x \in SignIn \cup Challenge, Expire(x) PROVE ReceiptsMatchErasures'  BY
     <1>7 DEF Expire
<1>8. CASE Tick  BY <1>8 DEF Tick
<1>9. CASE UNCHANGED vars  BY <1>9 DEF vars
<1> QED  BY <1>1, <1>2, <1>3, <1>4, <1>5, <1>6, <1>7, <1>8, <1>9 DEF Next

\* A save checks the fence; an erasure leaves no session to check.
LEMMA FenceStep == ErasureInv /\ [Next]_vars => FenceHolds'
<1> SUFFICES ASSUME ErasureInv, [Next]_vars PROVE FenceHolds'
  OBVIOUS
<1>0. TypeOK /\ SavedOnce /\ FenceHolds  BY DEF ErasureInv
<1> USE <1>0, ErasureAssumption DEF TypeOK, SavedOnce, FenceHolds, store, signIns,
     requests, refreshes
<1>1. ASSUME NEW s \in SignIn, SignInStep(s) \/ RevokeSession(s) PROVE FenceHolds'
  <2> USE DEF To
  <2>1. CASE Begin(s)  BY <2>1 DEF Begin
  <2>2. CASE Get(s)  BY <2>2 DEF Get
  <2>3. CASE Consume(s)  BY <2>3 DEF Consume
  <2>4. CASE ConsumeRefused(s)  BY <2>4 DEF ConsumeRefused
  <2>5. CASE SaveSession(s)  BY <2>5 DEF SaveSession, Fenced
  <2>6. CASE SaveRefused(s)  BY <2>6 DEF SaveRefused
  <2>7. CASE RevokeSession(s)  BY <2>7 DEF RevokeSession
  <2> QED  BY <1>1, <2>1, <2>2, <2>3, <2>4, <2>5, <2>6, <2>7 DEF SignInStep
<1>2. ASSUME NEW f \in Refresh, RefreshStep(f) PROVE FenceHolds'
  <2>1. CASE ReadSession(f)  BY <2>1 DEF ReadSession
  <2>2. CASE ReplaceSession(f)  BY <2>2 DEF ReplaceSession, Swappable
  <2>3. CASE SwapRefused(f)  BY <2>3 DEF SwapRefused
  <2> QED  BY <1>2, <2>1, <2>2, <2>3 DEF RefreshStep
<1>3. ASSUME NEW d \in Request, EraseStep(d) PROVE FenceHolds'
  <2> USE DEF Goto, Return, Request
  <2>1. CASE ReadClock(d)  BY <2>1 DEF ReadClock
  <2>2. CASE EraseSubscriber(d)  BY <2>2 DEF EraseSubscriber, Erasable, Erase
  <2>3. CASE EraseConflict(d)  BY <2>3 DEF EraseConflict, Erasable
  <2>4. CASE StoreFails(d)  BY <2>4 DEF StoreFails
  <2>5. CASE AnswerFromReceipt(d)  BY <2>5 DEF AnswerFromReceipt, Receipt
  <2> QED  BY <1>3, <2>1, <2>2, <2>3, <2>4, <2>5 DEF EraseStep
<1>4. ASSUME NEW d \in Deletion, DeletionStep(d) PROVE FenceHolds'
  <2> USE DEF Goto, Return, Request
  <2>1. CASE AskWithSession(d)  BY <2>1 DEF AskWithSession
  <2>2. CASE ReadForDeletion(d)  BY <2>2 DEF ReadForDeletion
  <2>3. CASE DeletionRefused(d)  BY <2>3 DEF DeletionRefused
  <2>4. CASE RevokeReused(d)  BY <2>4 DEF RevokeReused
  <2> QED  BY <1>4, <1>3, <2>1, <2>2, <2>3, <2>4 DEF DeletionStep
<1>5. ASSUME NEW d \in Confirmation, ConfirmationStep(d) PROVE FenceHolds'
  <2> USE DEF Goto, Return, Request
  <2>1. CASE AskWithCode(d)  BY <2>1 DEF AskWithCode
  <2>2. CASE ReadCode(d)  BY <2>2 DEF ReadCode
  <2>3. CASE CodeRefused(d)  BY <2>3 DEF CodeRefused
  <2> QED  BY <1>5, <1>3, <2>1, <2>2, <2>3 DEF ConfirmationStep
<1>6. ASSUME NEW k \in Challenge, SaveOtp(k) \/ DeleteOtp(k) PROVE FenceHolds'
  <2>1. CASE SaveOtp(k)  BY <2>1 DEF SaveOtp
  <2>2. CASE DeleteOtp(k)  BY <2>2 DEF DeleteOtp
  <2> QED  BY <1>6, <2>1, <2>2 DEF Challenge
<1>7. ASSUME NEW x \in SignIn \cup Challenge, Expire(x) PROVE FenceHolds'  BY <1>7 DEF
     Expire
<1>8. CASE Tick  BY <1>8 DEF Tick
<1>9. CASE UNCHANGED vars  BY <1>9 DEF vars
<1> QED  BY <1>1, <1>2, <1>3, <1>4, <1>5, <1>6, <1>7, <1>8, <1>9 DEF Next

\* An erased session has been saved already, and a rotation needs its row.
LEMMA GoneStep == ErasureInv /\ [Next]_vars => ErasedStaysGone'
<1> SUFFICES ASSUME ErasureInv, [Next]_vars PROVE ErasedStaysGone'
  OBVIOUS
<1>0. TypeOK /\ SavedOnce /\ ErasedStaysGone  BY DEF ErasureInv
<1> USE <1>0, ErasureAssumption DEF TypeOK, SavedOnce, ErasedStaysGone, store, signIns,
     requests, refreshes
<1>1. ASSUME NEW s \in SignIn, SignInStep(s) \/ RevokeSession(s) PROVE ErasedStaysGone'
  <2> USE DEF To
  <2>1. CASE Begin(s)  BY <2>1 DEF Begin
  <2>2. CASE Get(s)  BY <2>2 DEF Get
  <2>3. CASE Consume(s)  BY <2>3 DEF Consume
  <2>4. CASE ConsumeRefused(s)  BY <2>4 DEF ConsumeRefused
  <2>5. CASE SaveSession(s)  BY <2>5 DEF SaveSession, Fenced
  <2>6. CASE SaveRefused(s)  BY <2>6 DEF SaveRefused
  <2>7. CASE RevokeSession(s)  BY <2>7 DEF RevokeSession
  <2> QED  BY <1>1, <2>1, <2>2, <2>3, <2>4, <2>5, <2>6, <2>7 DEF SignInStep
<1>2. ASSUME NEW f \in Refresh, RefreshStep(f) PROVE ErasedStaysGone'
  <2>1. CASE ReadSession(f)  BY <2>1 DEF ReadSession
  <2>2. CASE ReplaceSession(f)  BY <2>2 DEF ReplaceSession, Swappable
  <2>3. CASE SwapRefused(f)  BY <2>3 DEF SwapRefused
  <2> QED  BY <1>2, <2>1, <2>2, <2>3 DEF RefreshStep
<1>3. ASSUME NEW d \in Request, EraseStep(d) PROVE ErasedStaysGone'
  <2> USE DEF Goto, Return, Request
  <2>1. CASE ReadClock(d)  BY <2>1 DEF ReadClock
  <2>2. CASE EraseSubscriber(d)  BY <2>2 DEF EraseSubscriber, Erasable, Erase
  <2>3. CASE EraseConflict(d)  BY <2>3 DEF EraseConflict, Erasable
  <2>4. CASE StoreFails(d)  BY <2>4 DEF StoreFails
  <2>5. CASE AnswerFromReceipt(d)  BY <2>5 DEF AnswerFromReceipt, Receipt
  <2> QED  BY <1>3, <2>1, <2>2, <2>3, <2>4, <2>5 DEF EraseStep
<1>4. ASSUME NEW d \in Deletion, DeletionStep(d) PROVE ErasedStaysGone'
  <2> USE DEF Goto, Return, Request
  <2>1. CASE AskWithSession(d)  BY <2>1 DEF AskWithSession
  <2>2. CASE ReadForDeletion(d)  BY <2>2 DEF ReadForDeletion
  <2>3. CASE DeletionRefused(d)  BY <2>3 DEF DeletionRefused
  <2>4. CASE RevokeReused(d)  BY <2>4 DEF RevokeReused
  <2> QED  BY <1>4, <1>3, <2>1, <2>2, <2>3, <2>4 DEF DeletionStep
<1>5. ASSUME NEW d \in Confirmation, ConfirmationStep(d) PROVE ErasedStaysGone'
  <2> USE DEF Goto, Return, Request
  <2>1. CASE AskWithCode(d)  BY <2>1 DEF AskWithCode
  <2>2. CASE ReadCode(d)  BY <2>2 DEF ReadCode
  <2>3. CASE CodeRefused(d)  BY <2>3 DEF CodeRefused
  <2> QED  BY <1>5, <1>3, <2>1, <2>2, <2>3 DEF ConfirmationStep
<1>6. ASSUME NEW k \in Challenge, SaveOtp(k) \/ DeleteOtp(k) PROVE ErasedStaysGone'
  <2>1. CASE SaveOtp(k)  BY <2>1 DEF SaveOtp
  <2>2. CASE DeleteOtp(k)  BY <2>2 DEF DeleteOtp
  <2> QED  BY <1>6, <2>1, <2>2 DEF Challenge
<1>7. ASSUME NEW x \in SignIn \cup Challenge, Expire(x) PROVE ErasedStaysGone'  BY <1>7
     DEF Expire
<1>8. CASE Tick  BY <1>8 DEF Tick
<1>9. CASE UNCHANGED vars  BY <1>9 DEF vars
<1> QED  BY <1>1, <1>2, <1>3, <1>4, <1>5, <1>6, <1>7, <1>8, <1>9 DEF Next

\* What erased before is gone, so it does not pass the check again.
LEMMA OnceStep == ErasureInv /\ [Next]_vars => OneErasurePerCredential'
<1> SUFFICES ASSUME ErasureInv, [Next]_vars PROVE OneErasurePerCredential'
  OBVIOUS
<1>0. TypeOK /\ RequestsAreNamed /\ ReceiptsMatchErasures /\ ErasedStaysGone /\
     OneErasurePerCredential  BY DEF ErasureInv
<1> USE <1>0, ErasureAssumption DEF TypeOK, RequestsAreNamed, ReceiptsMatchErasures,
     ErasedStaysGone, OneErasurePerCredential, Challenge, store, signIns, requests,
     refreshes
<1>1. ASSUME NEW s \in SignIn, SignInStep(s) \/ RevokeSession(s) PROVE
     OneErasurePerCredential'
  <2> USE DEF To
  <2>1. CASE Begin(s)  BY <2>1 DEF Begin
  <2>2. CASE Get(s)  BY <2>2 DEF Get
  <2>3. CASE Consume(s)  BY <2>3 DEF Consume
  <2>4. CASE ConsumeRefused(s)  BY <2>4 DEF ConsumeRefused
  <2>5. CASE SaveSession(s)  BY <2>5 DEF SaveSession, Fenced
  <2>6. CASE SaveRefused(s)  BY <2>6 DEF SaveRefused
  <2>7. CASE RevokeSession(s)  BY <2>7 DEF RevokeSession
  <2> QED  BY <1>1, <2>1, <2>2, <2>3, <2>4, <2>5, <2>6, <2>7 DEF SignInStep
<1>2. ASSUME NEW f \in Refresh, RefreshStep(f) PROVE OneErasurePerCredential'
  <2>1. CASE ReadSession(f)  BY <2>1 DEF ReadSession
  <2>2. CASE ReplaceSession(f)  BY <2>2 DEF ReplaceSession, Swappable
  <2>3. CASE SwapRefused(f)  BY <2>3 DEF SwapRefused
  <2> QED  BY <1>2, <2>1, <2>2, <2>3 DEF RefreshStep
<1>3. ASSUME NEW d \in Request, EraseStep(d) PROVE OneErasurePerCredential'
  <2> USE DEF Goto, Return, Request
  <2>1. CASE ReadClock(d)  BY <2>1 DEF ReadClock
  <2>2. CASE EraseSubscriber(d)  BY <2>2 DEF EraseSubscriber, Erasable, Erase
  <2>3. CASE EraseConflict(d)  BY <2>3 DEF EraseConflict, Erasable
  <2>4. CASE StoreFails(d)  BY <2>4 DEF StoreFails
  <2>5. CASE AnswerFromReceipt(d)  BY <2>5 DEF AnswerFromReceipt, Receipt
  <2> QED  BY <1>3, <2>1, <2>2, <2>3, <2>4, <2>5 DEF EraseStep
<1>4. ASSUME NEW d \in Deletion, DeletionStep(d) PROVE OneErasurePerCredential'
  <2> USE DEF Goto, Return, Request
  <2>1. CASE AskWithSession(d)  BY <2>1 DEF AskWithSession
  <2>2. CASE ReadForDeletion(d)  BY <2>2 DEF ReadForDeletion
  <2>3. CASE DeletionRefused(d)  BY <2>3 DEF DeletionRefused
  <2>4. CASE RevokeReused(d)  BY <2>4 DEF RevokeReused
  <2> QED  BY <1>4, <1>3, <2>1, <2>2, <2>3, <2>4 DEF DeletionStep
<1>5. ASSUME NEW d \in Confirmation, ConfirmationStep(d) PROVE OneErasurePerCredential'
  <2> USE DEF Goto, Return, Request
  <2>1. CASE AskWithCode(d)  BY <2>1 DEF AskWithCode
  <2>2. CASE ReadCode(d)  BY <2>2 DEF ReadCode
  <2>3. CASE CodeRefused(d)  BY <2>3 DEF CodeRefused
  <2> QED  BY <1>5, <1>3, <2>1, <2>2, <2>3 DEF ConfirmationStep
<1>6. ASSUME NEW k \in Challenge, SaveOtp(k) \/ DeleteOtp(k) PROVE OneErasurePerCredential'
  <2>1. CASE SaveOtp(k)  BY <2>1 DEF SaveOtp
  <2>2. CASE DeleteOtp(k)  BY <2>2 DEF DeleteOtp
  <2> QED  BY <1>6, <2>1, <2>2 DEF Challenge
<1>7. ASSUME NEW x \in SignIn \cup Challenge, Expire(x) PROVE OneErasurePerCredential'
     BY <1>7 DEF Expire
<1>8. CASE Tick  BY <1>8 DEF Tick
<1>9. CASE UNCHANGED vars  BY <1>9 DEF vars
<1> QED  BY <1>1, <1>2, <1>3, <1>4, <1>5, <1>6, <1>7, <1>8, <1>9 DEF Next

\* A success comes with an erasure or from the receipt of one.
LEMMA DoneStep == ErasureInv /\ [Next]_vars => DoneMeansErased'
<1> SUFFICES ASSUME ErasureInv, [Next]_vars PROVE DoneMeansErased'
  OBVIOUS
<1>0. TypeOK /\ RequestsAreNamed /\ ReceiptsMatchErasures /\ DoneMeansErased  BY DEF
     ErasureInv
<1> USE <1>0, ErasureAssumption DEF TypeOK, RequestsAreNamed, ReceiptsMatchErasures,
     DoneMeansErased, store, signIns, requests, refreshes
<1>1. ASSUME NEW s \in SignIn, SignInStep(s) \/ RevokeSession(s) PROVE DoneMeansErased'
  <2> USE DEF To
  <2>1. CASE Begin(s)  BY <2>1 DEF Begin
  <2>2. CASE Get(s)  BY <2>2 DEF Get
  <2>3. CASE Consume(s)  BY <2>3 DEF Consume
  <2>4. CASE ConsumeRefused(s)  BY <2>4 DEF ConsumeRefused
  <2>5. CASE SaveSession(s)  BY <2>5 DEF SaveSession, Fenced
  <2>6. CASE SaveRefused(s)  BY <2>6 DEF SaveRefused
  <2>7. CASE RevokeSession(s)  BY <2>7 DEF RevokeSession
  <2> QED  BY <1>1, <2>1, <2>2, <2>3, <2>4, <2>5, <2>6, <2>7 DEF SignInStep
<1>2. ASSUME NEW f \in Refresh, RefreshStep(f) PROVE DoneMeansErased'
  <2>1. CASE ReadSession(f)  BY <2>1 DEF ReadSession
  <2>2. CASE ReplaceSession(f)  BY <2>2 DEF ReplaceSession, Swappable
  <2>3. CASE SwapRefused(f)  BY <2>3 DEF SwapRefused
  <2> QED  BY <1>2, <2>1, <2>2, <2>3 DEF RefreshStep
<1>3. ASSUME NEW d \in Request, EraseStep(d) PROVE DoneMeansErased'
  <2> USE DEF Goto, Return, Request
  <2>1. CASE ReadClock(d)  BY <2>1 DEF ReadClock
  <2>2. CASE EraseSubscriber(d)
    <3>1. PICK e : e = [by |-> d, of |-> of[d], at |-> requestedAt[d]]  OBVIOUS
    <3>2. erasures' = erasures \cup {e} /\ e.of = of[d] /\ of' = of
      BY <2>2, <3>1 DEF EraseSubscriber, Erase
    <3>3. \A g \in Request \ {d} : answer'[g] = answer[g]
      BY <2>2 DEF EraseSubscriber
    <3> QED  BY <3>2, <3>3
  <2>3. CASE EraseConflict(d)  BY <2>3 DEF EraseConflict, Erasable
  <2>4. CASE StoreFails(d)  BY <2>4 DEF StoreFails
  <2>5. CASE AnswerFromReceipt(d)  BY <2>5 DEF AnswerFromReceipt, Receipt
  <2> QED  BY <1>3, <2>1, <2>2, <2>3, <2>4, <2>5 DEF EraseStep
<1>4. ASSUME NEW d \in Deletion, DeletionStep(d) PROVE DoneMeansErased'
  <2> USE DEF Goto, Return, Request
  <2>1. CASE AskWithSession(d)  BY <2>1 DEF AskWithSession
  <2>2. CASE ReadForDeletion(d)  BY <2>2 DEF ReadForDeletion
  <2>3. CASE DeletionRefused(d)  BY <2>3 DEF DeletionRefused
  <2>4. CASE RevokeReused(d)  BY <2>4 DEF RevokeReused
  <2> QED  BY <1>4, <1>3, <2>1, <2>2, <2>3, <2>4 DEF DeletionStep
<1>5. ASSUME NEW d \in Confirmation, ConfirmationStep(d) PROVE DoneMeansErased'
  <2> USE DEF Goto, Return, Request
  <2>1. CASE AskWithCode(d)  BY <2>1 DEF AskWithCode
  <2>2. CASE ReadCode(d)  BY <2>2 DEF ReadCode
  <2>3. CASE CodeRefused(d)  BY <2>3 DEF CodeRefused
  <2> QED  BY <1>5, <1>3, <2>1, <2>2, <2>3 DEF ConfirmationStep
<1>6. ASSUME NEW k \in Challenge, SaveOtp(k) \/ DeleteOtp(k) PROVE DoneMeansErased'
  <2>1. CASE SaveOtp(k)  BY <2>1 DEF SaveOtp
  <2>2. CASE DeleteOtp(k)  BY <2>2 DEF DeleteOtp
  <2> QED  BY <1>6, <2>1, <2>2 DEF Challenge
<1>7. ASSUME NEW x \in SignIn \cup Challenge, Expire(x) PROVE DoneMeansErased'  BY <1>7
     DEF Expire
<1>8. CASE Tick  BY <1>8 DEF Tick
<1>9. CASE UNCHANGED vars  BY <1>9 DEF vars
<1> QED  BY <1>1, <1>2, <1>3, <1>4, <1>5, <1>6, <1>7, <1>8, <1>9 DEF Next

-----------------------------------------------------------------------------
\* The invariant: receipts, erasures and sessions agree.
THEOREM ErasureInvariant == Spec => []ErasureInv
<1>1. ErasureInv /\ [Next]_vars => ErasureInv'
  BY TypeStep, SavedStep, NamesStep, ReceiptsStep, FenceStep, GoneStep, OnceStep, DoneStep
  DEF ErasureInv
<1> QED  BY <1>1, ErasureInit, PTL DEF Spec

\* The fence: no session of a sign-in that began at or before an erasure's
\* RequestedAt is in the store.
THEOREM FenceKeepsErasedAccountsEmpty == Spec => []FenceHolds
<1>1. ErasureInv => FenceHolds  BY DEF ErasureInv
<1> QED  BY <1>1, ErasureInvariant, PTL

\* An erased session never comes back.
THEOREM ErasureIsFinal == Spec => []ErasedStaysGone
<1>1. ErasureInv => ErasedStaysGone  BY DEF ErasureInv
<1> QED  BY <1>1, ErasureInvariant, PTL

\* No session and no code erases the account twice.
THEOREM CredentialsEraseOnce == Spec => []OneErasurePerCredential
<1>1. ErasureInv => OneErasurePerCredential  BY DEF ErasureInv
<1> QED  BY <1>1, ErasureInvariant, PTL

\* A deletion answered as done was done.
THEOREM SuccessIsTrue == Spec => []DoneMeansErased
<1>1. ErasureInv => DoneMeansErased  BY DEF ErasureInv
<1> QED  BY <1>1, ErasureInvariant, PTL

-----------------------------------------------------------------------------
\* Only EraseSubscriber records an erasure.
LEMMA ErasuresAreRequested ==
  ASSUME [Next]_vars, erasures' # erasures
  PROVE  \E d \in Request : EraseSubscriber(d)
<1> USE DEF store
<1>1. ASSUME NEW s \in SignIn, SignInStep(s) \/ RevokeSession(s) PROVE FALSE
  BY <1>1 DEF SignInStep, Begin, Get, Consume, ConsumeRefused, SaveSession, SaveRefused,
              RevokeSession
<1>2. ASSUME NEW f \in Refresh, RefreshStep(f) PROVE FALSE
  BY <1>2 DEF RefreshStep, ReadSession, ReplaceSession, SwapRefused
<1>3. ASSUME NEW d, EraseStep(d), ~EraseSubscriber(d) PROVE FALSE
  BY <1>3 DEF EraseStep, ReadClock, EraseConflict, StoreFails, AnswerFromReceipt
<1>4. ASSUME NEW d \in Deletion, DeletionStep(d) PROVE EraseSubscriber(d)
  BY <1>4, <1>3 DEF DeletionStep, AskWithSession, ReadForDeletion, DeletionRefused, RevokeReused
<1>5. ASSUME NEW d \in Confirmation, ConfirmationStep(d) PROVE EraseSubscriber(d)
  BY <1>5, <1>3 DEF ConfirmationStep, AskWithCode, ReadCode, CodeRefused
<1>6. ~\E k \in Challenge : SaveOtp(k) \/ DeleteOtp(k)  BY DEF SaveOtp, DeleteOtp
<1>7. ~\E x \in SignIn \cup Challenge : Expire(x)  BY DEF Expire
<1>8. ~Tick /\ ~UNCHANGED vars  BY DEF Tick, vars
<1> QED  BY <1>1, <1>2, <1>4, <1>5, <1>6, <1>7, <1>8 DEF Next, Request

\* An erasure with a session is by its current token, and it is not revoked.
THEOREM CurrentTokensErase == Spec => OnlyTheCurrentTokenErases
<1>1. ErasureInv /\ [Next]_vars =>
        [\A e \in erasures' \ erasures :
           e.by \in Deletion => /\ e.of \in sessions \ revoked
                                /\ presented[e.by] = token[e.of]]_vars
  <2> SUFFICES ASSUME ErasureInv, [Next]_vars, NEW e \in erasures' \ erasures,
                      e.by \in Deletion
               PROVE  e.of \in sessions \ revoked /\ presented[e.by] = token[e.of]
    OBVIOUS
  <2>1. PICK d \in Request : EraseSubscriber(d)  BY ErasuresAreRequested
  <2>2. e.by = d /\ e.of = of[d]  BY <2>1 DEF EraseSubscriber, Erase
  <2> QED  BY <2>1, <2>2 DEF EraseSubscriber, Erasable
<1> QED  BY <1>1, ErasureInvariant, PTL DEF Spec, OnlyTheCurrentTokenErases

-----------------------------------------------------------------------------
\* What a deletion learns of a session lasts: its key does not change, its token
\* only grows, and nothing of an erased session is touched any more.
LEMMA SessionsLast ==
  ASSUME ErasureInv, [Next]_vars, NEW s \in sessions \cup erased
  PROVE  /\ s \in (sessions \cup erased)'
         /\ token'[s] >= token[s] /\ bound'[s] = bound[s]
         /\ s \in revoked \cup expired => s \in (revoked \cup expired)'
         /\ s \in erased => /\ s \in erased' /\ token'[s] = token[s]
                            /\ s \in revoked' => s \in revoked
                            /\ s \in receipts' => s \in receipts
<1> DEFINE Lasts == /\ s \in (sessions \cup erased)'
                    /\ token'[s] >= token[s] /\ bound'[s] = bound[s]
                    /\ s \in revoked \cup expired => s \in (revoked \cup expired)'
                    /\ s \in erased => /\ s \in erased' /\ token'[s] = token[s]
                                       /\ s \in revoked' => s \in revoked
                                       /\ s \in receipts' => s \in receipts
<1>0. /\ TypeOK /\ SavedOnce /\ RequestsAreNamed /\ ErasedStaysGone /\ s \in SignIn
      /\ step[s] = "done" /\ token[s] \in Nat
  BY DEF ErasureInv, TypeOK, SavedOnce
<1> USE <1>0, ErasureAssumption DEF TypeOK, store, signIns, requests, refreshes, ErasedStaysGone
<1>1. ASSUME NEW r \in SignIn, SignInStep(r) \/ RevokeSession(r) PROVE Lasts
  <2>1. CASE SaveSession(r)  BY <2>1 DEF SaveSession
  <2>2. CASE RevokeSession(r)  BY <2>2 DEF RevokeSession
  <2> QED  BY <1>1, <2>1, <2>2
       DEF SignInStep, Begin, Get, Consume, ConsumeRefused, SaveRefused
<1>2. ASSUME NEW f \in Refresh, RefreshStep(f) PROVE Lasts
  <2>1. CASE ReplaceSession(f)
    <3>1. rof[f] = s => token'[s] = token[s] + 1  BY <2>1 DEF ReplaceSession, Swappable
    <3>2. rof[f] # s => token'[s] = token[s]  BY <2>1 DEF ReplaceSession
    <3>3. rof[f] = s => s \notin erased  BY <2>1 DEF ReplaceSession, Swappable
    <3> QED  BY <2>1, <3>1, <3>2, <3>3 DEF ReplaceSession
  <2> QED  BY <1>2, <2>1 DEF RefreshStep, ReadSession, SwapRefused
<1>3. ASSUME NEW d \in Request, EraseStep(d) PROVE Lasts
  <2>1. CASE EraseSubscriber(d)
    <3>1. of[d] \in sessions \cup Challenge
      BY <2>1 DEF EraseSubscriber, Erasable, Challenge
    <3> QED  BY <2>1, <3>1 DEF EraseSubscriber, Erase
  <2> QED  BY <1>3, <2>1
       DEF EraseStep, ReadClock, EraseConflict, StoreFails, AnswerFromReceipt
<1>4. ASSUME NEW d \in Deletion, DeletionStep(d) PROVE Lasts
  BY <1>3, <1>4 DEF DeletionStep, AskWithSession, ReadForDeletion, DeletionRefused, RevokeReused,
                    Request
<1>5. ASSUME NEW d \in Confirmation, ConfirmationStep(d) PROVE Lasts
  BY <1>3, <1>5 DEF ConfirmationStep, AskWithCode, ReadCode, CodeRefused, Request
<1>6. ASSUME NEW k \in Challenge, SaveOtp(k) \/ DeleteOtp(k) PROVE Lasts
  BY <1>6 DEF SaveOtp, DeleteOtp
<1>7. ASSUME NEW x \in SignIn \cup Challenge, Expire(x) PROVE Lasts  BY <1>7 DEF Expire
<1>8. CASE Tick \/ UNCHANGED vars  BY <1>8 DEF Tick, vars
<1> QED  BY <1>1, <1>2, <1>4, <1>5, <1>6, <1>7, <1>8 DEF Next

\* A deletion's own variables change with its own steps.
Keeps(d) ==
  /\ dstep'[d] = dstep[d] /\ of'[d] = of[d] /\ presented'[d] = presented[d]
  /\ proof'[d] = proof[d] /\ answer'[d] = answer[d]

LEMMA DeletionsAreTheirOwn ==
  ASSUME ErasureInv, [Next]_vars, NEW d \in Deletion, ~DeletionStep(d)
  PROVE  Keeps(d)
<1>0. TypeOK /\ d \in Request  BY DEF ErasureInv, Request
<1> USE <1>0 DEF TypeOK, Keeps, requests, Goto, Return
<1>1. ASSUME NEW s \in SignIn, SignInStep(s) \/ RevokeSession(s) PROVE Keeps(d)
  BY <1>1 DEF SignInStep, Begin, Get, Consume, ConsumeRefused, SaveSession, SaveRefused,
              RevokeSession
<1>2. ASSUME NEW f \in Refresh, RefreshStep(f) PROVE Keeps(d)
  BY <1>2 DEF RefreshStep, ReadSession, ReplaceSession, SwapRefused
<1>3. ASSUME NEW c \in Request, c # d, EraseStep(c) PROVE Keeps(d)
  <2>1. CASE ReadClock(c)  BY <1>3, <2>1 DEF ReadClock
  <2>2. CASE EraseSubscriber(c)  BY <1>3, <2>2 DEF EraseSubscriber
  <2>3. CASE EraseConflict(c)  BY <1>3, <2>3 DEF EraseConflict
  <2>4. CASE StoreFails(c)  BY <1>3, <2>4 DEF StoreFails
  <2>5. CASE AnswerFromReceipt(c)  BY <1>3, <2>5 DEF AnswerFromReceipt
  <2> QED  BY <1>3, <2>1, <2>2, <2>3, <2>4, <2>5 DEF EraseStep
<1>4. ASSUME NEW c \in Deletion, c # d, DeletionStep(c) PROVE Keeps(d)
  <2>1. CASE AskWithSession(c)  BY <1>4, <2>1 DEF AskWithSession
  <2>2. CASE ReadForDeletion(c)  BY <1>4, <2>2 DEF ReadForDeletion
  <2>3. CASE DeletionRefused(c)  BY <1>4, <2>3 DEF DeletionRefused
  <2>4. CASE RevokeReused(c)  BY <1>4, <2>4 DEF RevokeReused
  <2> QED  BY <1>3, <1>4, <2>1, <2>2, <2>3, <2>4 DEF DeletionStep, Request
<1>5. ASSUME NEW c \in Confirmation, ConfirmationStep(c) PROVE Keeps(d)
  <2>0. c # d  BY ErasureAssumption
  <2>1. CASE AskWithCode(c)  BY <2>0, <2>1 DEF AskWithCode
  <2>2. CASE ReadCode(c)  BY <2>0, <2>2 DEF ReadCode
  <2>3. CASE CodeRefused(c)  BY <2>0, <2>3 DEF CodeRefused
  <2> QED  BY <1>3, <1>5, <2>0, <2>1, <2>2, <2>3 DEF ConfirmationStep, Request
<1>6. ASSUME NEW k \in Challenge, SaveOtp(k) \/ DeleteOtp(k) PROVE Keeps(d)
  BY <1>6 DEF SaveOtp, DeleteOtp
<1>7. ASSUME NEW x \in SignIn \cup Challenge, Expire(x) PROVE Keeps(d)  BY <1>7 DEF Expire
<1>8. CASE Tick \/ UNCHANGED vars  BY <1>8 DEF Tick, vars
<1> QED  BY <1>1, <1>2, <1>4, <1>5, <1>6, <1>7, <1>8 DEF Next

\* What a deletion knows of its session when it is asked, reads it, and loses it.
LEMMA KnowledgeStep ==
  ErasureInv /\ DeletionsKnowTheirSession /\ [Next]_vars => DeletionsKnowTheirSession'
<1> SUFFICES ASSUME ErasureInv, DeletionsKnowTheirSession, [Next]_vars, NEW d \in Deletion
    PROVE  /\ dstep'[d] # "idle" => /\ of'[d] \in (sessions \cup erased)'
                                    /\ presented'[d] <= token'[of'[d]]
           /\ dstep'[d] = "revoke" => Superseded(d)'
           /\ dstep'[d] \in {"proof", "erase"} => bound'[of'[d]]
           /\ dstep'[d] = "receipt" => of'[d] \in erased' \/ Unusable(d)'
  BY DEF DeletionsKnowTheirSession
<1>0. TypeOK /\ d \in Request /\ presented[d] \in Nat /\ sessions \cup erased \subseteq SignIn
  BY DEF ErasureInv, TypeOK, Request
<1>1. \A s \in SignIn : token[s] \in Nat /\ token'[s] \in Nat
  BY TypeStep DEF ErasureInv, TypeOK
<1>2. dstep[d] # "idle" => of[d] \in sessions \cup erased /\ presented[d] <= token[of[d]]
  BY DEF DeletionsKnowTheirSession
<1>3. /\ dstep[d] = "revoke" => Superseded(d)
      /\ dstep[d] \in {"proof", "erase"} => bound[of[d]]
      /\ dstep[d] = "receipt" => of[d] \in erased \/ Unusable(d)
  BY DEF DeletionsKnowTheirSession
<1>4. CASE Keeps(d)
  <2>1. CASE dstep[d] = "idle"  BY <1>4, <2>1 DEF Keeps
  <2>2. CASE dstep[d] # "idle"
    <3>1. of[d] \in sessions \cup erased /\ presented[d] <= token[of[d]]  BY <1>2, <2>2
    <3>2. /\ of[d] \in (sessions \cup erased)'
          /\ token'[of[d]] >= token[of[d]] /\ bound'[of[d]] = bound[of[d]]
          /\ of[d] \in revoked \cup expired => of[d] \in (revoked \cup expired)'
          /\ of[d] \in erased => of[d] \in erased'
      BY <3>1, SessionsLast
    <3>3. presented[d] <= token'[of[d]] /\ (Superseded(d) => presented[d] < token'[of[d]])
      BY <1>0, <1>1, <3>1, <3>2 DEF Superseded
    <3>4. /\ dstep'[d] = dstep[d] /\ of'[d] = of[d] /\ presented'[d] = presented[d]
      BY <1>4 DEF Keeps
    <3> QED  BY <1>3, <3>1, <3>2, <3>3, <3>4 DEF Superseded, Unusable
  <2> QED  BY <2>1, <2>2
<1>5. CASE DeletionStep(d)
  <2> USE <1>0 DEF TypeOK, Goto, Return, requests, store
  <2>1. CASE AskWithSession(d)
    <3>0. PICK s \in sessions \cup erased :
            /\ of' = [of EXCEPT ![d] = s]
            /\ \E t \in 0 .. token[s] : presented' = [presented EXCEPT ![d] = t]
      BY <2>1 DEF AskWithSession
    <3>1. PICK t \in 0 .. token[s] : presented' = [presented EXCEPT ![d] = t]
      BY <3>0
    <3>2. /\ of'[d] = s /\ presented'[d] = t /\ t <= token[s] /\ dstep'[d] = "get"
          /\ UNCHANGED <<sessions, erased, token>>
      BY <1>1, <2>1, <3>0, <3>1 DEF AskWithSession
    <3> QED  BY <3>0, <3>2
  <2>2. CASE ReadForDeletion(d)
    <3>1. /\ of' = of /\ presented' = presented
          /\ UNCHANGED <<sessions, erased, token, bound, revoked, expired>>
      BY <2>2 DEF ReadForDeletion
    <3>2. of[d] \in sessions \cup erased /\ presented[d] <= token[of[d]]
      BY <1>2, <2>2 DEF ReadForDeletion
    <3>3. dstep'[d] = "receipt" => of[d] \in erased  BY <2>2, <3>2 DEF ReadForDeletion
    <3>4. dstep'[d] = "revoke" => presented[d] # token[of[d]]  BY <2>2 DEF ReadForDeletion
    <3>5. dstep'[d] = "proof" => bound[of[d]]  BY <2>2 DEF ReadForDeletion
    <3>6. dstep'[d] \in {"receipt", "revoke", "proof"}  BY <2>2 DEF ReadForDeletion
    <3>7. dstep'[d] = "revoke" => presented[d] < token[of[d]]
      BY <1>0, <1>1, <3>2, <3>4
    <3> QED  BY <3>1, <3>2, <3>3, <3>5, <3>6, <3>7 DEF Superseded
  <2>3. CASE DeletionRefused(d) \/ RevokeReused(d) \/ StoreFails(d) \/ AnswerFromReceipt(d)
             \/ EraseSubscriber(d)
    <3>1. /\ dstep'[d] = "done" /\ dstep[d] # "idle" /\ of' = of /\ presented' = presented
      BY <2>3 DEF DeletionRefused, RevokeReused, StoreFails, AnswerFromReceipt, EraseSubscriber
    <3>2. of[d] \in (sessions \cup erased)' /\ token'[of[d]] >= token[of[d]]
      BY <1>2, <3>1, SessionsLast
    <3> QED  BY <1>0, <1>1, <1>2, <3>1, <3>2
  <2>4. CASE ReadClock(d)  BY <1>2, <1>3, <2>4 DEF ReadClock
  <2>5. CASE EraseConflict(d)
    <3>1. /\ of' = of /\ presented' = presented /\ dstep'[d] = "receipt"
          /\ UNCHANGED <<sessions, erased, token, revoked, expired>> /\ ~Erasable(d)
      BY <2>5 DEF EraseConflict
    <3>2. of[d] \in sessions \cup erased /\ presented[d] <= token[of[d]]
      BY <1>2, <2>5 DEF EraseConflict
    <3>3. of[d] \in erased \/ of[d] \in revoked \cup expired \/ token[of[d]] # presented[d]
      BY <3>1, <3>2 DEF Erasable
    <3>4. of[d] \in erased \/ Unusable(d)
      BY <1>0, <1>1, <3>2, <3>3 DEF Unusable, Superseded
    <3> QED  BY <3>1, <3>2, <3>4 DEF Unusable, Superseded
  <2> QED  BY <1>5, <2>1, <2>2, <2>3, <2>4, <2>5 DEF DeletionStep, EraseStep
<1> QED  BY <1>4, <1>5, DeletionsAreTheirOwn

\* An erasure is recorded with its session's current token, of an enrolled
\* session that is not revoked, and that session is then gone.
LEMMA RightStep ==
  /\ ErasureInv /\ DeletionsKnowTheirSession /\ ErasuresWereRight /\ ErasuresKeepTheirKind
  /\ [Next]_vars
  => ErasuresWereRight' /\ ErasuresKeepTheirKind'
<1> SUFFICES ASSUME ErasureInv, DeletionsKnowTheirSession, ErasuresWereRight,
                    ErasuresKeepTheirKind, [Next]_vars, NEW e \in erasures'
    PROVE  /\ e.of \in SignIn <=> e.by \in Deletion
           /\ e.by \in Deletion => /\ dstep'[e.by] = "done" /\ presented'[e.by] = token'[e.of]
                                   /\ bound'[e.of] /\ e.of \notin revoked'
  BY DEF ErasuresWereRight, ErasuresKeepTheirKind
<1>0. /\ TypeOK /\ RequestsAreNamed /\ ReceiptsMatchErasures /\ ErasedStaysGone
  BY DEF ErasureInv
<1>1. CASE e \in erasures
  <2>1. e.of \in SignIn <=> e.by \in Deletion  BY <1>1 DEF ErasuresKeepTheirKind
  <2>2. ASSUME e.by \in Deletion
        PROVE  /\ dstep'[e.by] = "done" /\ presented'[e.by] = token'[e.of]
               /\ bound'[e.of] /\ e.of \notin revoked'
    <3>1. /\ dstep[e.by] = "done" /\ presented[e.by] = token[e.of]
          /\ bound[e.of] /\ e.of \notin revoked
      BY <1>1, <2>2 DEF ErasuresWereRight
    <3>2. ~DeletionStep(e.by)
      BY <3>1 DEF DeletionStep, EraseStep, AskWithSession, ReadForDeletion, DeletionRefused,
         RevokeReused, ReadClock, EraseSubscriber, EraseConflict, StoreFails, AnswerFromReceipt
    <3>3. dstep'[e.by] = dstep[e.by] /\ presented'[e.by] = presented[e.by]
      BY <2>2, <3>2, DeletionsAreTheirOwn DEF Keeps
    <3>4. e.of \in receipts  BY <1>0, <1>1 DEF ReceiptsMatchErasures
    <3>5. e.of \in erased  BY <1>0, <2>1, <2>2, <3>4 DEF ReceiptsMatchErasures
    <3> QED  BY <3>1, <3>3, <3>5, SessionsLast
  <2> QED  BY <2>1, <2>2
<1>2. CASE e \notin erasures
  <2>1. PICK d \in Request : EraseSubscriber(d)  BY <1>2, ErasuresAreRequested
  <2>2. e.by = d /\ e.of = of[d]  BY <1>2, <2>1 DEF EraseSubscriber, Erase
  <2>3. dstep[d] = "erase" /\ Erasable(d)  BY <2>1 DEF EraseSubscriber
  <2>4. CASE d \in Deletion
    <3>1. of[d] \in sessions \ revoked /\ token[of[d]] = presented[d]
      BY <2>3, <2>4 DEF Erasable
    <3>2. bound[of[d]]  BY <2>3, <2>4 DEF DeletionsKnowTheirSession
    <3>3. dstep'[d] = "done" /\ UNCHANGED <<token, bound, revoked, presented>>
      BY <1>0, <2>1 DEF EraseSubscriber, Erase, Return, Goto, TypeOK
    <3>4. of[d] \in SignIn  BY <1>0, <3>1 DEF TypeOK
    <3> QED  BY <2>2, <2>4, <3>1, <3>2, <3>3, <3>4
  <2>5. CASE d \in Confirmation
    <3>1. of[d] \in Challenge  BY <1>0, <2>3, <2>5 DEF RequestsAreNamed
    <3> QED  BY <2>2, <2>5, <3>1, ErasureAssumption
  <2> QED  BY <2>4, <2>5 DEF Request
<1> QED  BY <1>1, <1>2

\* A deletion is refused for what it carried, or for what became of its session
\* before it could erase.
LEMMA RefusalStep ==
  ErasureInv /\ DeletionsKnowTheirSession /\ RefusalsHaveReasons /\ [Next]_vars
    => RefusalsHaveReasons'
<1> SUFFICES ASSUME ErasureInv, DeletionsKnowTheirSession, RefusalsHaveReasons, [Next]_vars,
                    NEW d \in Deletion, answer'[d] = "refused", proof'[d]
    PROVE  Unusable(d)' \/ ~bound'[of'[d]] \/ of'[d] \in erased' \ receipts'
  BY DEF RefusalsHaveReasons
<1>0. /\ TypeOK /\ RequestsAreNamed /\ d \in Request /\ presented[d] \in Nat
      /\ sessions \cup erased \subseteq SignIn
  BY DEF ErasureInv, TypeOK, Request
<1>1. \A s \in SignIn : token[s] \in Nat /\ token'[s] \in Nat
  BY TypeStep DEF ErasureInv, TypeOK
<1>2. /\ dstep[d] # "idle" => of[d] \in sessions \cup erased /\ presented[d] <= token[of[d]]
      /\ dstep[d] = "revoke" => Superseded(d)
      /\ dstep[d] = "receipt" => of[d] \in erased \/ Unusable(d)
  BY DEF DeletionsKnowTheirSession
<1> DEFINE Reason == Unusable(d) \/ ~bound[of[d]] \/ of[d] \in erased \ receipts
<1>3. ASSUME Reason, dstep[d] # "idle", of'[d] = of[d], presented'[d] = presented[d]
      PROVE  Unusable(d)' \/ ~bound'[of'[d]] \/ of'[d] \in erased' \ receipts'
  <2>1. of[d] \in sessions \cup erased  BY <1>2, <1>3
  <2>2. /\ token'[of[d]] >= token[of[d]] /\ bound'[of[d]] = bound[of[d]]
        /\ of[d] \in revoked \cup expired => of[d] \in (revoked \cup expired)'
        /\ of[d] \in erased => of[d] \in erased' /\ (of[d] \in receipts' => of[d] \in receipts)
    BY <2>1, SessionsLast
  <2>3. Superseded(d) => presented[d] < token'[of[d]]
    BY <1>0, <1>1, <2>1, <2>2 DEF Superseded
  <2> QED  BY <1>3, <2>2, <2>3 DEF Unusable, Superseded
<1>4. CASE Keeps(d)
  <2>1. answer[d] = "refused" /\ proof[d] /\ of'[d] = of[d] /\ presented'[d] = presented[d]
    BY <1>4 DEF Keeps
  <2>2. dstep[d] = "done"  BY <1>0, <2>1 DEF RequestsAreNamed
  <2>3. Reason  BY <2>1 DEF RefusalsHaveReasons
  <2> HIDE DEF Reason
  <2> QED  BY <1>3, <2>1, <2>2, <2>3
<1>5. CASE DeletionStep(d)
  <2> USE <1>0 DEF TypeOK, Goto, Return, requests
  <2>1. CASE AskWithSession(d) \/ ReadForDeletion(d) \/ ReadClock(d) \/ EraseConflict(d)
    BY <2>1 DEF AskWithSession, ReadForDeletion, ReadClock, EraseConflict, RequestsAreNamed
  <2>2. CASE EraseSubscriber(d) \/ StoreFails(d)
    BY <2>2 DEF EraseSubscriber, StoreFails
  <2>3. CASE DeletionRefused(d) \/ RevokeReused(d) \/ AnswerFromReceipt(d)
    <3>1. /\ dstep[d] # "idle" /\ of' = of /\ presented' = presented /\ proof' = proof
      BY <2>3 DEF DeletionRefused, RevokeReused, AnswerFromReceipt
    <3>2. Reason
      <4>1. CASE DeletionRefused(d)  BY <3>1, <4>1 DEF DeletionRefused, Unusable
      <4>2. CASE RevokeReused(d)  BY <1>2, <4>2 DEF RevokeReused, Unusable
      <4>3. CASE AnswerFromReceipt(d)
        <5>1. ~Receipt(d)  BY <4>3 DEF AnswerFromReceipt
        <5>2. of[d] \notin receipts \/ of[d] \in expired  BY <3>1, <5>1 DEF Receipt
        <5>3. of[d] \in erased \/ Unusable(d)  BY <1>2, <4>3 DEF AnswerFromReceipt
        <5> QED  BY <5>2, <5>3 DEF Unusable
      <4> QED  BY <2>3, <4>1, <4>2, <4>3
    <3> HIDE DEF Reason
    <3> QED  BY <1>3, <3>1, <3>2
  <2> QED  BY <1>5, <2>1, <2>2, <2>3 DEF DeletionStep, EraseStep
<1> QED  BY <1>4, <1>5, DeletionsAreTheirOwn

\* The strengthening: what deletions know, why they were refused, and what the
\* erasing one carried.
THEOREM DeletionInvariant == Spec => []DeletionInv
<1>1. Init => DeletionInv
  BY ErasureAssumption
  DEF Init, DeletionInv, DeletionsKnowTheirSession, ErasuresWereRight, ErasuresKeepTheirKind,
      RefusalsHaveReasons, Request
<1>2. ErasureInv /\ DeletionInv /\ [Next]_vars => DeletionInv'
  BY KnowledgeStep, RightStep, RefusalStep DEF DeletionInv
<1> QED  BY <1>1, <1>2, ErasureInvariant, PTL DEF Spec

\* Of two deletions with one session's token and its key's proof, neither is
\* refused when the other erased the account (ErrSessionConflict, receiptAnswer).
THEOREM LosersAreAnswered == Spec => []BothDeletionsSucceed
<1>1. ErasureInv /\ DeletionInv => BothDeletionsSucceed
  <2> SUFFICES ASSUME ErasureInv, DeletionInv, NEW d \in Deletion, NEW e \in erasures,
                      e.of = of[d], presented[d] = presented[e.by], proof[d],
                      answer[d] = "refused"
               PROVE  of[d] \in expired
    BY DEF BothDeletionsSucceed
  <2>1. TypeOK /\ RequestsAreNamed /\ ReceiptsMatchErasures /\ d \in Request
    BY DEF ErasureInv, Request
  <2>2. of[d] \in SignIn  BY <2>1 DEF RequestsAreNamed
  <2>3. /\ e.by \in Deletion /\ presented[e.by] = token[e.of] /\ bound[e.of]
        /\ e.of \notin revoked
    BY <2>2 DEF DeletionInv, ErasuresWereRight, ErasuresKeepTheirKind
  <2>4. of[d] \in receipts  BY <2>1 DEF ReceiptsMatchErasures
  <2>5. Unusable(d) \/ ~bound[of[d]] \/ of[d] \in erased \ receipts
    BY DEF DeletionInv, RefusalsHaveReasons
  <2>6. ~Superseded(d)  BY <2>1, <2>2, <2>3 DEF Superseded, TypeOK
  <2> QED  BY <2>3, <2>4, <2>5, <2>6 DEF Unusable
<1> QED  BY <1>1, ErasureInvariant, DeletionInvariant, PTL
=============================================================================
