--------------------------- MODULE AccountErasure ---------------------------
(***************************************************************************)
(* Erasure of one subscriber's account, racing sign-ins, refreshes and     *)
(* other erasures (services/go/identity/internal/app/erasure.go and        *)
(* web_erasure.go, with the ErasureFence of identity.go's validateOtp and  *)
(* the stores of pgstore/erasure.go, web_erasure.go and pgstore.go).       *)
(*                                                                         *)
(* A store transaction is one step: the subscriber's advisory lock         *)
(* serialises erasures and fenced saves, and row locks serialise the       *)
(* erasure with a rotation or a revocation.  What OtpSignIn and            *)
(* RefreshRotation say of codes and tokens is reduced to what erasure sees.*)
(***************************************************************************)
EXTENDS Naturals, FiniteSets

CONSTANTS
  SignIn,        \* sign-ins; each would create one session, named after it
  SignInCode, DeletionCode,   \* challenges, by purpose
  Deletion,      \* requests to delete with a session
  Confirmation,  \* requests to delete with a code
  Refresh,       \* rotations
  MaxClock       \* bound: the last instant considered

Challenge == SignInCode \cup DeletionCode

ASSUME ErasureAssumption ==
  /\ SignInCode \cap DeletionCode = {} /\ Deletion \cap Confirmation = {}
  /\ SignIn \cap Challenge = {}
  /\ SignIn # {} /\ SignInCode # {} /\ DeletionCode # {}
  /\ MaxClock \in Nat \ {0}

VARIABLES
  clock,                        \* time.Now, in the microseconds the store keeps
  codes,                        \* stored challenges
  sessions, token, revoked, bound,   \* stored sessions
  expired,                      \* sessions and challenges past their lifetime
  receipts,                     \* sessions and challenges with a receipt
  erasures,                     \* identity_erasures
  step, target, began,          \* sign-ins
  dstep, of, presented, proof, requestedAt, answer,   \* erasure requests
  rstep, rof, read,             \* rotations
  erased, overtaken             \* history: sessions erased; sign-ins in flight
                                \* when an erasure committed

store == <<codes, sessions, token, revoked, bound, receipts, erasures, erased, overtaken>>
signIns == <<step, target, began>>
requests == <<dstep, of, presented, proof, requestedAt, answer>>
refreshes == <<rstep, rof, read>>
vars == <<clock, store, expired, signIns, requests, refreshes>>

Request == Deletion \cup Confirmation
SignInSteps == {"idle", "get", "consume", "save", "done"}
RequestSteps == {"idle", "get", "revoke", "proof", "erase", "receipt", "done"}
Answers == {"none", "ok", "refused", "storeError"}

Init ==
  /\ clock = 1
  /\ codes = {} /\ sessions = {} /\ revoked = {} /\ expired = {} /\ receipts = {}
  /\ token = [s \in SignIn |-> 0] /\ bound = [s \in SignIn |-> FALSE]
  /\ erasures = {} /\ erased = {} /\ overtaken = {}
  /\ step = [s \in SignIn |-> "idle"] /\ began = [s \in SignIn |-> 0]
  /\ target = [s \in SignIn |-> CHOOSE k \in Challenge : TRUE]
  /\ dstep = [d \in Request |-> "idle"]
  /\ of = [d \in Request |-> CHOOSE x \in SignIn \cup Challenge : TRUE]
  /\ presented = [d \in Request |-> 0] /\ proof = [d \in Request |-> FALSE]
  /\ requestedAt = [d \in Request |-> 0] /\ answer = [d \in Request |-> "none"]
  /\ rstep = [f \in Refresh |-> "idle"] /\ read = [f \in Refresh |-> 0]
  /\ rof = [f \in Refresh |-> CHOOSE s \in SignIn : TRUE]

-----------------------------------------------------------------------------
(* Sign-in                                                                 *)

To(s, p) == step' = [step EXCEPT ![s] = p]

\* RequestOtp and RequestDeletionCode: SaveOtp of a new challenge.
SaveOtp(k) ==
  /\ k \notin codes \cup expired \cup receipts
  /\ \A s \in SignIn : step[s] # "idle" => target[s] # k
  /\ \A d \in Confirmation : dstep[d] # "idle" => of[d] # k
  /\ codes' = codes \cup {k}
  /\ UNCHANGED <<clock, sessions, token, revoked, bound, receipts, erasures, erased,
                 overtaken, expired, signIns, requests, refreshes>>

\* The challenge goes by itself: exhausted, withdrawn or swept.
DeleteOtp(k) ==
  /\ k \in codes
  /\ codes' = codes \ {k}
  /\ UNCHANGED <<clock, sessions, token, revoked, bound, receipts, erasures, erased,
                 overtaken, expired, signIns, requests, refreshes>>

\* validateOtp reads its fence before anything else.
Begin(s) ==
  /\ step[s] = "idle"
  /\ \E k \in codes : target' = [target EXCEPT ![s] = k]
  /\ began' = [began EXCEPT ![s] = clock]
  /\ To(s, "get")
  /\ UNCHANGED <<clock, store, expired, requests, refreshes>>

\* GetOtp: a sign-in code that checks goes on; anything else ends the call.
Get(s) ==
  /\ step[s] = "get"
  /\ \/ target[s] \in codes \cap SignInCode /\ target[s] \notin expired /\ To(s, "consume")
     \/ To(s, "done")
  /\ UNCHANGED <<clock, store, expired, target, began, requests, refreshes>>

\* ConsumeOtp, and nothing to sign in with when it is gone.
Consume(s) ==
  /\ step[s] = "consume" /\ target[s] \in codes
  /\ codes' = codes \ {target[s]}
  /\ To(s, "save") \/ To(s, "done")
  /\ UNCHANGED <<clock, sessions, token, revoked, bound, receipts, erasures, erased,
                 overtaken, expired, target, began, requests, refreshes>>

ConsumeRefused(s) ==
  /\ step[s] = "consume"
  /\ To(s, "done")
  /\ UNCHANGED <<clock, store, expired, target, began, requests, refreshes>>

\* MUTANT of Fenced: an erasure at the very instant of the fence is missed.
MutFenced(s) == \E e \in erasures : e.at > began[s]

\* The fence: an erasure requested since the sign-in began.
Fenced(s) == \E e \in erasures : e.at >= began[s]

\* SaveSession, with or without a device key, under the erasure lock; the
\* commit may go unacknowledged, but the session then is there all the same.
SaveSession(s) ==
  /\ step[s] = "save" /\ ~Fenced(s)
  /\ sessions' = sessions \cup {s}
  /\ \E b \in BOOLEAN : bound' = [bound EXCEPT ![s] = b]
  /\ To(s, "done")
  /\ UNCHANGED <<clock, codes, token, revoked, receipts, erasures, erased, overtaken,
                 expired, target, began, requests, refreshes>>

SaveRefused(s) ==
  /\ step[s] = "save"
  /\ To(s, "done")
  /\ UNCHANGED <<clock, store, expired, target, began, requests, refreshes>>

-----------------------------------------------------------------------------
(* Refresh and revocation                                                  *)

\* RefreshToken reads the session ...
ReadSession(f) ==
  /\ rstep[f] = "idle"
  /\ \E s \in sessions \ (revoked \cup expired) :
       rof' = [rof EXCEPT ![f] = s] /\ read' = [read EXCEPT ![f] = token[s]]
  /\ rstep' = [rstep EXCEPT ![f] = "swap"]
  /\ UNCHANGED <<clock, store, expired, signIns, requests>>

\* MUTANT of Swappable: the row is written whether or not it is still there.
MutSwappable(f) == rof[f] \notin revoked /\ token[rof[f]] = read[f]

Swappable(f) == rof[f] \in sessions \ revoked /\ token[rof[f]] = read[f]

\* ... and ReplaceSession rotates it, if it is still as it was read.
ReplaceSession(f) ==
  /\ rstep[f] = "swap" /\ Swappable(f)
  /\ token' = [token EXCEPT ![rof[f]] = read[f] + 1]
  /\ sessions' = sessions \cup {rof[f]}
  /\ rstep' = [rstep EXCEPT ![f] = "done"]
  /\ UNCHANGED <<clock, codes, revoked, bound, receipts, erasures, erased, overtaken,
                 expired, signIns, requests, rof, read>>

SwapRefused(f) ==
  /\ rstep[f] = "swap"
  /\ rstep' = [rstep EXCEPT ![f] = "done"]
  /\ UNCHANGED <<clock, store, expired, signIns, requests, rof, read>>

RevokeSession(s) ==
  /\ s \in sessions
  /\ revoked' = revoked \cup {s}
  /\ UNCHANGED <<clock, codes, sessions, token, bound, receipts, erasures, erased,
                 overtaken, expired, signIns, requests, refreshes>>

-----------------------------------------------------------------------------
(* Erasure                                                                 *)

Goto(d, p) == dstep' = [dstep EXCEPT ![d] = p]
Return(d, a) == Goto(d, "done") /\ answer' = [answer EXCEPT ![d] = a]

\* eraseRows and the receipt: every session and challenge goes, the erasure is
\* recorded, and what asked for it leaves a receipt.
Erase(d) ==
  /\ sessions' = {} /\ codes' = {}
  /\ erasures' = erasures \cup {[by |-> d, of |-> of[d], at |-> requestedAt[d]]}
  /\ receipts' = receipts \cup {of[d]}
  /\ erased' = erased \cup sessions
  /\ overtaken' = overtaken \cup {s \in SignIn : step[s] \in {"get", "consume", "save"}}
  /\ UNCHANGED <<token, revoked, bound>>

\* DeleteAccountWithDeviceProof for a session once created, with a token it
\* held and a proof that is its key's or not.
AskWithSession(d) ==
  /\ dstep[d] = "idle"
  /\ \E s \in sessions \cup erased, right \in BOOLEAN :
       /\ of' = [of EXCEPT ![d] = s]
       /\ \E t \in 0 .. token[s] : presented' = [presented EXCEPT ![d] = t]
       /\ proof' = [proof EXCEPT ![d] = right]
  /\ Goto(d, "get")
  /\ UNCHANGED <<clock, store, expired, signIns, requestedAt, answer, refreshes>>

\* The session is read: missing, it may be erased already; with a token it
\* rotated away from it is revoked; with its own it goes on to the proof.
ReadForDeletion(d) ==
  LET s == of[d] IN
  /\ dstep[d] = "get"
  /\ \/ s \notin sessions /\ Goto(d, "receipt")
     \/ s \in sessions \ (revoked \cup expired) /\ presented[d] # token[s] /\ Goto(d, "revoke")
     \/ /\ s \in sessions \ (revoked \cup expired) /\ presented[d] = token[s]
        /\ bound[s] /\ proof[d] /\ Goto(d, "proof")
  /\ UNCHANGED <<clock, store, expired, signIns, of, presented, proof, requestedAt, answer,
                 refreshes>>

\* Revoked, expired, unenrolled, or without the enrolled key's proof.
DeletionRefused(d) ==
  LET s == of[d] IN
  /\ dstep[d] = "get" /\ s \in sessions
  /\ \/ s \in revoked \cup expired
     \/ presented[d] = token[s] /\ ~(bound[s] /\ proof[d])
  /\ Return(d, "refused")
  /\ UNCHANGED <<clock, store, expired, signIns, of, presented, proof, requestedAt, refreshes>>

\* refreshMismatch: the superseded token revokes the session, if it is there.
RevokeReused(d) ==
  /\ dstep[d] = "revoke"
  /\ revoked' \in {revoked, revoked \cup ({of[d]} \cap sessions)}
  /\ Return(d, "refused")
  /\ UNCHANGED <<clock, codes, sessions, token, bound, receipts, erasures, erased,
                 overtaken, expired, signIns, of, presented, proof, requestedAt, refreshes>>

\* The instant of the request is read once the proof is verified.
ReadClock(d) ==
  /\ dstep[d] = "proof"
  /\ requestedAt' = [requestedAt EXCEPT ![d] = clock]
  /\ Goto(d, "erase")
  /\ UNCHANGED <<clock, store, expired, signIns, of, presented, proof, answer, refreshes>>

\* MUTANT of Erasable: the session's token is not checked again.
MutErasable(d) == of[d] \in (sessions \ (revoked \cup expired)) \cup codes

\* EraseSubscriber checks its session again, EraseSubscriberByDeletionCode
\* consumes its challenge.
Erasable(d) ==
  IF d \in Deletion
    THEN /\ of[d] \in sessions \ (revoked \cup expired)
         /\ token[of[d]] = presented[d]
    ELSE of[d] \in codes \cap DeletionCode

EraseSubscriber(d) ==
  /\ dstep[d] = "erase" /\ Erasable(d)
  /\ Erase(d)
  /\ Return(d, "ok") \/ Return(d, "storeError")   \* the commit may go unacknowledged
  /\ UNCHANGED <<clock, expired, signIns, of, presented, proof, requestedAt, refreshes>>

\* MUTANT of EraseConflict: the transaction that came second is refused.
MutEraseConflict(d) ==
  /\ dstep[d] = "erase" /\ ~Erasable(d)
  /\ Return(d, "refused")
  /\ UNCHANGED <<clock, store, expired, signIns, of, presented, proof, requestedAt, refreshes>>

\* ErrSessionConflict: answered from the receipt.
EraseConflict(d) ==
  /\ dstep[d] = "erase" /\ ~Erasable(d)
  /\ Goto(d, "receipt")
  /\ UNCHANGED <<clock, store, expired, signIns, of, presented, proof, requestedAt, answer,
                 refreshes>>

StoreFails(d) ==
  /\ dstep[d] \in {"get", "proof", "erase", "receipt"}
  /\ Return(d, "storeError")
  /\ UNCHANGED <<clock, store, expired, signIns, of, presented, proof, requestedAt, refreshes>>

\* MUTANT of Receipt: whatever is gone counts as deleted.
MutReceipt(d) == of[d] \notin sessions \cup codes /\ proof[d]

\* repeatedDeletion, receiptAnswer, deletionReceiptAnswer: a success only for
\* what was erased by this very session or code, with its key or its code.
Receipt(d) == of[d] \in receipts \ expired /\ proof[d]

AnswerFromReceipt(d) ==
  /\ dstep[d] = "receipt"
  /\ Return(d, IF Receipt(d) THEN "ok" ELSE "refused")
  /\ UNCHANGED <<clock, store, expired, signIns, of, presented, proof, requestedAt, refreshes>>

\* ConfirmDeletion with a code that is right or wrong.
AskWithCode(d) ==
  /\ dstep[d] = "idle"
  /\ \E k \in codes \cup receipts, right \in BOOLEAN :
       /\ k \in Challenge
       /\ of' = [of EXCEPT ![d] = k]
       /\ proof' = [proof EXCEPT ![d] = right]
  /\ Goto(d, "get")
  /\ UNCHANGED <<clock, store, expired, signIns, presented, requestedAt, answer, refreshes>>

\* A challenge that is gone may have deleted already; one for deletion that is
\* live and whose code is right goes on.
ReadCode(d) ==
  LET k == of[d] IN
  /\ dstep[d] = "get"
  /\ \/ k \notin codes /\ Goto(d, "receipt")
     \/ k \in codes \cap DeletionCode /\ k \notin expired /\ proof[d] /\ Goto(d, "proof")
  /\ UNCHANGED <<clock, store, expired, signIns, of, presented, proof, requestedAt, answer,
                 refreshes>>

\* For sign-in, expired, exhausted, over the number's limit, or wrong.
CodeRefused(d) ==
  /\ dstep[d] = "get" /\ of[d] \in codes
  /\ Return(d, "refused")
  /\ UNCHANGED <<clock, store, expired, signIns, of, presented, proof, requestedAt, refreshes>>

-----------------------------------------------------------------------------
Expire(x) ==
  /\ x \in (sessions \cup codes \cup receipts) \ expired
  /\ expired' = expired \cup {x}
  /\ UNCHANGED <<clock, store, signIns, requests, refreshes>>

Tick ==
  /\ clock < MaxClock
  /\ clock' = clock + 1
  /\ UNCHANGED <<store, expired, signIns, requests, refreshes>>

SignInStep(s) ==
  Begin(s) \/ Get(s) \/ Consume(s) \/ ConsumeRefused(s) \/ SaveSession(s) \/ SaveRefused(s)

RefreshStep(f) == ReadSession(f) \/ ReplaceSession(f) \/ SwapRefused(f)

EraseStep(d) ==
  ReadClock(d) \/ EraseSubscriber(d) \/ EraseConflict(d) \/ StoreFails(d) \/ AnswerFromReceipt(d)

DeletionStep(d) ==
  AskWithSession(d) \/ ReadForDeletion(d) \/ DeletionRefused(d) \/ RevokeReused(d) \/ EraseStep(d)

ConfirmationStep(d) == AskWithCode(d) \/ ReadCode(d) \/ CodeRefused(d) \/ EraseStep(d)

Next ==
  \/ \E s \in SignIn : SignInStep(s) \/ RevokeSession(s)
  \/ \E f \in Refresh : RefreshStep(f)
  \/ \E d \in Deletion : DeletionStep(d)
  \/ \E d \in Confirmation : ConfirmationStep(d)
  \/ \E k \in Challenge : SaveOtp(k) \/ DeleteOtp(k)
  \/ \E x \in SignIn \cup Challenge : Expire(x)
  \/ Tick

Spec == Init /\ [][Next]_vars

-----------------------------------------------------------------------------
(* Properties                                                              *)

TypeOK ==
  /\ clock \in 1 .. MaxClock
  /\ codes \subseteq Challenge /\ sessions \subseteq SignIn /\ revoked \subseteq SignIn
  /\ token \in [SignIn -> Nat] /\ bound \in [SignIn -> BOOLEAN]
  /\ expired \subseteq SignIn \cup Challenge /\ receipts \subseteq SignIn \cup Challenge
  /\ erasures \subseteq [by : Request, of : SignIn \cup Challenge, at : Nat]
  /\ step \in [SignIn -> SignInSteps] /\ target \in [SignIn -> Challenge]
  /\ began \in [SignIn -> Nat]
  /\ dstep \in [Request -> RequestSteps] /\ of \in [Request -> SignIn \cup Challenge]
  /\ presented \in [Request -> Nat] /\ proof \in [Request -> BOOLEAN]
  /\ requestedAt \in [Request -> Nat] /\ answer \in [Request -> Answers]
  /\ rstep \in [Refresh -> {"idle", "swap", "done"}] /\ rof \in [Refresh -> SignIn]
  /\ read \in [Refresh -> Nat]
  /\ erased \subseteq SignIn /\ overtaken \subseteq SignIn

\* The fence: no session in the store belongs to a sign-in that began at or
\* before the instant an erasure of the account was requested.
FenceHolds == \A s \in sessions, e \in erasures : began[s] > e.at

\* A session erased with the account never comes back: no rotation or save in
\* flight writes its row again.
ErasedStaysGone == sessions \cap erased = {}

\* "Two concurrent deletions of one session record one erasure": no session and
\* no code erases the account twice.
OneErasurePerCredential == \A e, f \in erasures : e.of = f.of => e = f

\* A deletion answered as done was done: by the very session or code it was
\* asked with.
DoneMeansErased ==
  \A d \in Request : answer[d] = "ok" => \E e \in erasures : e.of = of[d]

\* Only a session's current token erases with it: a rotation or a revocation
\* since the deletion read it stops the erasure.
OnlyTheCurrentTokenErases ==
  [][\A e \in erasures' \ erasures :
       e.by \in Deletion => /\ e.of \in sessions \ revoked
                            /\ presented[e.by] = token[e.of]]_vars

\* "Two concurrent deletions of one session record one erasure and both succeed":
\* of two that carry the same token, with the key's proof, neither is refused if
\* the other erased the account, whichever step of one met which of the other's
\* and of a rotation or a revocation, until the receipt expires.
BothDeletionsSucceed ==
  \A d \in Deletion, e \in erasures :
    e.of = of[d] /\ presented[d] = presented[e.by] /\ proof[d]
      => answer[d] # "refused" \/ of[d] \in expired

-----------------------------------------------------------------------------
(* The inductive invariant behind the properties above                     *)

\* Each sign-in saves its session once, as its last step.
SavedOnce == \A s \in SignIn : s \in sessions \cup erased => step[s] = "done"

\* A request names a session or a challenge, as it was asked, and is answered
\* last.
RequestsAreNamed ==
  /\ \A d \in Deletion : dstep[d] # "idle" => of[d] \in SignIn
  /\ \A d \in Confirmation : dstep[d] # "idle" => of[d] \in Challenge
  /\ \A d \in Request : answer[d] # "none" => dstep[d] = "done"

\* A receipt stands for one erasure, and what it names is gone.
ReceiptsMatchErasures ==
  /\ receipts = {e.of : e \in erasures}
  /\ receipts \cap SignIn \subseteq erased
  /\ receipts \cap codes = {}

ErasureInv ==
  /\ TypeOK /\ SavedOnce /\ RequestsAreNamed /\ ReceiptsMatchErasures
  /\ FenceHolds /\ ErasedStaysGone /\ OneErasurePerCredential /\ DoneMeansErased

\* What a deletion has found of its session still holds, or has a reason that
\* lasts: the session is gone, revoked, expired, or its token was superseded.
Superseded(d) == presented[d] < token[of[d]]
Unusable(d) == of[d] \in revoked \cup expired \/ Superseded(d)

DeletionsKnowTheirSession ==
  \A d \in Deletion :
    /\ dstep[d] # "idle" => of[d] \in sessions \cup erased /\ presented[d] <= token[of[d]]
    /\ dstep[d] = "revoke" => Superseded(d)
    /\ dstep[d] \in {"proof", "erase"} => bound[of[d]]
    /\ dstep[d] = "receipt" => of[d] \in erased \/ Unusable(d)

\* The session that erased the account was usable then, and nothing touches it
\* any more.
ErasuresWereRight ==
  \A e \in erasures : e.by \in Deletion =>
    /\ dstep[e.by] = "done" /\ presented[e.by] = token[e.of]
    /\ bound[e.of] /\ e.of \notin revoked

ErasuresKeepTheirKind ==
  \A e \in erasures : e.of \in SignIn <=> e.by \in Deletion

RefusalsHaveReasons ==
  \A d \in Deletion : answer[d] = "refused" /\ proof[d] =>
    Unusable(d) \/ ~bound[of[d]] \/ of[d] \in erased \ receipts

DeletionInv ==
  /\ DeletionsKnowTheirSession /\ ErasuresWereRight /\ ErasuresKeepTheirKind
  /\ RefusalsHaveReasons

-----------------------------------------------------------------------------
(* What a comment promises and the code does not keep                      *)

\* "An erasure requested before this instant already deleted the subscriber's
\* challenges, so this sign-in finds none; one requested from now on must not be
\* outlived by the session this creates": no sign-in in flight when an erasure
\* commits leaves a session behind.
NoSignInOutlivesErasure == overtaken \cap sessions = {}
=============================================================================
