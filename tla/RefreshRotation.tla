-------------------------- MODULE RefreshRotation --------------------------
(***************************************************************************)
(* Refresh-token rotation of one identity session                          *)
(* (services/go/identity/internal/app/identity.go: RefreshToken,           *)
(* RefreshTokenWithDeviceProofAndIntegrity, refreshMismatch,               *)
(* issueBoundAccessToken; the store of pgstore/pgstore.go).                *)
(*                                                                         *)
(* Any number of refresh calls run at once.  Each repository call is one   *)
(* atomic step of the store and another call may come between any two of   *)
(* them; any of them may fail, and a commit may take effect although its   *)
(* caller is told it failed.  Rows of different sessions never meet, so    *)
(* one session stands for all.                                             *)
(***************************************************************************)
EXTENDS Naturals

CONSTANTS
  Call,     \* refresh requests
  Token,    \* refresh tokens generateSecureToken can return
  Foreign   \* a token this session never held

ASSUME TokenAssumption == Foreign \notin Token

VARIABLES
  exists, revoked, expired, bound, current, superseded,  \* the stored session
  generated,   \* tokens handed out by generateSecureToken so far
  known,       \* tokens a client has received
  pc, presented, answer, access   \* the calls

session == <<exists, revoked, expired, bound, current, superseded>>
vars == <<session, generated, known, pc, presented, answer, access>>

Steps == {"idle", "read", "mismatch", "revoke", "proof", "sign", "swap", "done"}

\* What a call returns: a new pair, ErrInvalidToken, ErrTokenReused (with the
\* store's error when the revocation failed), a refusal that concerns neither
\* the token nor the session, or the store's own error.
Answers == {"none", "ok", "invalid", "reused", "reusedUnrevoked", "refused",
            "storeError"}

-----------------------------------------------------------------------------
\* A session just created by validateOtp, enrolled with a device key or not.
Init ==
  /\ exists = TRUE /\ revoked = FALSE /\ expired = FALSE
  /\ bound \in BOOLEAN
  /\ current \in Token
  /\ superseded = {}
  /\ generated = {current} /\ known = {current}
  /\ pc = [c \in Call |-> "idle"]
  /\ presented = [c \in Call |-> Foreign]
  /\ answer = [c \in Call |-> "none"]
  /\ access = [c \in Call |-> FALSE]

Goto(c, step) == pc' = [pc EXCEPT ![c] = step]
Answer(c, a) == Goto(c, "done") /\ answer' = [answer EXCEPT ![c] = a]

\* A client sends a token it holds, current or not, or one of elsewhere.
Begin(c) ==
  /\ pc[c] = "idle"
  /\ \E t \in known \cup {Foreign} : presented' = [presented EXCEPT ![c] = t]
  /\ Goto(c, "read")
  /\ UNCHANGED <<session, generated, known, answer, access>>

\* GetSession: a missing, unreadable, revoked or expired session is refused.
ReadRefused(c) ==
  /\ pc[c] = "read"
  /\ Answer(c, "invalid")
  /\ UNCHANGED <<session, generated, known, presented, access>>

Readable == exists /\ ~revoked /\ ~expired

\* The presented token is not the current one: refreshMismatch.
ReadMismatch(c) ==
  /\ pc[c] = "read" /\ Readable /\ presented[c] # current
  /\ Goto(c, "mismatch")
  /\ UNCHANGED <<session, generated, known, presented, answer, access>>

\* It is: a device-bound session goes on to the proof, any other to the swap.
ReadMatch(c) ==
  /\ pc[c] = "read" /\ Readable /\ presented[c] = current
  /\ Goto(c, IF bound THEN "proof" ELSE "swap")
  /\ UNCHANGED <<session, generated, known, presented, answer, access>>

\* The method does not fit the session (ErrDeviceProofRequired,
\* ErrSessionNotDeviceBound): nothing rotates.
WrongMethod(c) ==
  /\ pc[c] = "read" /\ Readable /\ presented[c] = current
  /\ Answer(c, "refused")
  /\ UNCHANGED <<session, generated, known, presented, access>>

\* SupersededRefreshToken: a token the session never held revokes nothing; one
\* it rotated away from does, and so does a store that cannot say.
NeverHeld(c) ==
  /\ pc[c] = "mismatch"
  /\ ~exists \/ presented[c] \notin superseded
  /\ Answer(c, "invalid")
  /\ UNCHANGED <<session, generated, known, presented, access>>

Reuse(c) ==
  /\ pc[c] = "mismatch"
  /\ exists /\ presented[c] \in superseded
  /\ Goto(c, "revoke")
  /\ UNCHANGED <<session, generated, known, presented, answer, access>>

ReuseUnknown(c) ==
  /\ pc[c] = "mismatch"
  /\ Goto(c, "revoke")
  /\ UNCHANGED <<session, generated, known, presented, answer, access>>

\* RevokeSession: one way, and nothing to do for a session that is gone.
RevokeReused(c) ==
  /\ pc[c] = "revoke"
  /\ revoked' = (revoked \/ exists)
  /\ Answer(c, "reused")
  /\ UNCHANGED <<exists, expired, bound, current, superseded, generated, known,
                 presented, access>>

\* MUTANT of RevokeFails: the store's error is swallowed.
MutRevokeFails(c) ==
  /\ pc[c] = "revoke"
  /\ revoked' \in {revoked, revoked \/ exists}
  /\ Answer(c, "reused")
  /\ UNCHANGED <<exists, expired, bound, current, superseded, generated, known,
                 presented, access>>

RevokeFails(c) ==
  /\ pc[c] = "revoke"
  /\ revoked' \in {revoked, revoked \/ exists}
  /\ Answer(c, "reusedUnrevoked")
  /\ UNCHANGED <<exists, expired, bound, current, superseded, generated, known,
                 presented, access>>

\* The proof, its key and the integrity token are accepted, or the call ends.
ProofAccepted(c) ==
  /\ pc[c] = "proof"
  /\ Goto(c, "sign")
  /\ UNCHANGED <<session, generated, known, presented, answer, access>>

ProofRefused(c) ==
  /\ pc[c] = "proof"
  /\ \E a \in {"refused", "storeError"} : Answer(c, a)
  /\ UNCHANGED <<session, generated, known, presented, access>>

\* issueBoundAccessToken reads the session again, and signs before the swap.
Sign(c) ==
  /\ pc[c] = "sign" /\ Readable
  /\ access' = [access EXCEPT ![c] = TRUE]
  /\ Goto(c, "swap")
  /\ UNCHANGED <<session, generated, known, presented, answer>>

SignRefused(c) ==
  /\ pc[c] = "sign"
  /\ Answer(c, "refused")
  /\ UNCHANGED <<session, generated, known, presented, access>>

\* MUTANTS of Swappable: the swap of SaveSession (blind), and the one that
\* forgets a revocation since the read.
MutSwapBlind(c) == exists /\ ~revoked /\ pc[c] = "swap"
MutSwapRevoked(c) == exists /\ current = presented[c]

\* ReplaceSession: the compare of the compare-and-swap.
Swappable(c) == exists /\ ~revoked /\ current = presented[c]

\* MUTANT of Rotate: the replaced token is not recorded.
MutRotateUnrecorded(c, new) ==
  /\ new \in Token \ generated
  /\ generated' = generated \cup {new}
  /\ current' = new
  /\ revoked' = FALSE
  /\ UNCHANGED <<exists, expired, bound, superseded>>

\* The swap itself: the copy that was read, unrevoked, is written back with the
\* new token, and the token it replaces is recorded.
Rotate(c, new) ==
  /\ new \in Token \ generated
  /\ generated' = generated \cup {new}
  /\ current' = new
  /\ revoked' = FALSE
  /\ superseded' = superseded \cup {presented[c]}
  /\ UNCHANGED <<exists, expired, bound>>

Swap(c) ==
  /\ pc[c] = "swap" /\ Swappable(c)
  /\ \E new \in Token : Rotate(c, new) /\ known' = known \cup {new}
  /\ Answer(c, "ok")
  /\ UNCHANGED <<presented, access>>

\* ErrSessionConflict: the race is lost, nothing is revoked.
SwapLost(c) ==
  /\ pc[c] = "swap" /\ ~Swappable(c)
  /\ Answer(c, "invalid")
  /\ UNCHANGED <<session, generated, known, presented, access>>

\* The store fails, with the transaction rolled back ...
SwapFails(c) ==
  /\ pc[c] = "swap"
  /\ Answer(c, "storeError")
  /\ UNCHANGED <<session, generated, known, presented, access>>

\* ... or with its commit done and the acknowledgement lost.
SwapUnacknowledged(c) ==
  /\ pc[c] = "swap" /\ Swappable(c)
  /\ \E new \in Token : Rotate(c, new)
  /\ Answer(c, "storeError")
  /\ UNCHANGED <<known, presented, access>>

\* The session's lifetime ends.
Expire ==
  /\ ~expired
  /\ expired' = TRUE
  /\ UNCHANGED <<exists, revoked, bound, current, superseded, generated, known,
                 pc, presented, answer, access>>

\* The account is erased: the session's row goes, and superseded hashes with
\* it (they are not read once exists is false).
Erase ==
  /\ exists
  /\ exists' = FALSE
  /\ UNCHANGED <<revoked, expired, bound, current, superseded, generated, known,
                 pc, presented, answer, access>>

\* Every other revocation (a deletion request with a superseded token).
RevokeElsewhere ==
  /\ exists /\ ~revoked
  /\ revoked' = TRUE
  /\ UNCHANGED <<exists, expired, bound, current, superseded, generated, known,
                 pc, presented, answer, access>>

Refresh(c) ==
  \/ Begin(c) \/ ReadRefused(c) \/ ReadMismatch(c) \/ ReadMatch(c) \/ WrongMethod(c)
  \/ NeverHeld(c) \/ Reuse(c) \/ ReuseUnknown(c) \/ RevokeReused(c) \/ RevokeFails(c)
  \/ ProofAccepted(c) \/ ProofRefused(c) \/ Sign(c) \/ SignRefused(c)
  \/ Swap(c) \/ SwapLost(c) \/ SwapFails(c) \/ SwapUnacknowledged(c)

Next == (\E c \in Call : Refresh(c)) \/ Expire \/ Erase \/ RevokeElsewhere

Spec == Init /\ [][Next]_vars

-----------------------------------------------------------------------------
(* Properties                                                              *)

TypeOK ==
  /\ exists \in BOOLEAN /\ revoked \in BOOLEAN /\ expired \in BOOLEAN
  /\ bound \in BOOLEAN
  /\ current \in Token /\ superseded \subseteq Token
  /\ generated \subseteq Token /\ known \subseteq Token
  /\ pc \in [Call -> Steps]
  /\ presented \in [Call -> Token \cup {Foreign}]
  /\ answer \in [Call -> Answers]
  /\ access \in [Call -> BOOLEAN]

\* Of any number of refreshes presenting one token, at most one succeeds: the
\* compare-and-swap of ReplaceSession, not the comparison made when the session
\* was read, decides.
SingleUse ==
  \A c, d \in Call :
    answer[c] = "ok" /\ answer[d] = "ok" /\ presented[c] = presented[d] => c = d

\* A token rotated away from never becomes current again, so presenting it is
\* always recognised as reuse.
SupersededStaysSuperseded == current \notin superseded

\* A refresh that read a live session and was overtaken by a revocation or an
\* erasure returns nothing: no pair is released once the family has ended.
NothingReleasedAfterTheEnd ==
  [][\A c \in Call :
       answer[c] # "ok" /\ answer'[c] = "ok" => exists /\ ~revoked]_vars

\* ErrTokenReused without a store error means the family is over: for good.
ReuseEndsTheFamily ==
  \A c \in Call : answer[c] = "reused" => revoked \/ ~exists

\* "A rotation that was not persisted did not happen": a call answered with
\* the store's error leaves the stored session as it was, so the token it
\* presented is superseded only by some other call that succeeded with it.
FailedRotationKeepsToken ==
  \A c \in Call :
    answer[c] = "storeError" /\ presented[c] \in superseded =>
      \E d \in Call : answer[d] = "ok" /\ presented[d] = presented[c]

\* The family of one session, as TokenFamily promises it.
Family == INSTANCE TokenFamily
  WITH live <- current, spent <- superseded, ended <- revoked \/ ~exists

\* Rotation implements the promise: every step of the calls and of the store
\* redeems the live token once, ends the family, or leaves it alone.
ImplementsFamily == Family!Spec

-----------------------------------------------------------------------------
(* The inductive invariant behind SingleUse and the refinement             *)

\* What a call succeeded with is in the superseded set, where no later call
\* can find it current.
RotationInv ==
  /\ TypeOK
  /\ current \in generated /\ superseded \subseteq generated
  /\ SupersededStaysSuperseded
  /\ \A c \in Call : answer[c] = "ok" => presented[c] \in superseded /\ pc[c] = "done"
  /\ SingleUse
=============================================================================
