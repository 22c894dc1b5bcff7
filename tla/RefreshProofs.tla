--------------------------- MODULE RefreshProofs ---------------------------
(***************************************************************************)
(* For any number of calls and tokens: refresh tokens are single-use,      *)
(* rotation implements TokenFamily, reuse ends the family, and nothing is  *)
(* released after its end.                                                 *)
(***************************************************************************)
EXTENDS RefreshRotation, TLAPS

LEMMA InvInit == Init => RotationInv
  BY DEF Init, RotationInv, TypeOK, Steps, Answers, SupersededStaysSuperseded, SingleUse

\* A rotation supersedes exactly the token its call presented, which was the
\* current one, and installs one the family has not seen.
LEMMA RotateStep ==
  ASSUME RotationInv, NEW c \in Call, Swappable(c), NEW new \in Token, Rotate(c, new)
  PROVE  /\ presented[c] = current /\ presented[c] \notin superseded
         /\ new \notin superseded /\ new # current
         /\ ~revoked /\ exists
         /\ superseded' = superseded \cup {current} /\ current' = new
         /\ generated' = generated \cup {new}
         /\ superseded' \subseteq generated' /\ current' \notin superseded'
  BY DEF RotationInv, SupersededStaysSuperseded, Swappable, Rotate

LEMMA InvStep == RotationInv /\ [Next]_vars => RotationInv'
<1> SUFFICES ASSUME RotationInv, [Next]_vars PROVE RotationInv'
  OBVIOUS
<1>0. ASSUME NEW c \in Call, Swappable(c), NEW new \in Token, Rotate(c, new)
      PROVE  /\ presented[c] \notin superseded /\ superseded' = superseded \cup {presented[c]}
             /\ current' \in generated' /\ superseded' \subseteq generated'
             /\ current' \notin superseded'
  BY <1>0, RotateStep
<1> USE DEF RotationInv, TypeOK, Steps, Answers, SupersededStaysSuperseded, SingleUse
<1>1. ASSUME NEW c \in Call, Refresh(c) PROVE RotationInv'
  <2> USE DEF Goto, Answer, session
  <2>1. CASE Begin(c)  BY <2>1 DEF Begin
  <2>2. CASE ReadRefused(c)  BY <2>2 DEF ReadRefused
  <2>3. CASE ReadMismatch(c)  BY <2>3 DEF ReadMismatch
  <2>4. CASE ReadMatch(c)  BY <2>4 DEF ReadMatch
  <2>5. CASE WrongMethod(c)  BY <2>5 DEF WrongMethod
  <2>6. CASE NeverHeld(c)  BY <2>6 DEF NeverHeld
  <2>7. CASE Reuse(c)  BY <2>7 DEF Reuse
  <2>8. CASE ReuseUnknown(c)  BY <2>8 DEF ReuseUnknown
  <2>9. CASE RevokeReused(c)  BY <2>9 DEF RevokeReused
  <2>10. CASE RevokeFails(c)  BY <2>10 DEF RevokeFails
  <2>11. CASE ProofAccepted(c)  BY <2>11 DEF ProofAccepted
  <2>12. CASE ProofRefused(c)  BY <2>12 DEF ProofRefused
  <2>13. CASE Sign(c)  BY <2>13 DEF Sign
  <2>14. CASE SignRefused(c)  BY <2>14 DEF SignRefused
  <2>15. CASE Swap(c)
    <3>1. PICK new \in Token : Rotate(c, new) /\ known' = known \cup {new}
      BY <2>15 DEF Swap
    <3>2. presented[c] \notin superseded /\ superseded' = superseded \cup {presented[c]}
      BY <2>15, <3>1, <1>0 DEF Swap
    <3>3. TypeOK'  BY <2>15, <3>1 DEF Swap, Rotate, Swappable
    <3>4. /\ current' \in generated' /\ superseded' \subseteq generated'
          /\ current' \notin superseded'
      BY <2>15, <3>1, <1>0 DEF Swap
    <3>5. \A d \in Call : answer'[d] = "ok" => presented'[d] \in superseded' /\ pc'[d] = "done"
      BY <2>15, <3>2 DEF Swap
    <3>6. SingleUse'
      <4> SUFFICES ASSUME NEW d \in Call, NEW e \in Call, d # e,
                          answer'[d] = "ok", answer'[e] = "ok",
                          presented[d] = presented[e]
                   PROVE  FALSE
        BY <2>15 DEF Swap
      <4>1. CASE d = c  BY <2>15, <3>2, <4>1 DEF Swap
      <4>2. CASE e = c  BY <2>15, <3>2, <4>2 DEF Swap
      <4>3. CASE d # c /\ e # c  BY <2>15, <4>3 DEF Swap
      <4> QED  BY <4>1, <4>2, <4>3
    <3> QED  BY <3>3, <3>4, <3>5, <3>6
  <2>16. CASE SwapLost(c)  BY <2>16 DEF SwapLost
  <2>17. CASE SwapFails(c)  BY <2>17 DEF SwapFails
  <2>18. CASE SwapUnacknowledged(c)
    <3>1. PICK new \in Token : Rotate(c, new)
      BY <2>18 DEF SwapUnacknowledged
    <3>2. TypeOK'  BY <2>18, <3>1 DEF SwapUnacknowledged, Rotate, Swappable
    <3>3. /\ current' \in generated' /\ superseded' \subseteq generated'
          /\ current' \notin superseded' /\ superseded \subseteq superseded'
      BY <2>18, <3>1, <1>0 DEF SwapUnacknowledged
    <3> QED  BY <2>18, <3>2, <3>3 DEF SwapUnacknowledged
  <2> QED
    BY <1>1, <2>1, <2>2, <2>3, <2>4, <2>5, <2>6, <2>7, <2>8, <2>9, <2>10, <2>11,
       <2>12, <2>13, <2>14, <2>15, <2>16, <2>17, <2>18 DEF Refresh
<1>2. CASE Expire  BY <1>2 DEF Expire
<1>3. CASE Erase  BY <1>3 DEF Erase
<1>4. CASE RevokeElsewhere  BY <1>4 DEF RevokeElsewhere
<1>5. CASE UNCHANGED vars  BY <1>5 DEF vars, session
<1> QED  BY <1>1, <1>2, <1>3, <1>4, <1>5 DEF Next

\* In every reachable state what succeeded is superseded, and no token is both
\* superseded and current.
THEOREM RotationInvariant == Spec => []RotationInv
  BY InvInit, InvStep, PTL DEF Spec

\* No two refreshes succeed with one token, however many race.
THEOREM TokensAreSingleUse == Spec => []SingleUse
<1>1. RotationInv => SingleUse  BY DEF RotationInv
<1> QED  BY <1>1, RotationInvariant, PTL

\* A superseded token never becomes current again.
THEOREM ReuseIsRecognised == Spec => []SupersededStaysSuperseded
<1>1. RotationInv => SupersededStaysSuperseded  BY DEF RotationInv
<1> QED  BY <1>1, RotationInvariant, PTL

-----------------------------------------------------------------------------
LEMMA FamilyInit == Init => Family!Init
  BY DEF Init, Family!Init

LEMMA FamilyStep == RotationInv /\ [Next]_vars => [Family!Next]_(Family!vars)
<1> SUFFICES ASSUME RotationInv, [Next]_vars
             PROVE  Family!Next \/ UNCHANGED Family!vars
  OBVIOUS
<1> USE DEF Family!Next, Family!vars, Family!Redeem, Family!End
<1>1. ASSUME NEW c \in Call, Refresh(c) PROVE Family!Next \/ UNCHANGED Family!vars
  <2>1. CASE Swap(c) \/ SwapUnacknowledged(c)
    <3>1. Swappable(c) /\ \E new \in Token : Rotate(c, new)
      BY <2>1 DEF Swap, SwapUnacknowledged
    <3>2. PICK new \in Token : Rotate(c, new)  BY <3>1
    <3>3. UNCHANGED exists /\ revoked' = FALSE  BY <3>2 DEF Rotate
    <3>4. Family!Redeem  BY <3>1, <3>2, <3>3, RotateStep
    <3> QED  BY <3>4
  <2>2. CASE RevokeReused(c) \/ RevokeFails(c)
    BY <2>2 DEF RevokeReused, RevokeFails, RotationInv, TypeOK
  <2>3. CASE ~ (Swap(c) \/ SwapUnacknowledged(c) \/ RevokeReused(c) \/ RevokeFails(c))
    BY <1>1, <2>3
    DEF Refresh, session, Begin, ReadRefused, ReadMismatch, ReadMatch, WrongMethod,
        NeverHeld, Reuse, ReuseUnknown, ProofAccepted, ProofRefused, Sign,
        SignRefused, SwapLost, SwapFails
  <2> QED  BY <2>1, <2>2, <2>3
<1>2. CASE Expire  BY <1>2 DEF Expire
<1>3. CASE Erase  BY <1>3 DEF Erase
<1>4. CASE RevokeElsewhere  BY <1>4 DEF RevokeElsewhere
<1>5. CASE UNCHANGED vars  BY <1>5 DEF vars, session
<1> QED  BY <1>1, <1>2, <1>3, <1>4, <1>5 DEF Next

\* Every behaviour of the store and of the racing calls is, seen through the
\* session's tokens, a behaviour of a family of single-use tokens.
THEOREM RotationImplementsFamily == Spec => ImplementsFamily
  BY FamilyInit, FamilyStep, RotationInvariant, PTL DEF Spec, ImplementsFamily, Family!Spec

-----------------------------------------------------------------------------
\* A refresh hands out a pair only by its own swap, which finds the session
\* there and unrevoked; a family that is over stays over.
LEMMA EndStep ==
  ASSUME RotationInv, ReuseEndsTheFamily, [Next]_vars
  PROVE  /\ ReuseEndsTheFamily'
         /\ \A c \in Call : answer[c] # "ok" /\ answer'[c] = "ok" => exists /\ ~revoked
<1> DEFINE Released == \A c \in Call : answer[c] # "ok" /\ answer'[c] = "ok" => exists /\ ~revoked
<1>0. TypeOK  BY DEF RotationInv
<1> USE <1>0 DEF TypeOK, ReuseEndsTheFamily
<1>1. ASSUME UNCHANGED answer, revoked \/ ~exists => revoked' \/ ~exists'
      PROVE  ReuseEndsTheFamily' /\ Released
  BY <1>1
<1>2. ASSUME NEW c \in Call, NEW a \in Answers \ {"ok"}, Answer(c, a),
             revoked \/ ~exists \/ a = "reused" => revoked' \/ ~exists'
      PROVE  ReuseEndsTheFamily' /\ Released
  BY <1>2 DEF Answer, Answers
<1>3. ASSUME NEW c \in Call, Refresh(c)  PROVE ReuseEndsTheFamily' /\ Released
  <2> USE DEF Answers, session
  <2>1. CASE \/ Begin(c) \/ ReadMismatch(c) \/ ReadMatch(c) \/ Reuse(c) \/ ReuseUnknown(c)
             \/ ProofAccepted(c) \/ Sign(c)
    BY <2>1, <1>1 DEF Begin, ReadMismatch, ReadMatch, Reuse, ReuseUnknown, ProofAccepted, Sign
  <2>2. CASE \/ ReadRefused(c) \/ WrongMethod(c) \/ NeverHeld(c) \/ ProofRefused(c)
             \/ SignRefused(c) \/ SwapLost(c) \/ SwapFails(c)
    BY <2>2, <1>2 DEF ReadRefused, WrongMethod, NeverHeld, ProofRefused, SignRefused, SwapLost,
       SwapFails
  <2>3. CASE RevokeReused(c) \/ RevokeFails(c)
    BY <2>3, <1>2 DEF RevokeReused, RevokeFails
  <2>4. CASE SwapUnacknowledged(c)
    <3>1. exists /\ ~revoked  BY <2>4 DEF SwapUnacknowledged, Swappable
    <3> QED  BY <2>4, <3>1, <1>2 DEF SwapUnacknowledged
  <2>5. CASE Swap(c)
    <3>1. /\ exists /\ ~revoked /\ answer' = [answer EXCEPT ![c] = "ok"]
      BY <2>5 DEF Swap, Swappable, Answer
    <3> QED  BY <3>1
  <2> QED  BY <1>3, <2>1, <2>2, <2>3, <2>4, <2>5 DEF Refresh
<1>4. CASE Expire \/ Erase \/ RevokeElsewhere \/ UNCHANGED vars
  BY <1>4, <1>1 DEF Expire, Erase, RevokeElsewhere, vars, session
<1> QED  BY <1>3, <1>4 DEF Next

LEMMA ReuseInvariant == Spec => [](RotationInv /\ ReuseEndsTheFamily)
<1>1. Init => ReuseEndsTheFamily  BY DEF Init, ReuseEndsTheFamily
<1>2. RotationInv /\ ReuseEndsTheFamily /\ [Next]_vars => ReuseEndsTheFamily'  BY EndStep
<1> QED  BY <1>1, <1>2, RotationInvariant, PTL DEF Spec

\* A client told of reuse, without the store's error, has lost the family for
\* good: no swap in flight brings it back (refreshMismatch, ReplaceSession).
THEOREM ReuseIsFinal == Spec => []ReuseEndsTheFamily
BY ReuseInvariant, PTL

\* No pair is released once the family has been revoked or erased, however long
\* ago the call read the session (ReplaceSession).
THEOREM EndedFamiliesReleaseNothing == Spec => NothingReleasedAfterTheEnd
<1>1. (RotationInv /\ ReuseEndsTheFamily) /\ [Next]_vars =>
        [\A c \in Call : answer[c] # "ok" /\ answer'[c] = "ok" => exists /\ ~revoked]_vars
  BY EndStep
<1> QED  BY <1>1, ReuseInvariant, PTL DEF Spec, NothingReleasedAfterTheEnd
=============================================================================
