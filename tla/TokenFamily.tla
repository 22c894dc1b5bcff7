---------------------------- MODULE TokenFamily ----------------------------
(***************************************************************************)
(* What refresh-token rotation promises of one session: a token is         *)
(* redeemed at most once, redeeming it is what replaces it, and a family   *)
(* that has ended never redeems again.                                     *)
(***************************************************************************)
CONSTANT Token

VARIABLES
  live,    \* the one token that can be redeemed
  spent,   \* the tokens that were redeemed
  ended    \* the session was revoked or erased

vars == <<live, spent, ended>>

Init == live \in Token /\ spent = {} /\ ended = FALSE

\* The next token is new to the family.
Redeem ==
  /\ ~ended
  /\ spent' = spent \cup {live}
  /\ live' \in Token \ spent'
  /\ UNCHANGED ended

End == ended' = TRUE /\ UNCHANGED <<live, spent>>

Next == Redeem \/ End

Spec == Init /\ [][Next]_vars
=============================================================================
