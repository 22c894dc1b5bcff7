------------------------------ MODULE MCFence ------------------------------
(***************************************************************************)
(* A small deployment of the fence for TLC.  Only ages matter to it, so    *)
(* states are told apart by View: how long ago each reading was taken (no  *)
(* further back than Validity) and only while some step can still read it. *)
(* Under this view the clock is in effect unbounded.                       *)
(***************************************************************************)
EXTENDS Fence, Integers, TLC

Symmetry == Permutations(Proc) \cup Permutations(Server)

Age(t) == IF clock - t > Validity THEN Validity ELSE clock - t
Left(t) == IF t > clock THEN t - clock ELSE 0

InHold(p) == pc[p] \in {"hold", "confirm"}
SentLive(p) == pc[p] \in {"lock", "granted", "confirm"}

\* sent is compared with the clock (through confirmed) and, by Lapsed, with
\* confirmed itself.
View ==
  <<primary, lock, backend, pc, held, stop, cancelled,
    [p \in Proc |-> IF held[p] THEN Age(acquired[p]) ELSE 0],
    [p \in Proc |-> IF held[p] \/ InHold(p) THEN Age(confirmed[p]) ELSE 0],
    [p \in Proc |-> IF SentLive(p) THEN Age(sent[p]) ELSE 0],
    [p \in Proc |-> pc[p] = "confirm" /\ Lapsed(p)],
    [p \in Proc |-> IF pc[p] = "granted" THEN Age(received[p]) ELSE 0],
    [p \in Proc |-> IF pc[p] \in Querying THEN answer[p] ELSE "none"],
    [p \in Proc |-> IF pc[p] \in {"hold", "pause"} THEN Left(wake[p]) ELSE 0]>>
=============================================================================
