-------------------------- MODULE MCToolExecution --------------------------
(* Plan p books one thing twice in parallel and then tells; plan q books it too,
   or, if that fails, tells.  The twins of p can be exchanged. *)
EXTENDS ToolExecution, TLC
CONSTANTS p, q, book, tell, p1, p2, p3, q1, q2
MCPlanOf == p1 :> p @@ p2 :> p @@ p3 :> p @@ q1 :> q @@ q2 :> q
MCKeyOf == p1 :> book @@ p2 :> book @@ p3 :> tell @@ q1 :> book @@ q2 :> tell
MCClassOf == [t \in Task |-> IF t \in {p1, p2} THEN 1 ELSE 0]
MCBefore == [t \in Task |-> IF t = p3 THEN {p1, p2} ELSE {}]
MCInstead == [t \in Task |-> IF t = q2 THEN q1 ELSE None]
MCMaxQueued == 0 :> 1 @@ 1 :> 1 @@ 2 :> 0
Symmetry == Permutations({p1, p2})
=============================================================================
