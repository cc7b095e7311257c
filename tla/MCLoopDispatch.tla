--------------------------- MODULE MCLoopDispatch ---------------------------
(* Instances of LoopDispatch for TLC: an implement/review graph in which    *)
(* n2's fail edge goes back to n1, n1 has no fail edge, and n2's pass ends  *)
(* the spec.                                                                *)
EXTENDS LoopDispatch, TLC

CONSTANTS n1, n2

ReviewGraph == (n1 :> ("pass" :> n2 @@ "fail" :> NoNode))
            @@ (n2 :> ("pass" :> NoNode @@ "fail" :> n1))

\* A single self-correcting node, for runs about the actors around it.
RetryGraph == n1 :> ("pass" :> NoNode @@ "fail" :> n1)

Symmetric == Permutations(Dispatches) \cup Permutations(Tools)

=============================================================================
