------------------------------- MODULE MCShared -------------------------------
(* The instance of Shared that TLC checks: c3 is c1 connected again. *)
EXTENDS Shared, TLC

CONSTANTS c1, c2, c3, f1, f2

MCFPof == (c1 :> f1) @@ (c2 :> f2) @@ (c3 :> f1)

\* Payloads are only compared.
Symmetry == Permutations(Value)
=============================================================================
