------------------------------ MODULE MCAgsClaim ------------------------------
(***************************************************************************)
(* Two tools of which one may create line items and one may not even list  *)
(* them, and a hierarchy of three contexts.                                *)
(***************************************************************************)
EXTENDS AgsClaim, TLC

CONSTANTS t1, t2

ScopesOf == [t \in {t1, t2} |-> IF t = t1 THEN {"openid", "lineitem", "score"}
                                ELSE {"openid", "score"}]

Symmetry == Permutations(Contexts) \cup Permutations(Deployments)
              \cup Permutations(Links) \cup Permutations(Items)

=============================================================================
