------------------------- MODULE MCOidcInteractions -------------------------
(***************************************************************************)
(* Three requests: one for openid and another scope, one for a scope and a *)
(* claim, and one for the scope of the first and one of a resource.  What  *)
(* the first and the second are granted may leave the third with nothing   *)
(* a page could ask for.                                                   *)
(***************************************************************************)
EXTENDS OidcInteractions, TLC

CONSTANTS f1, f2, f3

MCAsked == (f1 :> {"openid", "email"}) @@ (f2 :> {"profile", "claim"})
        @@ (f3 :> {"email", "resource"})
=============================================================================
