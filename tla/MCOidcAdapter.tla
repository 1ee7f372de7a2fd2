--------------------------- MODULE MCOidcAdapter ---------------------------
(***************************************************************************)
(* Two tokens of one grant, and two ids of one session.                    *)
(***************************************************************************)
EXTENDS OidcAdapter, TLC

CONSTANTS token1, token2, session1, session2, grant, uid

MCModels == {token1, token2, session1, session2}
MCGrantOf == [m \in MCModels |-> IF m \in {token1, token2} THEN grant ELSE Nil]
MCUidOf == [m \in MCModels |-> IF m \in {token1, token2} THEN Nil ELSE uid]
\* Which token, or which session, is which makes no difference to any definition.
MCSymmetry == Permutations({token1, token2}) \cup Permutations({session1, session2})
=============================================================================
