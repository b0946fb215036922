--------------------------- MODULE MCTrialLedger ---------------------------
(***************************************************************************)
(* One batch of two members beside two identities reserved alone; the      *)
(* budget runs out with the third identity.                                *)
(***************************************************************************)
EXTENDS TrialLedger

CONSTANTS s1, s2, m1, m2

OneBatch == {<<m1, m2>>}
Raised == <<4, 5>>
=============================================================================
