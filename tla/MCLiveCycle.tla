--------------------------- MODULE MCLiveCycle ---------------------------
(***************************************************************************)
(* Two units to the share.  One name is enough for a sweep, a flip of two  *)
(* legs and a watermark that passes an order of the same cycle.            *)
(***************************************************************************)
EXTENDS LiveCycle

SomeRaws == {-2, 0, 3, 6}
Steps == {2, 3}
=============================================================================
