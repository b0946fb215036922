-------------------------- MODULE MCLadderRestart --------------------------
(***************************************************************************)
(* Thresholds of 10% and 15% on equities of 34 to 40: 36 is the half       *)
(* trigger of 40, 37 lies between release and trigger, 38 releases, and    *)
(* 34 is the flat trigger.                                                 *)
(***************************************************************************)
EXTENDS LadderRestart

SomeEquities == {34, 36, 37, 38, 40}
Costs == {0, 1}
=============================================================================
