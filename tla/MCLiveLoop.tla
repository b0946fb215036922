----------------------------- MODULE MCLiveLoop -----------------------------
(***************************************************************************)
(* Instances of the live loop for TLC.                                     *)
(***************************************************************************)
EXTENDS DocumentedBehaviour, LiveLoopInvariant

CONSTANT btc

OneInstrument == {btc}

\* Two lots long, so a fill can be partial; both sides, so a position can flip.
BothSides == {-1, 0, 2}
LongOnly == {0, 2}
=============================================================================
