------------------------ MODULE DocumentedBehaviour ------------------------
(***************************************************************************)
(* What a docstring of the repository says about the loop and its code     *)
(* does not keep.  TLC finds it violated (doc_kill); PROJECT.json quotes   *)
(* the line.                                                               *)
(***************************************************************************)
EXTENDS LiveLoopProperties

\* risk/killswitch.py: "the live loop checks KillSwitch.engaged at cycle start
\* and again immediately before every order submission".
NoNewAckWhileKilled ==
    pc = "place" /\ kill => \A c \in Coid : acks[c] = "none" => acks'[c] = "none"

NoSubmitWhileKilled == [][NoNewAckWhileKilled]_vars

=============================================================================
