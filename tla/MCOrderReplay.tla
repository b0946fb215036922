--------------------------- MODULE MCOrderReplay ---------------------------
(***************************************************************************)
(* A cycle with a flip (close, then open) in one instrument, placed and    *)
(* replayed.                                                               *)
(***************************************************************************)
EXTENDS OrderReplay

CONSTANT btc

OneInstrument == {btc}

Flip ==
    {[coid |-> [cycle |-> 0, iid |-> btc, leg |-> "close"], qty |-> -2],
     [coid |-> [cycle |-> 0, iid |-> btc, leg |-> "open"], qty |-> -2]}
=============================================================================
