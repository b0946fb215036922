---------------------------- MODULE DeltaOrders ----------------------------
(***************************************************************************)
(* The pure sizing arithmetic of scripts/live_cycle.py: the orders that    *)
(* move one name from its holding to its target (_delta_orders, _trunc).   *)
(*                                                                         *)
(* Quantities are integers in the resolution of the broker's holdings (its *)
(* ninth decimal).  Orders are rounded to four decimals (Tick) or cut to   *)
(* whole shares (Share); float error is left out, so _FLATTEN_EPS is what  *)
(* it is for real quantities: a residual too small to withhold the open.   *)
(***************************************************************************)
EXTENDS Integers, Sequences

CONSTANTS
    Tick,           \* units per fourth decimal: what round(delta, 4) keeps
    Share,          \* units per whole share
    Dust,           \* smallest order worth _MIN_ORDER_USD at the mid
    FlattenEps      \* _FLATTEN_EPS

ASSUME DeltaAssumption ==
    /\ Tick \in Nat \ {0}
    /\ Share \in Nat \ {0}
    /\ Share % Tick = 0
    /\ Dust \in Nat \ {0}
    /\ FlattenEps \in Nat

Abs(x) == IF x < 0 THEN -x ELSE x
Sign(x) == IF x < 0 THEN -1 ELSE 1

\* int(x) and _trunc: toward zero, to a multiple of step.
Trunc(x, step) == Sign(x) * (Abs(x) - (Abs(x) % step))

\* round(x, 4): the nearest multiple of step, a tie to the even one.
RoundTo(x, step) ==
    LET down == Abs(x) - (Abs(x) % step)
        rest == 2 * (Abs(x) % step)
        up   == rest > step \/ (rest = step /\ (down \div step) % 2 = 1)
    IN  Sign(x) * (IF up THEN down + step ELSE down)

\* The sizing of main(): a short target is cut to whole shares, a long one is
\* rounded to four decimals; what cannot be shorted is flattened, and what
\* cannot be split trades whole shares.
SizedTarget(raw, whole, shortable) ==
    LET sized == IF raw < 0 THEN Trunc(raw, Share) ELSE RoundTo(raw, Tick)
    IN  IF sized < 0 /\ ~shortable THEN 0
        ELSE IF whole THEN Trunc(sized, Share)
        ELSE sized

\* The net change that is ordered.
Delta(cur, tgt, whole) ==
    RoundTo(IF tgt < 0 \/ whole THEN Trunc(tgt - cur, Share) ELSE tgt - cur, Tick)

Flips(cur, tgt) == (cur < 0 /\ tgt > 0) \/ (cur > 0 /\ tgt < 0)

Leg(tag, qty) == [tag |-> tag, qty |-> qty]

CloseQty(cur, whole) == Trunc(Abs(cur), IF whole THEN Share ELSE 1)
OpenQty(tgt, whole) == Trunc(Abs(tgt), IF whole \/ tgt < 0 THEN Share ELSE Tick)

CloseLeg(cur, whole) == Leg("close", -Sign(cur) * CloseQty(cur, whole))
OpenLeg(tgt, whole) == Leg("open", Sign(tgt) * OpenQty(tgt, whole))

\* Mutant: the open leg is sent over a residual, or over a position that cannot
\* be closed at all.
FlipLegs_alone(cur, tgt, whole) ==
    (IF CloseQty(cur, whole) = 0 THEN <<>> ELSE <<CloseLeg(cur, whole)>>)
    \o IF OpenQty(tgt, whole) < Dust THEN <<>> ELSE <<OpenLeg(tgt, whole)>>

\* A sign flip: flatten, then open the other side; the open leg is withheld
\* unless the close leg flattens the whole position.
FlipLegs(cur, tgt, whole) ==
    IF CloseQty(cur, whole) = 0 THEN <<>>
    ELSE IF Abs(cur) - CloseQty(cur, whole) > FlattenEps \/ OpenQty(tgt, whole) < Dust
    THEN <<CloseLeg(cur, whole)>>
    ELSE <<CloseLeg(cur, whole), OpenLeg(tgt, whole)>>

\* Mutant: the dust gate is left out.
DeltaLegs_noDust(cur, tgt, whole) ==
    IF Flips(cur, tgt) THEN FlipLegs(cur, tgt, whole)
    ELSE <<Leg("rebalance", Delta(cur, tgt, whole))>>

\* _delta_orders: the legs of one name, in the order they are submitted.
DeltaLegs(cur, tgt, whole) ==
    IF Abs(Delta(cur, tgt, whole)) < Dust THEN <<>>
    ELSE IF Flips(cur, tgt) THEN FlipLegs(cur, tgt, whole)
    ELSE <<Leg("rebalance", Delta(cur, tgt, whole))>>

\* How far past zero an order may start or end: the residual an open leg may
\* follow, and half the fourth decimal that Delta rounds the exit of a finer
\* holding to (so the open leg is not "the only order" that crosses zero).
Tolerance == IF FlattenEps > Tick \div 2 THEN FlattenEps ELSE Tick \div 2

\* An order crosses zero when it takes a position from one side to the other.
Crosses(cur, qty) ==
    \/ cur < -Tolerance /\ cur + qty > Tolerance
    \/ cur > Tolerance /\ cur + qty < -Tolerance

\* Executed in turn, no leg crosses zero.
NoLegCrosses(cur, legs) ==
    \A i \in 1 .. Len(legs) :
        ~ Crosses(IF i = 1 THEN cur ELSE cur + legs[1].qty, legs[i].qty)

=============================================================================
