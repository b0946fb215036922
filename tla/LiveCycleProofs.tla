-------------------------- MODULE LiveCycleProofs --------------------------
(***************************************************************************)
(* Proofs about the equity sleeve's cycle (LiveCycle): what its orders can *)
(* do to a position (DeltaOrders), that its record of outcomes has no gaps *)
(* but the two it can have, that no second book is stacked on the first,   *)
(* and that failed reconciliations stop it across processes and crashes.   *)
(***************************************************************************)
EXTENDS LiveCycle, SequenceTheorems, SumTheorems, TLAPS

-----------------------------------------------------------------------------
(* The arithmetic of the orders.                                           *)

LEMMA Remainder ==
    ASSUME NEW a \in Nat, NEW b \in Nat \ {0}
    PROVE  a % b \in Nat /\ a % b < b /\ a % b <= a
<1>1. a % b \in 0 .. b - 1  BY SMT
<1>2. a % b <= a  BY SMT
<1> QED  BY <1>1, <1>2

\* Truncation keeps the sign and never grows (the docstring of _trunc).
LEMMA TruncShrinks ==
    ASSUME NEW x \in Int, NEW step \in Nat \ {0}
    PROVE  /\ Trunc(x, step) \in Int
           /\ x >= 0 => Trunc(x, step) \in 0 .. x
           /\ x <= 0 => Trunc(x, step) \in x .. 0
<1>1. Abs(x) \in Nat /\ Abs(x) = (IF x < 0 THEN -x ELSE x)  BY DEF Abs
<1> DEFINE r == Abs(x) % step
<1>2. r \in Nat /\ r <= Abs(x)  BY <1>1, Remainder
<1>3. Trunc(x, step) = (IF x < 0 THEN -1 ELSE 1) * (Abs(x) - r)  BY DEF Trunc, Sign
<1> HIDE DEF r
<1> QED  BY <1>1, <1>2, <1>3

\* Rounding moves a quantity by half a step at most, and not past zero.
LEMMA RoundToIsNear ==
    ASSUME NEW x \in Int, NEW step \in Nat \ {0}
    PROVE  /\ RoundTo(x, step) \in Int
           /\ 2 * (RoundTo(x, step) - x) <= step
           /\ 2 * (x - RoundTo(x, step)) <= step
           /\ x >= 0 => RoundTo(x, step) >= 0
           /\ x <= 0 => RoundTo(x, step) <= 0
<1>1. Abs(x) \in Nat /\ Abs(x) = (IF x < 0 THEN -x ELSE x)  BY DEF Abs
<1> DEFINE r == Abs(x) % step
           up == 2 * r > step \/ (2 * r = step /\ ((Abs(x) - r) \div step) % 2 = 1)
<1>2. r \in Nat /\ r < step /\ r <= Abs(x)  BY <1>1, Remainder
<1>3. RoundTo(x, step) =
        (IF x < 0 THEN -1 ELSE 1) * (IF up THEN Abs(x) - r + step ELSE Abs(x) - r)
  BY DEF RoundTo, Sign
<1>4. (up => 2 * r >= step) /\ (~up => 2 * r <= step)  BY <1>2
<1> HIDE DEF r, up
<1>5. CASE up  BY <1>1, <1>2, <1>3, <1>4, <1>5
<1>6. CASE ~up  BY <1>1, <1>2, <1>3, <1>4, <1>6
<1> QED  BY <1>5, <1>6

\* What Delta is, by the two ways it is taken.
LEMMA DeltaType ==
    ASSUME NEW cur \in Int, NEW tgt \in Int, NEW whole \in BOOLEAN
    PROVE  Delta(cur, tgt, whole) \in Int
<1>1. Trunc(tgt - cur, Share) \in Int  BY TruncShrinks, DeltaAssumption
<1>2. tgt - cur \in Int  OBVIOUS
<1> QED  BY <1>1, <1>2, RoundToIsNear, DeltaAssumption DEF Delta

LEMMA CloseOpenTypes ==
    ASSUME NEW cur \in Int, NEW tgt \in Int, NEW whole \in BOOLEAN
    PROVE  /\ CloseQty(cur, whole) \in 0 .. Abs(cur)
           /\ OpenQty(tgt, whole) \in 0 .. Abs(tgt)
           /\ Abs(cur) \in Nat /\ Abs(tgt) \in Nat
<1>1. Abs(cur) \in Nat /\ Abs(tgt) \in Nat  BY DEF Abs
<1>2. \A s \in Nat \ {0} : Trunc(Abs(cur), s) \in 0 .. Abs(cur) /\ Trunc(Abs(tgt), s) \in 0 .. Abs(tgt)
  BY <1>1, TruncShrinks
<1> QED  BY <1>1, <1>2, DeltaAssumption DEF CloseQty, OpenQty

\* An order of quantity zero is never built.
LEMMA LegsType ==
    ASSUME NEW cur \in Int, NEW tgt \in Int, NEW whole \in BOOLEAN
    PROVE  DeltaLegs(cur, tgt, whole) \in Legs
<1> DEFINE d == Delta(cur, tgt, whole)
           c == CloseQty(cur, whole)
           o == OpenQty(tgt, whole)
           L == [tag : Tags, qty : Int \ {0}]
<1>1. d \in Int  BY DeltaType
<1>2. c \in Nat /\ o \in Nat  BY CloseOpenTypes
<1>3. Abs(d) >= Dust => Leg("rebalance", d) \in L
  BY <1>1, DeltaAssumption DEF Leg, Tags, Abs
<1>4. c # 0 => CloseLeg(cur, whole) \in L
  BY <1>2 DEF CloseLeg, Leg, Tags, Sign
<1>5. o >= Dust => OpenLeg(tgt, whole) \in L
  BY <1>2, DeltaAssumption DEF OpenLeg, Leg, Tags, Sign
<1>6. Abs(d) \in Int  BY <1>1 DEF Abs
<1>a. Abs(d) < Dust \/ Abs(d) >= Dust  BY <1>6, DeltaAssumption
<1>b. o < Dust \/ o >= Dust  BY <1>2, DeltaAssumption
<1> DEFINE rebalance == Leg("rebalance", d)
           close == CloseLeg(cur, whole)
           open == OpenLeg(tgt, whole)
<1>7. DeltaLegs(cur, tgt, whole) \in
        {<<>>} \cup (IF Abs(d) >= Dust THEN {<<rebalance>>} ELSE {})
               \cup (IF c # 0 THEN {<<close>>} ELSE {})
               \cup (IF c # 0 /\ o >= Dust THEN {<<close, open>>} ELSE {})
  BY <1>a, <1>b DEF DeltaLegs, FlipLegs
<1> HIDE DEF d, c, o, L, rebalance, close, open
<1>8. \A x, y \in L : <<>> \in Seq(L) /\ <<x>> \in Seq(L) /\ <<x, y>> \in Seq(L)
  OBVIOUS
<1>9. /\ Abs(d) >= Dust => rebalance \in L
      /\ c # 0 => close \in L
      /\ o >= Dust => open \in L
  BY <1>3, <1>4, <1>5 DEF rebalance, close, open
<1>10. <<>> \in Seq(L)  OBVIOUS
<1> QED  BY <1>7, <1>8, <1>9, <1>10 DEF Legs, L

\* A rebalance is the whole way to the target or less, up to its rounding.
LEMMA DeltaIsNear ==
    ASSUME NEW cur \in Int, NEW tgt \in Int, NEW whole \in BOOLEAN
    PROVE  LET d == Delta(cur, tgt, whole)
           IN  /\ d \in Int
               /\ tgt >= cur => 0 <= d /\ 2 * (d - (tgt - cur)) <= Tick
               /\ tgt <= cur => d <= 0 /\ 2 * ((tgt - cur) - d) <= Tick
<1> DEFINE x == tgt - cur
           t == Trunc(x, Share)
<1>1. x \in Int  OBVIOUS
<1>2. t \in Int /\ (x >= 0 => t \in 0 .. x) /\ (x <= 0 => t \in x .. 0)
  BY <1>1, TruncShrinks, DeltaAssumption
<1>3. Delta(cur, tgt, whole) \in {RoundTo(t, Tick), RoundTo(x, Tick)}
  BY DEF Delta
<1>4. Tick \in Nat \ {0}  BY DeltaAssumption
<1>5. (tgt >= cur => x >= 0) /\ (tgt <= cur => x <= 0)  OBVIOUS
<1> HIDE DEF x, t
<1>6. \A y \in {t, x} :
        /\ RoundTo(y, Tick) \in Int
        /\ 2 * (RoundTo(y, Tick) - y) <= Tick /\ 2 * (y - RoundTo(y, Tick)) <= Tick
        /\ y >= 0 => RoundTo(y, Tick) >= 0
        /\ y <= 0 => RoundTo(y, Tick) <= 0
  BY <1>1, <1>2, <1>4, RoundToIsNear
<1>7. ASSUME NEW d \in Int, NEW y \in {t, x},
             2 * (d - y) <= Tick, 2 * (y - d) <= Tick, y >= 0 => d >= 0, y <= 0 => d <= 0
      PROVE  /\ x >= 0 => 0 <= d /\ 2 * (d - x) <= Tick
             /\ x <= 0 => d <= 0 /\ 2 * (x - d) <= Tick
  BY <1>1, <1>2, <1>4, <1>7
<1>8. LET d == Delta(cur, tgt, whole)
      IN  /\ d \in Int
          /\ x >= 0 => 0 <= d /\ 2 * (d - x) <= Tick
          /\ x <= 0 => d <= 0 /\ 2 * (x - d) <= Tick
  BY <1>3, <1>6, <1>7
<1> QED  BY <1>5, <1>8 DEF x

LEMMA HalfTick ==
    /\ Tick \div 2 \in Nat /\ Tolerance \in Nat
    /\ FlattenEps <= Tolerance /\ Tick \div 2 <= Tolerance
    /\ \A k \in Int : 2 * k <= Tick => k <= Tick \div 2
<1>1. Tick \in Nat /\ FlattenEps \in Nat  BY DeltaAssumption
<1>2. Tick \div 2 \in Nat /\ Tick < 2 * (Tick \div 2) + 2  BY <1>1, SMT
<1> QED  BY <1>1, <1>2 DEF Tolerance

\* No leg takes a position from one side to the other, beyond the rounding of a
\* rebalance and the residual an open leg may follow (_delta_orders: an order
\* that crosses zero is refused, so the open leg never stands alone).
THEOREM LegsNeverCross ==
    ASSUME NEW cur \in Int, NEW tgt \in Int, NEW whole \in BOOLEAN
    PROVE  NoLegCrosses(cur, DeltaLegs(cur, tgt, whole))
<1> DEFINE d == Delta(cur, tgt, whole)
           c == CloseQty(cur, whole)
           o == OpenQty(tgt, whole)
<1>1. /\ d \in Int
      /\ tgt >= cur => 0 <= d /\ 2 * (d - (tgt - cur)) <= Tick
      /\ tgt <= cur => d <= 0 /\ 2 * ((tgt - cur) - d) <= Tick
  BY DeltaIsNear
<1>2. c \in 0 .. Abs(cur) /\ o \in Nat /\ Abs(cur) \in Nat  BY CloseOpenTypes
<1>3. CASE ~Flips(cur, tgt)
  <2>1. ~Crosses(cur, d)
    <3> HIDE DEF d
    <3>1. tgt >= cur => d - (tgt - cur) <= Tick \div 2  BY <1>1, HalfTick
    <3>2. tgt <= cur => (tgt - cur) - d <= Tick \div 2  BY <1>1, HalfTick
    <3> QED  BY <1>1, <1>3, <3>1, <3>2, HalfTick DEF Crosses, Flips
  <2>2. NoLegCrosses(cur, <<Leg("rebalance", d)>>)  BY <2>1 DEF NoLegCrosses, Leg
  <2>3. NoLegCrosses(cur, <<>>)  BY DEF NoLegCrosses
  <2> QED  BY <2>2, <2>3, <1>3 DEF DeltaLegs
<1>4. CASE Flips(cur, tgt)
  <2> DEFINE close == CloseLeg(cur, whole)
             open == OpenLeg(tgt, whole)
  <2>1. close.qty = -Sign(cur) * c  BY DEF CloseLeg, Leg
  <2>2. ~Crosses(cur, close.qty)  BY <1>2, <2>1, HalfTick DEF Crosses, Abs, Sign
  <2>3. Abs(cur) - c <= FlattenEps => ~Crosses(cur + close.qty, open.qty)
    <3> SUFFICES ASSUME Abs(cur) - c <= FlattenEps
                 PROVE  ~Crosses(cur + close.qty, open.qty)
      OBVIOUS
    <3>1. /\ cur + close.qty \in Int /\ FlattenEps \in Nat
          /\ -FlattenEps <= cur + close.qty /\ cur + close.qty <= FlattenEps
      BY <1>2, <2>1, DeltaAssumption DEF Abs, Sign
    <3> HIDE DEF close
    <3> QED  BY <3>1, HalfTick DEF Crosses
  <2> HIDE DEF close, open
  <2>4. NoLegCrosses(cur, <<>>)  BY DEF NoLegCrosses
  <2>5. NoLegCrosses(cur, <<close>>)  BY <2>2 DEF NoLegCrosses
  <2>6. Abs(cur) - c <= FlattenEps => NoLegCrosses(cur, <<close, open>>)
    <3> SUFFICES ASSUME Abs(cur) - c <= FlattenEps
                 PROVE  NoLegCrosses(cur, <<close, open>>)
      OBVIOUS
    <3> DEFINE legs == <<close, open>>
    <3>1. Len(legs) = 2 /\ legs[1] = close /\ legs[2] = open  OBVIOUS
    <3> HIDE DEF legs
    <3>2. \A i \in 1 .. 2 : ~Crosses(IF i = 1 THEN cur ELSE cur + legs[1].qty, legs[i].qty)
      BY <2>2, <2>3, <3>1
    <3> QED  BY <3>1, <3>2 DEF NoLegCrosses, legs
  <2>7. NoLegCrosses(cur, FlipLegs(cur, tgt, whole))
    BY <1>2, <2>4, <2>5, <2>6, DeltaAssumption DEF FlipLegs, close, open
  <2> QED  BY <2>4, <2>7, <1>4 DEF DeltaLegs
<1> QED  BY <1>3, <1>4

-----------------------------------------------------------------------------
(* Type correctness.                                                       *)

LEMMA TargetType ==
    ASSUME NEW z \in Sizings, NEW n \in Names
    PROVE  Target(z, n) \in Int /\ Whole(z, n) \in BOOLEAN
<1>1. z.raw[n] \in Int  BY CycleAssumption DEF Sizings
<1>2. /\ Trunc(z.raw[n], Share) \in Int /\ RoundTo(z.raw[n], Tick) \in Int
      /\ Trunc(Trunc(z.raw[n], Share), Share) \in Int /\ Trunc(RoundTo(z.raw[n], Tick), Share) \in Int
  BY <1>1, TruncShrinks, RoundToIsNear, DeltaAssumption
<1>3. Whole(z, n) \in BOOLEAN  BY DEF Whole, Sizings
<1> QED  BY <1>2, <1>3 DEF Target, SizedTarget

LEMMA AllowedBounds ==
    ASSUME NEW z \in Sizings, NEW n \in Names, snap \in [Names -> Int]
    PROVE  LET a == Allowed(z, n)
               h == Tick \div 2
           IN  /\ a \in [lo : Int, hi : Int]
               /\ \A x \in {0, snap[n]} : a.lo + h <= x /\ x <= a.hi - h
               /\ n \in z.priced /\ ~z.derisk =>
                    a.lo + h <= Target(z, n) /\ Target(z, n) <= a.hi - h
<1> DEFINE t == Target(z, n)
           s == {0, snap[n]} \cup (IF n \in z.priced /\ ~z.derisk THEN {t} ELSE {})
           h == Tick \div 2
<1>1. t \in Int /\ snap[n] \in Int /\ h \in Nat  BY TargetType, HalfTick
<1>2. s = {0, snap[n]} \/ s = {0, snap[n], t}  OBVIOUS
<1>3. \A x \in {0, snap[n]} : x \in s  OBVIOUS
<1>4. n \in z.priced /\ ~z.derisk => t \in s  OBVIOUS
<1>5. Allowed(z, n) = [lo |-> Min(s) - h, hi |-> Max(s) + h]  BY DEF Allowed
<1> HIDE DEF s, t, h
<1>6. \E x \in s : \A y \in s : x <= y  BY <1>1, <1>2
<1>7. \E x \in s : \A y \in s : x >= y  BY <1>1, <1>2
<1>8. Min(s) \in s /\ \A y \in s : Min(s) <= y  BY <1>6 DEF Min
<1>9. Max(s) \in s /\ \A y \in s : Max(s) >= y  BY <1>7 DEF Max
<1>10. s \subseteq Int  BY <1>1, <1>2
<1> DEFINE lo == Min(s)
           hi == Max(s)
<1> HIDE DEF lo, hi
<1>11. /\ lo \in Int /\ hi \in Int
       /\ \A x \in s : lo <= x /\ x <= hi
       /\ Allowed(z, n) = [lo |-> lo - h, hi |-> hi + h]
  BY <1>5, <1>8, <1>9, <1>10 DEF lo, hi
<1>12. /\ Allowed(z, n) \in [lo : Int, hi : Int]
       /\ Allowed(z, n).lo + h = lo /\ Allowed(z, n).hi - h = hi
  BY <1>1, <1>11
<1> QED  BY <1>3, <1>4, <1>11, <1>12 DEF t, h

LEMMA NameLegsType ==
    ASSUME NEW z \in Sizings, NEW n \in Names, snap \in [Names -> Int]
    PROVE  NameLegs(z, n) \in Legs
<1>1. DeltaLegs(snap[n], Target(z, n), Whole(z, n)) \in Legs  BY TargetType, LegsType
<1>2. <<>> \in Legs  BY DEF Legs
<1> QED  BY <1>1, <1>2 DEF NameLegs

LEMMA OrderTypes ==
    ASSUME NEW o \in Orders
    PROVE  /\ o.name \in Names /\ o.qty \in Int /\ o.filled \in Int /\ o.open \in BOOLEAN
           /\ Closed(o) \in Orders /\ ~Closed(o).open /\ Closed(o).filled = o.filled
           /\ \A q \in Nat : Sign(o.qty) * q \in Int /\ Filled(o, q) \in Orders
<1>2. /\ o.name \in Names /\ o.tag \in Tags /\ o.qty \in Int \ {0}
      /\ o.filled \in Int /\ o.open \in BOOLEAN
  BY DEF Orders
<1>3. Closed(o) \in Orders /\ ~Closed(o).open /\ Closed(o).filled = o.filled
  BY DEF Closed, Orders
<1>4. ASSUME NEW q \in Nat
      PROVE  Sign(o.qty) * q \in Int /\ Filled(o, q) \in Orders
  <2> DEFINE step == Sign(o.qty) * q
             left == Abs(o.filled) + q < Abs(o.qty)
             sum == o.filled + step
  <2>1. step \in Int /\ left \in BOOLEAN /\ sum \in Int  BY <1>2 DEF Sign
  <2>2. Filled(o, q) = [o EXCEPT !.filled = sum, !.open = left]  BY DEF Filled
  <2> HIDE DEF left, sum
  <2>3. \A f \in Int, b \in BOOLEAN : [o EXCEPT !.filled = f, !.open = b] \in Orders
    BY DEF Orders
  <2> QED  BY <2>1, <2>2, <2>3
<1> QED  BY <1>2, <1>3, <1>4

LEMMA NoLegs == <<>> \in Legs
BY DEF Legs

LEMMA SeqShape ==
    orders \in Seq(Orders) =>
        /\ Len(orders) \in Nat /\ DOMAIN orders = 1 .. Len(orders)
        /\ \A i \in DOMAIN orders : orders[i] \in Orders
BY LenProperties, ElementOfSeq

\* A sum over some of the orders is an integer.
LEMMA UnfilledType ==
    ASSUME orders \in Seq(Orders), NEW S \in SUBSET DOMAIN orders, NEW n, NEW side
    PROVE  UnfilledOf(S, n, side) \in Int
<1> DEFINE K == {i \in S : orders[i].name = n /\ Sign(orders[i].qty) = side}
           left == [i \in K |-> orders[i].qty - orders[i].filled]
<1>1. UnfilledOf(S, n, side) = SumFunctionOnSet(left, K)
  BY DEF UnfilledOf, SumFunctionOnSet, FoldFunctionOnSet, MapThenFoldSet, MapThenSumSet
<1>2. K \in SUBSET DOMAIN orders /\ IsFiniteSet(DOMAIN orders)
  <2>1. DOMAIN orders = 1 .. Len(orders) /\ Len(orders) \in Nat  BY SeqShape
  <2> QED  BY <2>1, FS_Interval
<1>3. IsFiniteSet(K)  BY <1>2, FS_Subset
<1>4. \A i \in K : left[i] \in Int
  <2>1. \A i \in DOMAIN orders : orders[i].qty \in Int /\ orders[i].filled \in Int
    BY SeqShape, OrderTypes
  <2> QED  BY <1>2, <2>1
<1> HIDE DEF K, left
<1> QED  BY <1>1, <1>3, <1>4, SumInt

LEMMA BoundsType ==
    ASSUME CycleTypeOK, NEW z \in Sizings, NEW n \in Names
    PROVE  Bounds(z, n) \in [lo : Int, hi : Int]
<1> DEFINE late == OpenOrders \cap lingered
           a == Allowed(z, n)
<1>1. snap \in [Names -> Int] /\ pos[n] \in Int /\ orders \in Seq(Orders)  BY DEF CycleTypeOK
<1>2. a \in [lo : Int, hi : Int]  BY <1>1, AllowedBounds
<1>3. late \in SUBSET DOMAIN orders  BY DEF OpenOrders
<1>4. UnfilledOf(late, n, 1) \in Int /\ UnfilledOf(late, n, -1) \in Int
  BY <1>1, <1>3, UnfilledType
<1> HIDE DEF a, late
<1>5. a.lo \in Int /\ a.hi \in Int /\ snap[n] \in Int  BY <1>1, <1>2
<1> QED  BY <1>1, <1>4, <1>5 DEF Bounds, a, late

LEMMA SeqUpdate ==
    ASSUME orders \in Seq(Orders), NEW i \in DOMAIN orders, NEW o \in Orders,
           orders' = [orders EXCEPT ![i] = o]
    PROVE  orders' \in Seq(Orders) /\ DOMAIN orders' = DOMAIN orders
<1>1. i \in 1 .. Len(orders)  BY SeqShape
<1> QED  BY <1>1, ExceptSeq

\* A record of the fills table never loses its shape.
LEMMA RecordType ==
    ASSUME CycleTypeOK, NEW rows \in SUBSET DOMAIN orders, Record(rows)
    PROVE  DOMAIN fills' \subseteq DOMAIN orders /\ \A i \in DOMAIN fills' : fills'[i] \in Int
<1>1. orders \in Seq(Orders)  BY DEF CycleTypeOK
<1>2. \A i \in DOMAIN orders : orders[i].filled \in Int  BY <1>1, SeqShape, OrderTypes
<1>3. DOMAIN fills \subseteq DOMAIN orders /\ \A i \in DOMAIN fills : fills[i] \in Int  BY DEF CycleTypeOK
<1> QED  BY <1>2, <1>3 DEF Record

LEMMA PartsOfListed ==
    \A rows \in AscendingParts : rows \subseteq Listed /\ rows \in SUBSET DOMAIN orders
BY DEF AscendingParts, Listed

\* Every variable keeps its type: orders and legs are never of quantity zero.
THEOREM CycleTypeCorrect == CycleSpec => []CycleTypeOK
<1> USE CycleAssumption
<1>1. CycleInit => CycleTypeOK
  <2>1. <<>> \in Seq(Orders) /\ DOMAIN <<>> = {}  OBVIOUS
  <2> SUFFICES ASSUME CycleInit PROVE CycleTypeOK
    OBVIOUS
  <2>2. DOMAIN fills = {} /\ orders \in Seq(Orders) /\ stale \subseteq DOMAIN orders
    BY <2>1 DEF CycleInit
  <2>3. queue \in [Names -> Legs] /\ snap \in [Names -> Int] /\ pos \in [Names -> Int]
    BY NoLegs DEF CycleInit
  <2>4. hull \in [Names -> [lo : Int, hi : Int]]  BY DEF CycleInit
  <2>5. cycles \in 0 .. MaxCycles /\ DOMAIN fills \subseteq DOMAIN orders /\ \A i \in DOMAIN fills : fills[i] \in Int
    BY <2>2 DEF CycleInit
  <2> QED  BY <2>2, <2>3, <2>4, <2>5 DEF CycleInit, CycleTypeOK, Phases
<1>2. CycleTypeOK /\ [CycleNext]_cycleVars => CycleTypeOK'
  <2> SUFFICES ASSUME CycleTypeOK, [CycleNext]_cycleVars
               PROVE  CycleTypeOK'
    OBVIOUS
  <2> USE DEF procVars, venueVars, haltVars, recordVars, pastVars
  <2>a. orders \in Seq(Orders) /\ queue \in [Names -> Legs] /\ pos \in [Names -> Int]
    BY DEF CycleTypeOK
  <2>b. ASSUME orders' \in Seq(Orders), pos' \in [Names -> Int], DOMAIN orders \subseteq DOMAIN orders',
               floor' \in Nat, UNCHANGED <<procVars, recordVars, kill, pastVars>>
        PROVE  CycleTypeOK'
    BY <2>b DEF CycleTypeOK
  <2>c. ASSUME Ends, UNCHANGED <<venueVars, recordVars, pastVars>>, kill' \in BOOLEAN
        PROVE  CycleTypeOK'
    BY <2>c, NoLegs DEF CycleTypeOK, Ends, Phases
  <2>1. CASE VenueFills
    <3>1. PICK i \in OpenOrders, q \in FillSteps : Fill(i, q)  BY <2>1 DEF VenueFills
    <3>2. i \in DOMAIN orders /\ orders[i] \in Orders /\ q \in Nat
      BY <2>a, <3>1, SeqShape DEF OpenOrders
    <3>3. orders[i].name \in Names /\ Sign(orders[i].qty) * q \in Int /\ Filled(orders[i], q) \in Orders
      BY <3>2, OrderTypes
    <3>4. pos' \in [Names -> Int]  BY <2>a, <3>1, <3>3 DEF Fill
    <3>5. orders' = [orders EXCEPT ![i] = Filled(orders[i], q)]  BY <3>1 DEF Fill
    <3>6. orders' \in Seq(Orders) /\ DOMAIN orders' = DOMAIN orders
      BY <2>a, <3>2, <3>3, <3>5, SeqUpdate
    <3> QED  BY <2>1, <2>b, <3>4, <3>6 DEF VenueFills, CycleTypeOK
  <2>2. CASE VenueExpires
    <3>1. PICK i \in OpenOrders : orders' = [orders EXCEPT ![i] = Closed(orders[i])]
      BY <2>2 DEF VenueExpires
    <3>2. i \in DOMAIN orders /\ Closed(orders[i]) \in Orders
      BY <2>a, <3>1, SeqShape, OrderTypes DEF OpenOrders
    <3>3. orders' \in Seq(Orders) /\ DOMAIN orders' = DOMAIN orders
      BY <2>a, <3>1, <3>2, SeqUpdate
    <3> QED  BY <2>2, <2>a, <2>b, <3>3 DEF VenueExpires, CycleTypeOK
  <2>17. CASE TimePasses
    <3>1. floor' \in Nat
      <4>1. floor \in Nat /\ Len(orders) \in Nat  BY <2>a, SeqShape DEF CycleTypeOK
      <4>2. PICK f \in floor + 1 .. Len(orders) : floor' = f  BY <2>17 DEF TimePasses
      <4> QED  BY <4>1, <4>2
    <3> QED  BY <2>17, <2>a, <2>b, <3>1 DEF TimePasses
  <2>3. CASE Start
    <3>1. cycles' \in 0 .. MaxCycles  BY <2>3 DEF Start, CycleTypeOK
    <3> QED  BY <2>3, <3>1 DEF Start, CycleTypeOK, Phases
  <2>4. CASE ListOpen
    BY <2>4 DEF ListOpen, CycleTypeOK, Phases, OpenOrders
  <2>5. CASE CancelOne
    <3>1. PICK i \in stale : /\ stale' = stale \ {i}
                            /\ \/ orders' = [orders EXCEPT ![i] = Closed(orders[i])]
                               \/ UNCHANGED orders
                            /\ lingered' \subseteq lingered \cup {i}
      BY <2>5 DEF CancelOne
    <3>2. i \in DOMAIN orders  BY DEF CycleTypeOK
    <3>3. Closed(orders[i]) \in Orders  BY <2>a, <3>2, SeqShape, OrderTypes
    <3>4. orders' \in Seq(Orders) /\ DOMAIN orders' = DOMAIN orders
      BY <2>a, <3>1, <3>2, <3>3, SeqUpdate
    <3> QED  BY <2>5, <3>1, <3>4 DEF CancelOne, CycleTypeOK
  <2>6. CASE CancelDone
    BY <2>6 DEF CancelDone, CycleTypeOK, Phases
  <2>7. CASE Snapshot
    BY <2>7 DEF Snapshot, CycleTypeOK, Phases
  <2>8. CASE Size
    <3>1. PICK z \in Sizings :
            \/ kill' = TRUE /\ Ends /\ UNCHANGED hull
            \/ /\ queue' = [n \in Names |-> NameLegs(z, n)]
               /\ hull' = [n \in Names |-> Bounds(z, n)]
               /\ phase' = "check"
               /\ UNCHANGED <<stale, snap, kill>>
      BY <2>8 DEF Size
    <3>2. snap \in [Names -> Int]  BY DEF CycleTypeOK
    <3>3. /\ [n \in Names |-> NameLegs(z, n)] \in [Names -> Legs]
          /\ [n \in Names |-> Bounds(z, n)] \in [Names -> [lo : Int, hi : Int]]
      BY <3>2, NameLegsType, BoundsType
    <3>4. CASE kill' = TRUE /\ Ends /\ UNCHANGED hull
      BY <2>8, <2>c, <3>4 DEF Size
    <3>5. CASE /\ queue' = [n \in Names |-> NameLegs(z, n)]
               /\ hull' = [n \in Names |-> Bounds(z, n)]
               /\ phase' = "check"
               /\ UNCHANGED <<stale, snap, kill>>
      BY <2>8, <3>3, <3>5 DEF Size, CycleTypeOK, Phases
    <3> QED  BY <3>1, <3>4, <3>5
  <2>9. CASE CheckKill
    <3>1. CASE kill
      BY <2>9, <2>c, <3>1 DEF CheckKill, CycleTypeOK
    <3>2. CASE ~kill
      BY <2>9, <3>2 DEF CheckKill, CycleTypeOK, Phases
    <3> QED  BY <3>1, <3>2
  <2>10. CASE ReconcileSucceeds
    <3>1. PICK rows \in AscendingParts : Record(rows)
      BY <2>10 DEF ReconcileSucceeds
    <3> QED  BY <2>10, <3>1, RecordType, PartsOfListed DEF ReconcileSucceeds, CycleTypeOK, Phases
  <2>11. CASE ReconcileFails
    <3>1. PICK rows \in AscendingParts : Record(rows)  BY <2>11 DEF ReconcileFails
    <3>2. DOMAIN fills' \subseteq DOMAIN orders /\ \A i \in DOMAIN fills' : fills'[i] \in Int
      BY <3>1, RecordType, PartsOfListed
    <3>3. failures' \in Nat /\ raised' \in Nat /\ uncounted' \in Nat /\ excused' \in Nat
      BY <2>11 DEF ReconcileFails, CountedFailures, CycleTypeOK
    <3>4. \/ kill' = TRUE /\ Ends
          \/ phase' = "submit" /\ UNCHANGED <<stale, snap, queue, kill>>
      BY <2>11 DEF ReconcileFails
    <3>5. UNCHANGED <<venueVars, pastVars>>  BY <2>11 DEF ReconcileFails
    <3>6. CASE kill' = TRUE /\ Ends
      BY <3>2, <3>3, <3>5, <3>6, NoLegs DEF CycleTypeOK, Ends, Phases
    <3>7. CASE phase' = "submit" /\ UNCHANGED <<stale, snap, queue, kill>>
      BY <3>2, <3>3, <3>5, <3>7 DEF CycleTypeOK, Phases
    <3> QED  BY <3>4, <3>6, <3>7
  <2>18. CASE CountingFails
    <3>1. PICK rows \in AscendingParts : Record(rows)  BY <2>18 DEF CountingFails
    <3>2. DOMAIN fills' \subseteq DOMAIN orders /\ \A i \in DOMAIN fills' : fills'[i] \in Int
      BY <3>1, RecordType, PartsOfListed
    <3>3. failures' \in Nat /\ raised' \in Nat /\ uncounted' \in Nat /\ excused' = excused
      BY <2>18 DEF CountingFails, CountedFailures, CycleTypeOK
    <3>4. kill' = TRUE /\ Ends /\ UNCHANGED <<venueVars, pastVars>>  BY <2>18 DEF CountingFails
    <3> QED  BY <3>2, <3>3, <3>4, NoLegs DEF CycleTypeOK, Ends, Phases
  <2>12. CASE SubmitOne
    <3>1. PICK n \in Names :
            /\ queue[n] # <<>>
            /\ orders' = Append(orders, Order(n, Head(queue[n]))) \/ UNCHANGED orders
            /\ queue' = [queue EXCEPT ![n] = Tail(@)]
      BY <2>12 DEF SubmitOne
    <3>2. Head(queue[n]) \in [tag : Tags, qty : Int \ {0}] /\ Tail(queue[n]) \in Legs
      <4>1. queue[n] \in Seq([tag : Tags, qty : Int \ {0}])  BY <2>a DEF Legs
      <4> QED  BY <3>1, <4>1, HeadTailProperties DEF Legs
    <3>3. Order(n, Head(queue[n])) \in Orders  BY <3>2 DEF Order, Orders
    <3>4. orders' \in Seq(Orders) /\ DOMAIN orders \subseteq DOMAIN orders'
      <4>1. CASE UNCHANGED orders  BY <2>a, <4>1
      <4>2. CASE orders' = Append(orders, Order(n, Head(queue[n])))
        <5>1. orders' \in Seq(Orders) /\ Len(orders') = Len(orders) + 1
          BY <2>a, <3>3, <4>2, AppendProperties
        <5> QED  BY <2>a, <5>1, LenProperties
      <4> QED  BY <3>1, <4>1, <4>2
    <3>5. queue' \in [Names -> Legs]  BY <2>a, <3>1, <3>2
    <3> QED  BY <2>12, <3>4, <3>5 DEF SubmitOne, CycleTypeOK
  <2>13. CASE Finish
    BY <2>13, <2>c DEF Finish, CycleTypeOK
  <2>14. CASE EndEarly
    BY <2>14, <2>c DEF EndEarly, CycleTypeOK
  <2>15. CASE Operator
    BY <2>15 DEF Operator, CycleTypeOK
  <2>16. CASE UNCHANGED cycleVars
    BY <2>16 DEF cycleVars, CycleTypeOK
  <2> QED
    BY <2>1, <2>2, <2>3, <2>4, <2>5, <2>6, <2>7, <2>8, <2>9, <2>10, <2>11, <2>12, <2>13,
       <2>14, <2>15, <2>16, <2>17, <2>18 DEF CycleNext
<1> QED  BY <1>1, <1>2, PTL DEF CycleSpec

-----------------------------------------------------------------------------
(* The halt.                                                               *)

\* The inductive invariant: the table has the failures it could count, and
\* one it could not count keeps the system halted until it is armed again.
HaltInv ==
    /\ failures = raised - uncounted
    /\ uncounted <= excused \/ (kill /\ phase = "down")
    /\ phase = "submit" => failures < HaltAfter

\* Nothing is submitted once HaltAfter failures in a row have been counted, for
\* the count outlives the processes in its table; nor after one that could not
\* be counted, before the operator has armed the system again.
THEOREM FailuresHalt == CycleSpec => []HaltsOnFailures
<1>1. CycleInit => HaltInv
  BY DEF CycleInit, HaltInv
<1>2. CycleTypeOK /\ HaltInv /\ [CycleNext]_cycleVars => HaltInv'
  <2> SUFFICES ASSUME CycleTypeOK, HaltInv, [CycleNext]_cycleVars
               PROVE  HaltInv'
    OBVIOUS
  <2>a. /\ failures \in Nat /\ raised \in Nat /\ uncounted \in Nat /\ excused \in Nat
        /\ HaltAfter \in Nat \ {0} /\ kill \in BOOLEAN
    BY CycleAssumption DEF CycleTypeOK
  <2> USE DEF HaltInv, procVars, venueVars, haltVars, recordVars, pastVars
  <2>1. CASE ReconcileSucceeds
    BY <2>1, <2>a DEF ReconcileSucceeds
  <2>2. CASE ReconcileFails
    <3>1. uncounted <= excused  BY <2>2 DEF ReconcileFails
    <3>2. failures' \in Nat /\ failures' = raised' - uncounted' /\ uncounted' <= excused'
      BY <2>2, <2>a, <3>1 DEF ReconcileFails, CountedFailures
    <3>3. \/ phase' = "down"
          \/ phase' = "submit" /\ ~(failures' >= HaltAfter)
      BY <2>2 DEF ReconcileFails, Ends
    <3> QED  BY <2>a, <3>2, <3>3
  <2>3. CASE CountingFails
    <3>1. kill' = TRUE /\ phase' = "down"  BY <2>3 DEF CountingFails, Ends
    <3>2. failures' = raised' - uncounted'
      BY <2>3, <2>a DEF CountingFails, CountedFailures
    <3> QED  BY <3>1, <3>2
  <2>4. CASE Operator
    <3>1. CASE kill  BY <2>4, <2>a, <3>1 DEF Operator
    <3>2. CASE ~kill  BY <2>4, <2>a, <3>2 DEF Operator
    <3> QED  BY <3>1, <3>2
  <2>5. CASE VenueFills \/ VenueExpires \/ TimePasses \/ Start
    BY <2>5 DEF VenueFills, VenueExpires, TimePasses, Start
  <2>6. CASE ListOpen \/ CancelOne \/ CancelDone \/ Snapshot
    BY <2>6 DEF ListOpen, CancelOne, CancelDone, Snapshot
  <2>7. CASE Size
    <3>1. UNCHANGED recordVars /\ phase = "size" /\ phase' \in {"down", "check"}
      BY <2>7 DEF Size, Ends
    <3> QED  BY <3>1
  <2>8. CASE CheckKill
    <3>1. UNCHANGED recordVars /\ phase = "check" /\ phase' \in {"down", "reconcile"}
      BY <2>8 DEF CheckKill, Ends
    <3> QED  BY <3>1
  <2>9. CASE SubmitOne \/ Finish \/ EndEarly
    BY <2>9 DEF SubmitOne, Finish, EndEarly, Ends
  <2>10. CASE UNCHANGED cycleVars
    BY <2>10 DEF cycleVars
  <2> QED
    BY <2>1, <2>2, <2>3, <2>4, <2>5, <2>6, <2>7, <2>8, <2>9, <2>10 DEF CycleNext
<1>3. HaltInv => HaltsOnFailures  BY DEF HaltInv, HaltsOnFailures
<1> QED  BY <1>1, <1>2, <1>3, CycleTypeCorrect, PTL DEF CycleSpec

-----------------------------------------------------------------------------
(* The legs of a sized book.                                               *)

\* No sized book holds orders that take a position through zero when they are
\* executed in turn, whatever the resolution of orders and holdings.
THEOREM BookNeverThroughZero == CycleSpec => []NeverThroughZero
<1>1. CycleInit => NeverThroughZero
  BY DEF CycleInit, NeverThroughZero
<1>2. CycleTypeOK /\ NeverThroughZero /\ [CycleNext]_cycleVars => NeverThroughZero'
  <2> SUFFICES ASSUME CycleTypeOK, NeverThroughZero, [CycleNext]_cycleVars, phase' = "check"
               PROVE  \A n \in Names : NoLegCrosses(snap'[n], queue'[n])
    BY DEF NeverThroughZero
  <2> USE DEF procVars, venueVars, haltVars, recordVars, pastVars
  <2>1. CASE Size
    <3>1. PICK z \in Sizings : queue' = [n \in Names |-> NameLegs(z, n)] /\ UNCHANGED snap
      BY <2>1 DEF Size, Ends
    <3>2. ASSUME NEW n \in Names PROVE NoLegCrosses(snap[n], NameLegs(z, n))
      <4>1. snap[n] \in Int /\ Target(z, n) \in Int /\ Whole(z, n) \in BOOLEAN
        BY TargetType DEF CycleTypeOK
      <4>2. NoLegCrosses(snap[n], DeltaLegs(snap[n], Target(z, n), Whole(z, n)))
        BY <4>1, LegsNeverCross
      <4>3. NoLegCrosses(snap[n], <<>>)  BY DEF NoLegCrosses
      <4> QED  BY <4>2, <4>3 DEF NameLegs
    <3> QED  BY <3>1, <3>2
  <2>2. CASE VenueFills \/ VenueExpires \/ TimePasses \/ Operator
    BY <2>2 DEF VenueFills, VenueExpires, TimePasses, Operator, NeverThroughZero
  <2>3. CASE Start \/ ListOpen \/ CancelOne \/ CancelDone \/ Snapshot
    BY <2>3 DEF Start, ListOpen, CancelOne, CancelDone, Snapshot
  <2>4. CASE CheckKill
    BY <2>4 DEF CheckKill, Ends
  <2>5. CASE ReconcileSucceeds
    BY <2>5 DEF ReconcileSucceeds
  <2>6. CASE ReconcileFails \/ CountingFails
    <3>1. phase' \in {"down", "submit"}  BY <2>6 DEF ReconcileFails, CountingFails, Ends
    <3> QED  BY <3>1
  <2>7. CASE SubmitOne
    BY <2>7 DEF SubmitOne
  <2>8. CASE Finish \/ EndEarly
    BY <2>8 DEF Finish, EndEarly, Ends
  <2>9. CASE UNCHANGED cycleVars
    BY <2>9 DEF cycleVars, NeverThroughZero
  <2> QED  BY <2>1, <2>2, <2>3, <2>4, <2>5, <2>6, <2>7, <2>8, <2>9 DEF CycleNext
<1> QED  BY <1>1, <1>2, CycleTypeCorrect, PTL DEF CycleSpec

-----------------------------------------------------------------------------
(* The record of outcomes.                                                 *)

\* The sweep leaves nothing open but what outlived its cancel.
Swept ==
    /\ phase = "cancel" => OpenOrders \subseteq stale \cup lingered
    /\ phase \in {"snapshot", "size", "check", "reconcile"} => OpenOrders \subseteq lingered

RecordInv == NoOutcomeIsLost /\ Swept

\* An order that is recorded is closed, and what is closed stays as it is.
LEMMA RecordsKeep ==
    ASSUME CycleTypeOK, NoOutcomeIsLost, UNCHANGED fills,
           \A i \in DOMAIN orders : ~orders[i].open => orders'[i] = orders[i],
           lingered \subseteq lingered', floor' \in Nat, floor <= floor'
    PROVE  NoOutcomeIsLost'
<1> SUFFICES ASSUME NEW i \in DOMAIN fills, NEW j \in 1 .. i
             PROVE  IF j \in DOMAIN fills
                    THEN fills[j] = orders'[j].filled /\ ~orders'[j].open
                    ELSE j <= floor' \/ j \in lingered'
  BY DEF NoOutcomeIsLost
<1>1. DOMAIN fills \subseteq DOMAIN orders /\ floor \in Nat  BY DEF CycleTypeOK
<1>2. CASE j \in DOMAIN fills  BY <1>1, <1>2 DEF NoOutcomeIsLost
<1>3. CASE j \notin DOMAIN fills
  <2>1. j <= floor \/ j \in lingered  BY <1>3 DEF NoOutcomeIsLost
  <2>2. j \in Int  OBVIOUS
  <2> QED  BY <1>1, <1>3, <2>1, <2>2
<1> QED  BY <1>2, <1>3

\* One order is replaced: the others stay, and no other one opens.
LEMMA UpdateOne ==
    ASSUME orders \in Seq(Orders), NEW i \in DOMAIN orders, NEW o \in Orders,
           orders' = [orders EXCEPT ![i] = o]
    PROVE  /\ \A j \in DOMAIN orders : j # i => orders'[j] = orders[j]
           /\ orders'[i] = o
           /\ DOMAIN orders' = DOMAIN orders
           /\ OpenOrders' \subseteq OpenOrders \cup {i}
           /\ ~o.open => OpenOrders' \subseteq OpenOrders \ {i}
<1>1. DOMAIN orders' = DOMAIN orders  BY SeqUpdate
<1>2. \A j \in DOMAIN orders : orders'[j] = IF j = i THEN o ELSE orders[j]
  BY ExceptSeq, SeqShape
<1> QED  BY <1>1, <1>2 DEF OpenOrders

\* Recording an ascending part leaves no gap but orders that are still open or
\* too old to be listed.
LEMMA RecordLeavesNoGap ==
    ASSUME CycleTypeOK, NoOutcomeIsLost, OpenOrders \subseteq lingered,
           UNCHANGED <<orders, floor, lingered>>,
           NEW rows \in AscendingParts, Record(rows)
    PROVE  NoOutcomeIsLost'
<1> SUFFICES ASSUME NEW i \in DOMAIN fills', NEW j \in 1 .. i
             PROVE  IF j \in DOMAIN fills'
                    THEN fills'[j] = orders[j].filled /\ ~orders[j].open
                    ELSE j <= floor \/ j \in lingered
  BY DEF NoOutcomeIsLost
<1>1. /\ DOMAIN fills' = DOMAIN fills \cup rows
      /\ \A x \in DOMAIN fills' : fills'[x] = IF x \in rows THEN orders[x].filled ELSE fills[x]
  BY DEF Record
<1>2. DOMAIN orders = 1 .. Len(orders) /\ Len(orders) \in Nat /\ floor \in Nat
  BY SeqShape DEF CycleTypeOK
<1>3. i \in DOMAIN orders /\ DOMAIN fills \subseteq DOMAIN orders /\ rows \subseteq Listed
  BY <1>1, PartsOfListed DEF CycleTypeOK
<1>4. j \in DOMAIN orders /\ i \in Int /\ j \in Int /\ j <= i  BY <1>2, <1>3
<1>5. CASE j \in rows
  BY <1>1, <1>3, <1>5 DEF Listed
<1>6. CASE j \in DOMAIN fills /\ j \notin rows
  <2>1. j \in 1 .. j  BY <1>2, <1>4
  <2> QED  BY <1>1, <1>6, <2>1 DEF NoOutcomeIsLost
<1>7. CASE j \notin DOMAIN fills'
  <2>1. j \notin DOMAIN fills /\ j \notin rows  BY <1>1, <1>7
  <2> SUFFICES j <= floor \/ j \in lingered
    BY <1>7
  <2>2. CASE i \in DOMAIN fills
    BY <2>1, <2>2 DEF NoOutcomeIsLost
  <2>3. CASE i \in rows
    <3>1. PICK k \in {0} \cup Listed : rows = {x \in Listed : x <= k}  BY DEF AscendingParts
    <3>2. k \in Int  BY <1>2, <3>1 DEF Listed
    <3>3. j \notin Listed  BY <1>4, <2>1, <2>3, <3>1, <3>2
    <3>4. CASE orders[j].open  BY <1>4, <3>4 DEF OpenOrders
    <3>5. CASE ~(j > floor)  BY <1>2, <1>4, <3>5
    <3>6. CASE \E d \in DOMAIN fills : ~(d < j)
      <4>1. PICK d \in DOMAIN fills : ~(d < j)  BY <3>6
      <4>2. j \in 1 .. d  BY <1>2, <1>3, <1>4, <4>1
      <4> QED  BY <2>1, <4>1, <4>2 DEF NoOutcomeIsLost
    <3> QED  BY <1>4, <3>3, <3>4, <3>5, <3>6 DEF Listed
  <2> QED  BY <1>1, <2>2, <2>3
<1> QED  BY <1>1, <1>5, <1>6, <1>7

\* Both hold together: what is open when a listing is recorded outlived a cancel.
LEMMA RecordInvariant == CycleSpec => []RecordInv
<1>1. CycleInit => RecordInv
  BY DEF CycleInit, RecordInv, NoOutcomeIsLost, Swept
<1>2. CycleTypeOK /\ RecordInv /\ [CycleNext]_cycleVars => RecordInv'
  <2> SUFFICES ASSUME CycleTypeOK, RecordInv, [CycleNext]_cycleVars
               PROVE  RecordInv'
    OBVIOUS
  <2> USE DEF procVars, venueVars, haltVars, recordVars, pastVars
  <2>a. NoOutcomeIsLost /\ Swept  BY DEF RecordInv
  <2>b. orders \in Seq(Orders)  BY DEF CycleTypeOK
  <2>c. ASSUME UNCHANGED <<orders, fills, floor, lingered>>
        PROVE  NoOutcomeIsLost' /\ OpenOrders' = OpenOrders
    BY <2>a, <2>c DEF NoOutcomeIsLost, OpenOrders
  <2>e. floor \in Nat  BY DEF CycleTypeOK
  <2>d. ASSUME NEW i \in OpenOrders, NEW o \in Orders, orders' = [orders EXCEPT ![i] = o],
               UNCHANGED <<phase, stale, fills, floor, lingered>>
        PROVE  RecordInv'
    <3>1. i \in DOMAIN orders /\ orders[i].open  BY DEF OpenOrders
    <3>2. NoOutcomeIsLost'  BY <2>a, <2>b, <2>d, <2>e, <3>1, UpdateOne, RecordsKeep
    <3>3. OpenOrders' \subseteq OpenOrders  BY <2>b, <2>d, <3>1, UpdateOne
    <3> QED  BY <2>a, <2>d, <3>2, <3>3 DEF RecordInv, Swept
  <2>1. CASE VenueFills
    <3>1. PICK i \in OpenOrders, q \in FillSteps : orders' = [orders EXCEPT ![i] = Filled(orders[i], q)]
      BY <2>1 DEF VenueFills, Fill
    <3>2. Filled(orders[i], q) \in Orders
      BY <2>b, SeqShape, OrderTypes, CycleAssumption DEF OpenOrders
    <3> QED  BY <2>1, <2>d, <3>1, <3>2 DEF VenueFills
  <2>2. CASE VenueExpires
    <3>1. PICK i \in OpenOrders : orders' = [orders EXCEPT ![i] = Closed(orders[i])]
      BY <2>2 DEF VenueExpires
    <3>2. Closed(orders[i]) \in Orders
      BY <2>b, SeqShape, OrderTypes DEF OpenOrders
    <3> QED  BY <2>2, <2>d, <3>1, <3>2 DEF VenueExpires
  <2>3. CASE Start
    BY <2>3, <2>c DEF Start, RecordInv, Swept
  <2>4. CASE ListOpen
    BY <2>4, <2>c DEF ListOpen, RecordInv, Swept
  <2>5. CASE CancelOne
    <3>1. PICK i \in stale :
            /\ stale' = stale \ {i}
            /\ \/ orders' = [orders EXCEPT ![i] = Closed(orders[i])] /\ UNCHANGED lingered
               \/ UNCHANGED orders /\ lingered' = lingered \cup {i}
      BY <2>5 DEF CancelOne
    <3>2. i \in DOMAIN orders  BY DEF CycleTypeOK
    <3>3. orders[i] \in Orders  BY <2>b, <3>2, SeqShape
    <3>4. Closed(orders[i]) \in Orders /\ ~Closed(orders[i]).open  BY <3>3, OrderTypes
    <3>5. OpenOrders' \subseteq (OpenOrders \ {i}) \cup lingered'
      <4>1. CASE orders' = [orders EXCEPT ![i] = Closed(orders[i])]
        BY <2>b, <3>2, <3>4, <4>1, UpdateOne
      <4>2. CASE UNCHANGED orders /\ lingered' = lingered \cup {i}
        BY <4>2 DEF OpenOrders
      <4> QED  BY <3>1, <4>1, <4>2
    <3>6. \A j \in DOMAIN orders : ~orders[j].open => orders'[j] = orders[j]
      <4>1. ~orders[i].open => Closed(orders[i]) = orders[i]
        BY <3>3 DEF Closed, Orders
      <4>2. CASE orders' = [orders EXCEPT ![i] = Closed(orders[i])]
        BY <2>b, <3>2, <3>4, <4>1, <4>2, UpdateOne
      <4> QED  BY <3>1, <4>2
    <3>7. NoOutcomeIsLost'
      <4>1. lingered \subseteq lingered' /\ UNCHANGED <<fills, floor>>
        BY <2>5, <3>1 DEF CancelOne
      <4> QED  BY <2>a, <2>e, <3>6, <4>1, RecordsKeep
    <3>8. phase' = "cancel" /\ phase = "cancel"  BY <2>5 DEF CancelOne
    <3> QED  BY <2>a, <3>1, <3>5, <3>7, <3>8 DEF RecordInv, Swept
  <2>6. CASE CancelDone
    BY <2>6, <2>a, <2>c DEF CancelDone, RecordInv, Swept
  <2>7. CASE Snapshot
    BY <2>7, <2>a, <2>c DEF Snapshot, RecordInv, Swept
  <2>8. CASE Size
    <3>1. UNCHANGED <<orders, fills, floor, lingered>> /\ phase = "size" /\ phase' \in {"down", "check"}
      BY <2>8 DEF Size, Ends
    <3> QED  BY <2>a, <2>c, <3>1 DEF RecordInv, Swept
  <2>9. CASE CheckKill
    <3>1. UNCHANGED <<orders, fills, floor, lingered>> /\ phase = "check" /\ phase' \in {"down", "reconcile"}
      BY <2>9 DEF CheckKill, Ends
    <3> QED  BY <2>a, <2>c, <3>1 DEF RecordInv, Swept
  <2>10. CASE ReconcileSucceeds \/ ReconcileFails \/ CountingFails
    <3>1. PICK rows \in AscendingParts : Record(rows)
      BY <2>10 DEF ReconcileSucceeds, ReconcileFails, CountingFails
    <3>2. UNCHANGED <<orders, floor, lingered>> /\ phase = "reconcile" /\ phase' \in {"down", "submit"}
      BY <2>10 DEF ReconcileSucceeds, ReconcileFails, CountingFails, Ends
    <3>3. NoOutcomeIsLost'  BY <2>a, <3>1, <3>2, RecordLeavesNoGap DEF Swept
    <3> QED  BY <3>2, <3>3 DEF RecordInv, Swept
  <2>11. CASE SubmitOne
    <3>1. PICK n \in Names :
            queue[n] # <<>> /\ (orders' = Append(orders, Order(n, Head(queue[n]))) \/ UNCHANGED orders)
      BY <2>11 DEF SubmitOne
    <3>2. \A j \in DOMAIN orders : orders'[j] = orders[j]
      <4>1. queue[n] \in Seq([tag : Tags, qty : Int \ {0}])  BY DEF CycleTypeOK, Legs
      <4>2. Order(n, Head(queue[n])) \in Orders
        <5>1. Head(queue[n]) \in [tag : Tags, qty : Int \ {0}]
          BY <3>1, <4>1, HeadTailProperties
        <5> QED  BY <5>1 DEF Order, Orders
      <4>3. \A j \in 1 .. Len(orders) :
              Append(orders, Order(n, Head(queue[n])))[j] = orders[j]
        BY <2>b, <4>2, AppendProperties
      <4> QED  BY <2>b, <3>1, <4>3, SeqShape
    <3>3. NoOutcomeIsLost'  BY <2>11, <2>a, <2>e, <3>2, RecordsKeep DEF SubmitOne
    <3> QED  BY <2>11, <3>3 DEF SubmitOne, RecordInv, Swept
  <2>12. CASE Finish \/ EndEarly
    BY <2>12, <2>c DEF Finish, EndEarly, Ends, RecordInv, Swept
  <2>13. CASE Operator
    BY <2>13, <2>a, <2>c DEF Operator, RecordInv, Swept
  <2>14. CASE UNCHANGED cycleVars
    BY <2>14, <2>a, <2>c DEF cycleVars, RecordInv, Swept
  <2>15. CASE TimePasses
    <3>1. floor' \in Nat /\ floor <= floor'
      <4>1. Len(orders) \in Nat  BY <2>b, SeqShape
      <4>2. PICK f \in floor + 1 .. Len(orders) : floor' = f  BY <2>15 DEF TimePasses
      <4> QED  BY <2>e, <4>1, <4>2
    <3>2. UNCHANGED <<orders, fills, lingered>> /\ phase' = "down"  BY <2>15 DEF TimePasses
    <3>3. NoOutcomeIsLost'  BY <2>a, <3>1, <3>2, RecordsKeep
    <3> QED  BY <3>2, <3>3 DEF RecordInv, Swept
  <2> QED
    BY <2>1, <2>2, <2>3, <2>4, <2>5, <2>6, <2>7, <2>8, <2>9, <2>10, <2>11, <2>12, <2>13, <2>14, <2>15
       DEF CycleNext
<1> QED  BY <1>1, <1>2, CycleTypeCorrect, PTL DEF CycleSpec

\* Whatever crashes, fails to be read in full, fails to be counted or lands
\* without an answer, the record of outcomes has no gap below its newest entry
\* but orders that outlived a cancel or grew older than the lookback.
THEOREM OutcomesAreRecorded == CycleSpec => []NoOutcomeIsLost
<1>1. RecordInv => NoOutcomeIsLost  BY DEF RecordInv
<1>2. CycleSpec => []RecordInv  BY RecordInvariant
<1> QED  BY <1>1, <1>2, PTL

-----------------------------------------------------------------------------
(* The book never stacks.                                                  *)

\* What an order may still trade of n on one side.
Contribution(o, n, side) ==
    IF o.open /\ o.name = n /\ Sign(o.qty) = side THEN o.qty - o.filled ELSE 0

Contributions(ords, n, side) ==
    [i \in DOMAIN ords |-> Contribution(ords[i], n, side)]

OpenSum(ords, n, side) == SumFunctionOnSet(Contributions(ords, n, side), DOMAIN ords)

\* An open order has a part left, and traded only on its own side.
Sane(o) ==
    o.open => /\ Abs(o.filled) < Abs(o.qty)
              /\ o.qty > 0 => o.filled >= 0
              /\ o.qty < 0 => o.filled <= 0

\* What the queued orders of a name add on one side: a name has two at most.
OnSide(q, side) == IF Sign(q) = side THEN q ELSE 0
Queued(legs, side) ==
    (IF Len(legs) >= 1 THEN OnSide(legs[1].qty, side) ELSE 0)
    + (IF Len(legs) >= 2 THEN OnSide(legs[2].qty, side) ELSE 0)

\* The farthest a position of n can get on one side in this cycle.
Reach(n, side) == pos[n] + Unfilled(n, side) + Queued(queue[n], side)

\* The inductive invariant: what is queued counts as if it were open.
StackInv ==
    /\ \A i \in DOMAIN orders : Sane(orders[i])
    /\ \A n \in Names : Len(queue[n]) <= 2
    /\ \A n \in Names : hull[n].lo <= Reach(n, -1) /\ Reach(n, 1) <= hull[n].hi

LEMMA SeqOfOrders ==
    ASSUME NEW ords \in Seq(Orders)
    PROVE  /\ IsFiniteSet(DOMAIN ords)
           /\ DOMAIN ords = 1 .. Len(ords) /\ Len(ords) \in Nat
           /\ \A i \in DOMAIN ords : ords[i] \in Orders
<1>1. Len(ords) \in Nat /\ DOMAIN ords = 1 .. Len(ords)  BY LenProperties
<1>2. IsFiniteSet(1 .. Len(ords))  BY <1>1, FS_Interval
<1>3. \A i \in DOMAIN ords : ords[i] \in Orders  BY ElementOfSeq
<1> QED  BY <1>1, <1>2, <1>3

LEMMA ContributionType ==
    ASSUME NEW o \in Orders, NEW n, NEW side
    PROVE  Contribution(o, n, side) \in Int
<1>1. o.qty \in Int /\ o.filled \in Int  BY OrderTypes
<1> QED  BY <1>1 DEF Contribution

LEMMA OpenSumType ==
    ASSUME NEW ords \in Seq(Orders), NEW n, NEW side
    PROVE  /\ \A i \in DOMAIN ords : Contributions(ords, n, side)[i] \in Int
           /\ OpenSum(ords, n, side) \in Int
<1>1. \A i \in DOMAIN ords : Contributions(ords, n, side)[i] \in Int
  BY SeqOfOrders, ContributionType DEF Contributions
<1>2. OpenSum(ords, n, side) \in Int  BY <1>1, SeqOfOrders, SumInt DEF OpenSum
<1> QED  BY <1>1, <1>2

\* The property's sum over the open orders of a side is the sum of what every
\* order contributes.
LEMMA FilteredSum ==
    ASSUME NEW ords \in Seq(Orders), NEW n, NEW side
    PROVE  MapThenSumSet(LAMBDA i : ords[i].qty - ords[i].filled,
                         {i \in {j \in DOMAIN ords : ords[j].open} :
                            ords[i].name = n /\ Sign(ords[i].qty) = side})
             = OpenSum(ords, n, side)
<1> DEFINE K == {i \in {j \in DOMAIN ords : ords[j].open} :
                   ords[i].name = n /\ Sign(ords[i].qty) = side}
           left == [i \in K |-> ords[i].qty - ords[i].filled]
           c == Contributions(ords, n, side)
<1>1. MapThenSumSet(LAMBDA i : ords[i].qty - ords[i].filled, K) = SumFunctionOnSet(left, K)
  BY DEF SumFunctionOnSet, FoldFunctionOnSet, MapThenFoldSet, MapThenSumSet
<1>2. IsFiniteSet(K) /\ K \in SUBSET DOMAIN ords  BY SeqOfOrders, FS_Subset
<1>3. \A i \in K : left[i] = c[i]  BY DEF Contributions, Contribution
<1>4. \A i \in DOMAIN ords \ K : c[i] = 0  BY DEF Contributions, Contribution
<1>5. \A i \in DOMAIN ords : c[i] \in Int  BY OpenSumType
<1> HIDE DEF K, left, c
<1>6. SumFunctionOnSet(left, K) = SumFunctionOnSet(c, K)  BY <1>2, <1>3, SumEqual
<1>7. SumFunctionOnSet(c, K) = SumFunctionOnSet(c, DOMAIN ords)
  BY <1>2, <1>4, <1>5, SeqOfOrders, SumSupport
<1> QED  BY <1>1, <1>6, <1>7 DEF K, c, OpenSum

LEMMA UnfilledIs ==
    ASSUME NEW n, NEW side
    PROVE  /\ orders \in Seq(Orders) => Unfilled(n, side) = OpenSum(orders, n, side)
           /\ orders' \in Seq(Orders) => Unfilled(n, side)' = OpenSum(orders', n, side)
<1>1. orders \in Seq(Orders) => Unfilled(n, side) = OpenSum(orders, n, side)
  BY FilteredSum DEF Unfilled, UnfilledOf, OpenOrders
<1>2. (orders \in Seq(Orders) => Unfilled(n, side) = OpenSum(orders, n, side))'
  BY <1>1, PTL
<1> QED  BY <1>1, <1>2

LEMMA OpenSumChange ==
    ASSUME NEW ords \in Seq(Orders), NEW i \in DOMAIN ords, NEW o \in Orders,
           NEW n, NEW side
    PROVE  OpenSum([ords EXCEPT ![i] = o], n, side)
             = OpenSum(ords, n, side) + Contribution(o, n, side) - Contribution(ords[i], n, side)
<1> DEFINE new == [ords EXCEPT ![i] = o]
           f == Contributions(ords, n, side)
           g == Contributions(new, n, side)
<1>1. DOMAIN new = DOMAIN ords /\ new[i] = o /\ \A j \in DOMAIN ords \ {i} : new[j] = ords[j]
  BY SeqOfOrders, ExceptSeq
<1> HIDE DEF new
<1>2. g[i] = Contribution(o, n, side) /\ f[i] = Contribution(ords[i], n, side)
  BY <1>1 DEF Contributions
<1>3. \A j \in DOMAIN ords \ {i} : f[j] = g[j]  BY <1>1 DEF Contributions
<1>4. \A j \in DOMAIN ords : f[j] \in Int  BY OpenSumType
<1>5. \A j \in DOMAIN ords : g[j] \in Int
  <2>1. Contribution(o, n, side) \in Int  BY ContributionType
  <2> QED  BY <1>2, <1>3, <1>4, <2>1
<1> DEFINE D == DOMAIN ords
<1>6. /\ IsFiniteSet(D) /\ i \in D
      /\ \A j \in D : f[j] \in Int /\ g[j] \in Int
      /\ \A j \in D \ {i} : f[j] = g[j]
  BY <1>3, <1>4, <1>5, SeqOfOrders
<1>8. OpenSum(new, n, side) = SumFunctionOnSet(g, D)  BY <1>1 DEF OpenSum
<1>9. OpenSum(ords, n, side) = SumFunctionOnSet(f, D)  BY DEF OpenSum
<1> HIDE DEF f, g, D
<1>7. SumFunctionOnSet(g, D) = SumFunctionOnSet(f, D) + g[i] - f[i]
  <2>1. D \ {i} \in SUBSET D /\ IsFiniteSet(D \ {i})  BY <1>6, FS_Subset
  <2>2. SumFunctionOnSet(f, D \ {i}) = SumFunctionOnSet(g, D \ {i})
    BY <1>6, <2>1, SumEqual
  <2>3. /\ SumFunctionOnSet(f, D) = f[i] + SumFunctionOnSet(f, D \ {i})
        /\ SumFunctionOnSet(f, D \ {i}) \in Int
    <3>1. \A x \in D : f[x] \in Int  BY <1>6
    <3> QED  BY <1>6, <3>1, SumRemove
  <2>4. SumFunctionOnSet(g, D) = g[i] + SumFunctionOnSet(g, D \ {i})
    <3>1. \A x \in D : g[x] \in Int  BY <1>6
    <3> QED  BY <1>6, <3>1, SumRemove
  <2> QED  BY <1>6, <2>2, <2>3, <2>4
<1> QED  BY <1>2, <1>7, <1>8, <1>9 DEF new

LEMMA OpenSumAppend ==
    ASSUME NEW ords \in Seq(Orders), NEW o \in Orders, NEW n, NEW side
    PROVE  OpenSum(Append(ords, o), n, side)
             = OpenSum(ords, n, side) + Contribution(o, n, side)
<1> DEFINE new == Append(ords, o)
           k == Len(ords) + 1
           f == Contributions(ords, n, side)
           g == Contributions(new, n, side)
<1>1. /\ new \in Seq(Orders) /\ Len(new) = k /\ new[k] = o
      /\ \A j \in 1 .. Len(ords) : new[j] = ords[j]
  BY AppendProperties
<1>2. Len(ords) \in Nat /\ DOMAIN ords = 1 .. Len(ords) /\ DOMAIN new = 1 .. k
  BY <1>1, SeqOfOrders
<1> HIDE DEF new
<1>3. k \in DOMAIN new /\ DOMAIN new \ {k} = DOMAIN ords  BY <1>2
<1>4. g[k] = Contribution(o, n, side) /\ \A j \in DOMAIN ords : g[j] = f[j]
  BY <1>1, <1>2, <1>3 DEF Contributions
<1>5. \A j \in DOMAIN new : g[j] \in Int  BY <1>1, OpenSumType
<1>6. IsFiniteSet(DOMAIN new) /\ IsFiniteSet(DOMAIN ords)  BY <1>1, SeqOfOrders
<1> HIDE DEF f, g, k
<1>7. SumFunctionOnSet(g, DOMAIN new) = g[k] + SumFunctionOnSet(g, DOMAIN ords)
  BY <1>3, <1>5, <1>6, SumRemove
<1>8. SumFunctionOnSet(g, DOMAIN ords) = SumFunctionOnSet(f, DOMAIN ords)
  BY <1>4, <1>6, SumEqual
<1>9. SumFunctionOnSet(f, DOMAIN ords) \in Int /\ g[k] \in Int
  BY <1>3, <1>5, OpenSumType DEF OpenSum, f
<1>10. g[k] + SumFunctionOnSet(f, DOMAIN ords) = SumFunctionOnSet(f, DOMAIN ords) + g[k]
  BY <1>9
<1> QED  BY <1>4, <1>7, <1>8, <1>10 DEF OpenSum, f, g, new

LEMMA NothingOpen ==
    ASSUME NEW ords \in Seq(Orders), \A i \in DOMAIN ords : ~ords[i].open, NEW n, NEW side
    PROVE  OpenSum(ords, n, side) = 0
<1>1. \A i \in DOMAIN ords : Contributions(ords, n, side)[i] = 0
  BY DEF Contributions, Contribution
<1> QED  BY <1>1, SeqOfOrders, SumZero DEF OpenSum

-----------------------------------------------------------------------------
(* One order, one name.                                                    *)

LEMMA SignIs == \A x \in Int : /\ x >= 0 => Sign(x) = 1 /\ Abs(x) = x
                               /\ x < 0 => Sign(x) = -1 /\ Abs(x) = -x
BY DEF Sign, Abs

\* What an order contributes has the sign of the side.
LEMMA ContributionSign ==
    ASSUME NEW o \in Orders, Sane(o), NEW n
    PROVE  /\ Contribution(o, n, 1) >= 0
           /\ Contribution(o, n, -1) <= 0
           /\ Contribution(Closed(o), n, 1) = 0
           /\ Contribution(Closed(o), n, -1) = 0
<1>1. o.qty \in Int /\ o.filled \in Int /\ ~Closed(o).open  BY OrderTypes
<1>2. Contribution(Closed(o), n, 1) = 0 /\ Contribution(Closed(o), n, -1) = 0
  BY <1>1 DEF Contribution
<1>3. CASE ~o.open  BY <1>2, <1>3 DEF Contribution
<1>4. CASE o.open
  <2>1. /\ Abs(o.filled) < Abs(o.qty)
        /\ o.qty > 0 => o.filled >= 0
        /\ o.qty < 0 => o.filled <= 0
    BY <1>4 DEF Sane
  <2> QED  BY <1>1, <1>2, <2>1 DEF Contribution, Sign, Abs
<1> QED  BY <1>3, <1>4

\* A fill takes from what is left what it adds to the position; on the other
\* side it only moves the position away.
LEMMA FillReach ==
    ASSUME NEW o \in Orders, o.open, Sane(o), NEW q \in Nat, q > 0,
           q <= Abs(o.qty) - Abs(o.filled), NEW n
    PROVE  LET f == Filled(o, q)
               step == IF o.name = n THEN Sign(o.qty) * q ELSE 0
           IN  /\ Sane(f)
               /\ step + Contribution(f, n, 1) <= Contribution(o, n, 1)
               /\ step + Contribution(f, n, -1) >= Contribution(o, n, -1)
<1>1. o.qty \in Int \ {0} /\ o.filled \in Int  BY DEF Orders
<1>2. /\ Abs(o.filled) < Abs(o.qty)
      /\ o.qty > 0 => o.filled >= 0
      /\ o.qty < 0 => o.filled <= 0
  BY DEF Sane
<1> DEFINE f == Filled(o, q)
           sum == o.filled + Sign(o.qty) * q
           left == Abs(o.filled) + q < Abs(o.qty)
<1>3. f = [o EXCEPT !.filled = sum, !.open = left]  BY DEF Filled
<1> HIDE DEF sum, left, f
<1>4. f.filled = sum /\ f.open = left /\ f.qty = o.qty /\ f.name = o.name
  BY <1>3 DEF Orders
<1>5. CASE o.qty > 0
  <2>1. /\ Sign(o.qty) = 1 /\ sum = o.filled + q /\ o.filled >= 0 /\ Abs(o.filled) = o.filled
        /\ left <=> o.filled + q < o.qty
        /\ q <= o.qty - o.filled
    BY <1>1, <1>2, <1>5, SignIs DEF sum, left
  <2>2. Sane(f)  BY <1>1, <1>4, <1>5, <2>1, SignIs DEF Sane
  <2>3. CASE o.name = n
    BY <1>1, <1>4, <2>1, <2>2, <2>3 DEF Contribution, f
  <2>4. CASE o.name # n
    BY <1>4, <2>2, <2>4 DEF Contribution, f
  <2> QED  BY <2>3, <2>4
<1>6. CASE o.qty < 0
  <2>1. /\ Sign(o.qty) = -1 /\ sum = o.filled - q /\ o.filled <= 0 /\ Abs(o.filled) = -o.filled
        /\ left <=> q - o.filled < -o.qty
        /\ q <= o.filled - o.qty
    BY <1>1, <1>2, <1>6, SignIs DEF sum, left
  <2>2. Sane(f)  BY <1>1, <1>4, <1>6, <2>1, SignIs DEF Sane
  <2>3. CASE o.name = n
    BY <1>1, <1>4, <2>1, <2>2, <2>3 DEF Contribution, f
  <2>4. CASE o.name # n
    BY <1>4, <2>2, <2>4 DEF Contribution, f
  <2> QED  BY <2>3, <2>4
<1> QED  BY <1>1, <1>5, <1>6

LEMMA LegQuantities ==
    ASSUME NEW legs \in Legs
    PROVE  /\ Len(legs) \in Nat
           /\ Len(legs) >= 1 => legs[1].qty \in Int
           /\ Len(legs) >= 2 => legs[2].qty \in Int
<1> DEFINE L == [tag : Tags, qty : Int \ {0}]
<1>1. legs \in Seq(L)  BY DEF Legs
<1>2. \A l \in L : l.qty \in Int  OBVIOUS
<1> HIDE DEF L
<1>3. Len(legs) \in Nat /\ \A i \in 1 .. Len(legs) : legs[i] \in L
  BY <1>1, LenProperties, ElementOfSeq
<1>4. (Len(legs) >= 1 => legs[1] \in L) /\ (Len(legs) >= 2 => legs[2] \in L)
  BY <1>3
<1> QED  BY <1>2, <1>3, <1>4

LEMMA OnSideType ==
    ASSUME NEW q \in Int, NEW side
    PROVE  /\ OnSide(q, side) \in Int
           /\ side = 1 => OnSide(q, side) >= 0
           /\ side = -1 => OnSide(q, side) <= 0
BY DEF OnSide, Sign

LEMMA QueuedType ==
    ASSUME NEW legs \in Legs
    PROVE  /\ Queued(legs, 1) \in Int /\ Queued(legs, -1) \in Int
           /\ Queued(legs, 1) >= 0 /\ Queued(legs, -1) <= 0
<1>1. /\ Len(legs) >= 1 => legs[1].qty \in Int
      /\ Len(legs) >= 2 => legs[2].qty \in Int
  BY LegQuantities
<1> DEFINE F(side) == IF Len(legs) >= 1 THEN OnSide(legs[1].qty, side) ELSE 0
           S(side) == IF Len(legs) >= 2 THEN OnSide(legs[2].qty, side) ELSE 0
<1>2. F(1) \in Int /\ F(1) >= 0 /\ F(-1) \in Int /\ F(-1) <= 0  BY <1>1, OnSideType
<1>3. S(1) \in Int /\ S(1) >= 0 /\ S(-1) \in Int /\ S(-1) <= 0  BY <1>1, OnSideType
<1>4. Queued(legs, 1) = F(1) + S(1) /\ Queued(legs, -1) = F(-1) + S(-1)  BY DEF Queued
<1> HIDE DEF F, S
<1> QED  BY <1>2, <1>3, <1>4

LEMMA QueuedCases ==
    ASSUME NEW legs, NEW side
    PROVE  /\ Len(legs) = 0 => Queued(legs, side) = 0
           /\ Len(legs) = 1 => Queued(legs, side) = OnSide(legs[1].qty, side) + 0
           /\ Len(legs) = 2 => Queued(legs, side) = OnSide(legs[1].qty, side) + OnSide(legs[2].qty, side)
<1>1. ~(0 >= 1) /\ ~(0 >= 2) /\ 0 + 0 = 0 /\ 1 >= 1 /\ ~(1 >= 2) /\ 2 >= 1 /\ 2 >= 2
  OBVIOUS
<1> QED  BY <1>1, Zenon DEF Queued

\* The leg that is sent leaves the queue.
LEMMA QueuedTail ==
    ASSUME NEW legs \in Legs, legs # <<>>, Len(legs) <= 2, NEW side
    PROVE  /\ Queued(legs, side) = OnSide(Head(legs).qty, side) + Queued(Tail(legs), side)
           /\ OnSide(Head(legs).qty, side) \in Int
           /\ Len(Tail(legs)) <= 2
<1>1. legs \in Seq([tag : Tags, qty : Int \ {0}])  BY DEF Legs
<1> DEFINE k == Len(legs)
           t == Tail(legs)
           a == OnSide(legs[1].qty, side)
           b == OnSide(legs[2].qty, side)
<1>2. /\ k \in Nat /\ k <= 2
      /\ k >= 1 => legs[1].qty \in Int
      /\ k >= 2 => legs[2].qty \in Int
  BY LegQuantities
<1>3. k # 0 /\ Head(legs) = legs[1]  BY <1>1, EmptySeq
<1>4. Len(t) = k - 1 /\ \A i \in 1 .. Len(t) : t[i] = legs[i + 1]
  BY <1>1, HeadTailProperties
<1>5. (k = 1 => Queued(legs, side) = a + 0) /\ (k = 2 => Queued(legs, side) = a + b)
  BY QueuedCases
<1>6. OnSide(Head(legs).qty, side) = a  BY <1>3
<1> HIDE DEF k, t
<1>7. k = 1 \/ k = 2  BY <1>2, <1>3
<1>8. (k = 1 => a \in Int) /\ (k = 2 => a \in Int /\ b \in Int)
  BY <1>2, OnSideType
<1>9. (k = 1 => Len(t) = 0) /\ (k = 2 => Len(t) = 1 /\ t[1] = legs[2])
  BY <1>4
<1>10. (k = 1 => Queued(t, side) = 0) /\ (k = 2 => Queued(t, side) = b + 0)
  BY <1>9, QueuedCases
<1> HIDE DEF a, b
<1>11. CASE k = 1
  <2>1. Queued(legs, side) = a + Queued(t, side) /\ a \in Int /\ Len(t) <= 2
    BY <1>5, <1>8, <1>9, <1>10, <1>11
  <2> QED  BY <1>6, <2>1 DEF t
<1>12. CASE k = 2
  <2>1. a \in Int /\ b \in Int /\ Queued(t, side) = b + 0  BY <1>8, <1>10, <1>12
  <2>2. Queued(t, side) = b  BY <2>1
  <2>3. Queued(legs, side) = a + Queued(t, side)  BY <1>5, <1>12, <2>2
  <2>4. Len(t) <= 2  BY <1>9, <1>12
  <2> QED  BY <1>6, <2>1, <2>3, <2>4 DEF t
<1> QED  BY <1>7, <1>11, <1>12

\* The legs of a name, all executed, end within what lies between the holding,
\* flat and the target, up to half a tick.
LEMMA LegsReach ==
    ASSUME NEW cur \in Int, NEW tgt \in Int, NEW whole \in BOOLEAN,
           NEW lo \in Int, NEW hi \in Int,
           \A x \in {0, cur, tgt} : lo + Tick \div 2 <= x /\ x <= hi - Tick \div 2
    PROVE  LET legs == DeltaLegs(cur, tgt, whole)
           IN  Len(legs) <= 2 /\ lo <= cur + Queued(legs, -1) /\ cur + Queued(legs, 1) <= hi
<1> DEFINE d == Delta(cur, tgt, whole)
           c == CloseQty(cur, whole)
           o == OpenQty(tgt, whole)
           h == Tick \div 2
           Within(legs) == Len(legs) <= 2 /\ lo <= cur + Queued(legs, -1) /\ cur + Queued(legs, 1) <= hi
<1>1. /\ d \in Int
      /\ tgt >= cur => 0 <= d /\ d - (tgt - cur) <= h
      /\ tgt <= cur => d <= 0 /\ (tgt - cur) - d <= h
  BY DeltaIsNear, HalfTick
<1>2. /\ c \in 0 .. Abs(cur) /\ o \in 0 .. Abs(tgt) /\ h \in Nat
      /\ Abs(cur) \in Nat /\ Abs(tgt) \in Nat
  BY CloseOpenTypes, HalfTick
<1>3. /\ lo + h <= 0 /\ 0 <= hi - h
      /\ lo + h <= cur /\ cur <= hi - h
      /\ lo + h <= tgt /\ tgt <= hi - h
  OBVIOUS
<1> HIDE DEF d, c, o, h
<1>4. Within(<<>>)  BY <1>2, <1>3 DEF Queued
<1>5. ASSUME NEW legs, Len(legs) = 1, legs[1].qty = d PROVE Within(legs)
  <2>1. Queued(legs, 1) = OnSide(d, 1) /\ Queued(legs, -1) = OnSide(d, -1)
    BY <1>1, <1>5 DEF Queued, OnSide
  <2>2. CASE tgt >= cur
    <3>1. OnSide(d, 1) = d /\ OnSide(d, -1) = 0  BY <1>1, <2>2, SignIs DEF OnSide
    <3> QED  BY <1>1, <1>2, <1>3, <1>5, <2>1, <2>2, <3>1
  <2>3. CASE tgt <= cur
    <3>1. (OnSide(d, 1) = 0 /\ OnSide(d, -1) = d)  BY <1>1, <2>3, SignIs DEF OnSide
    <3> QED  BY <1>1, <1>2, <1>3, <1>5, <2>1, <2>3, <3>1
  <2> QED  BY <2>2, <2>3
<1>6. Flips(cur, tgt) => Within(FlipLegs(cur, tgt, whole))
  <2> SUFFICES ASSUME Flips(cur, tgt) PROVE Within(FlipLegs(cur, tgt, whole))
    OBVIOUS
  <2> DEFINE close == CloseLeg(cur, whole)
             open == OpenLeg(tgt, whole)
  <2>1. close.qty = -Sign(cur) * c /\ open.qty = Sign(tgt) * o
    BY DEF CloseLeg, OpenLeg, Leg, c, o
  <2> HIDE DEF close, open, Within
  <2>2. FlipLegs(cur, tgt, whole) \in
          {<<>>} \cup (IF c = 0 THEN {} ELSE {<<close>>, <<close, open>>})
    BY DEF FlipLegs, close, open, c
  <2>3. ASSUME c # 0 PROVE Within(<<close>>) /\ Within(<<close, open>>)
    <3>1. CASE cur > 0 /\ tgt < 0
      <4>1. Sign(cur) = 1 /\ Sign(tgt) = -1 /\ Abs(cur) = cur /\ Abs(tgt) = -tgt
        BY <3>1, SignIs
      <4>2. close.qty = -c /\ open.qty = -o /\ c > 0 /\ c <= cur /\ o >= 0 /\ o <= -tgt /\ c \in Int /\ o \in Int
        BY <1>2, <2>1, <2>3, <4>1
      <4>3. /\ OnSide(close.qty, 1) = 0 /\ OnSide(close.qty, -1) = -c
            /\ OnSide(open.qty, 1) = 0 /\ OnSide(open.qty, -1) = -o
        BY <4>2, SignIs DEF OnSide
      <4> QED  BY <1>2, <1>3, <4>2, <4>3 DEF Within, Queued
    <3>2. CASE cur < 0 /\ tgt > 0
      <4>1. Sign(cur) = -1 /\ Sign(tgt) = 1 /\ Abs(cur) = -cur /\ Abs(tgt) = tgt
        BY <3>2, SignIs
      <4>2. close.qty = c /\ open.qty = o /\ c > 0 /\ c <= -cur /\ o >= 0 /\ o <= tgt /\ c \in Int /\ o \in Int
        BY <1>2, <2>1, <2>3, <4>1
      <4>3. /\ OnSide(close.qty, 1) = c /\ OnSide(close.qty, -1) = 0
            /\ OnSide(open.qty, 1) = o /\ OnSide(open.qty, -1) = 0
        BY <4>2, SignIs DEF OnSide
      <4> QED  BY <1>2, <1>3, <4>2, <4>3 DEF Within, Queued
    <3> QED  BY <3>1, <3>2 DEF Flips
  <2> QED  BY <1>4, <2>2, <2>3
<1>7. Within(DeltaLegs(cur, tgt, whole))
  <2>1. Within(<<Leg("rebalance", d)>>)
    <3>1. Leg("rebalance", d).qty = d  BY DEF Leg
    <3> QED  BY <1>5, <3>1
  <2> HIDE DEF Within
  <2> QED  BY <1>4, <1>6, <2>1 DEF DeltaLegs, d
<1> QED  BY <1>7

\* What Reach adds up, and its types.
ReachSums ==
    \A n \in Names, side \in {1, -1} :
        /\ Reach(n, side) = pos[n] + OpenSum(orders, n, side) + Queued(queue[n], side)
        /\ pos[n] \in Int /\ OpenSum(orders, n, side) \in Int
        /\ Reach(n, side) \in Int
        /\ Queued(queue[n], side) \in Int /\ queue[n] \in Legs
        /\ hull[n].lo \in Int /\ hull[n].hi \in Int

LEMMA ReachIs == (CycleTypeOK => ReachSums) /\ (CycleTypeOK' => ReachSums')
<1>1. CycleTypeOK => ReachSums
  <2> SUFFICES ASSUME CycleTypeOK, NEW n \in Names, NEW side \in {1, -1}
               PROVE  /\ Reach(n, side) = pos[n] + OpenSum(orders, n, side) + Queued(queue[n], side)
                      /\ pos[n] \in Int /\ OpenSum(orders, n, side) \in Int
                      /\ Reach(n, side) \in Int
                      /\ Queued(queue[n], side) \in Int /\ queue[n] \in Legs
                      /\ hull[n].lo \in Int /\ hull[n].hi \in Int
    BY DEF ReachSums
  <2>1. orders \in Seq(Orders) /\ pos[n] \in Int /\ queue[n] \in Legs
    BY DEF CycleTypeOK
  <2>2. hull[n].lo \in Int /\ hull[n].hi \in Int
    <3>1. hull[n] \in [lo : Int, hi : Int]  BY DEF CycleTypeOK
    <3> QED  BY <3>1
  <2>3. Unfilled(n, side) = OpenSum(orders, n, side)  BY <2>1, UnfilledIs
  <2>4. OpenSum(orders, n, side) \in Int  BY <2>1, OpenSumType
  <2>5. Queued(queue[n], side) \in Int  BY <2>1, QueuedType
  <2> QED  BY <2>1, <2>2, <2>3, <2>4, <2>5 DEF Reach
<1>2. (CycleTypeOK => ReachSums)'  BY <1>1, PTL
<1> QED  BY <1>1, <1>2

\* It is enough that no position's reach grows.
LEMMA ReachShrinks ==
    ASSUME CycleTypeOK, CycleTypeOK', StackInv, UNCHANGED hull,
           \A i \in DOMAIN orders' : Sane(orders'[i]),
           \A n \in Names : Len(queue'[n]) <= 2,
           \A n \in Names :
               /\ pos[n] + OpenSum(orders, n, -1) + Queued(queue[n], -1)
                    <= pos'[n] + OpenSum(orders', n, -1) + Queued(queue'[n], -1)
               /\ pos'[n] + OpenSum(orders', n, 1) + Queued(queue'[n], 1)
                    <= pos[n] + OpenSum(orders, n, 1) + Queued(queue[n], 1)
    PROVE  StackInv'
<1>1. ReachSums /\ ReachSums'  BY ReachIs
<1>2. ASSUME NEW n \in Names
      PROVE  hull'[n].lo <= Reach(n, -1)' /\ Reach(n, 1)' <= hull'[n].hi
  <2> DEFINE u == Reach(n, -1)
             v == Reach(n, 1)
             u1 == Reach(n, -1)'
             v1 == Reach(n, 1)'
             lo == hull[n].lo
             hi == hull[n].hi
  <2>1. lo <= u /\ v <= hi  BY DEF StackInv
  <2>2. /\ u = pos[n] + OpenSum(orders, n, -1) + Queued(queue[n], -1)
        /\ v = pos[n] + OpenSum(orders, n, 1) + Queued(queue[n], 1)
        /\ u1 = pos'[n] + OpenSum(orders', n, -1) + Queued(queue'[n], -1)
        /\ v1 = pos'[n] + OpenSum(orders', n, 1) + Queued(queue'[n], 1)
    BY <1>1 DEF ReachSums
  <2>3. u <= u1 /\ v1 <= v  BY <2>2
  <2>6. u \in Int /\ v \in Int /\ lo \in Int /\ hi \in Int
    BY <1>1 DEF ReachSums
  <2>7. u1 \in Int /\ v1 \in Int
    BY <1>1 DEF ReachSums
  <2>4. hull'[n].lo = lo /\ hull'[n].hi = hi  OBVIOUS
  <2> HIDE DEF u, v, u1, v1, lo, hi
  <2>5. lo <= u1 /\ v1 <= hi  BY <2>1, <2>3, <2>6, <2>7
  <2> QED  BY <2>4, <2>5 DEF u1, v1
<1> QED  BY <1>2 DEF StackInv

\* An order replaced by one that reaches less, at a position that moved by what
\* is not left of it.
LEMMA OneOrderReach ==
    ASSUME CycleTypeOK, CycleTypeOK', StackInv, UNCHANGED <<queue, hull>>,
           NEW i \in DOMAIN orders, NEW o \in Orders, Sane(o),
           orders' = [orders EXCEPT ![i] = o],
           \A n \in Names :
               /\ pos'[n] - pos[n] + Contribution(o, n, 1) <= Contribution(orders[i], n, 1)
               /\ pos'[n] - pos[n] + Contribution(o, n, -1) >= Contribution(orders[i], n, -1)
    PROVE  StackInv'
<1>1. orders \in Seq(Orders)  BY DEF CycleTypeOK
<1>2. \A j \in DOMAIN orders' : Sane(orders'[j])
  BY <1>1, UpdateOne DEF StackInv
<1>3. \A n \in Names : Len(queue'[n]) <= 2  BY DEF StackInv
<1>4. ReachSums /\ ReachSums'  BY ReachIs
<1>5. ASSUME NEW n \in Names, NEW side \in {1, -1}
      PROVE  /\ OpenSum(orders', n, side) = OpenSum(orders, n, side)
                  + Contribution(o, n, side) - Contribution(orders[i], n, side)
             /\ Contribution(o, n, side) \in Int /\ Contribution(orders[i], n, side) \in Int
  <2>1. orders[i] \in Orders  BY <1>1, SeqShape
  <2>2. Contribution(o, n, side) \in Int  BY ContributionType
  <2>3. Contribution(orders[i], n, side) \in Int  BY <2>1, ContributionType
  <2>4. OpenSum(orders', n, side) = OpenSum(orders, n, side)
          + Contribution(o, n, side) - Contribution(orders[i], n, side)
    <3>1. OpenSum([orders EXCEPT ![i] = o], n, side) = OpenSum(orders, n, side)
            + Contribution(o, n, side) - Contribution(orders[i], n, side)
      BY ONLY <1>1, i \in DOMAIN orders, o \in Orders, OpenSumChange
    <3> QED  BY <3>1
  <2> QED  BY <2>2, <2>3, <2>4
<1>6. ASSUME NEW n \in Names
      PROVE  /\ pos[n] + OpenSum(orders, n, -1) + Queued(queue[n], -1)
                  <= pos'[n] + OpenSum(orders', n, -1) + Queued(queue'[n], -1)
             /\ pos'[n] + OpenSum(orders', n, 1) + Queued(queue'[n], 1)
                  <= pos[n] + OpenSum(orders, n, 1) + Queued(queue[n], 1)
  <2>1. /\ pos[n] \in Int /\ pos'[n] \in Int
        /\ OpenSum(orders, n, 1) \in Int /\ OpenSum(orders, n, -1) \in Int
        /\ Queued(queue[n], 1) \in Int /\ Queued(queue[n], -1) \in Int
    BY <1>4 DEF ReachSums
  <2>2. Queued(queue'[n], 1) = Queued(queue[n], 1) /\ Queued(queue'[n], -1) = Queued(queue[n], -1)
    OBVIOUS
  <2>3. /\ pos'[n] - pos[n] + Contribution(o, n, 1) <= Contribution(orders[i], n, 1)
        /\ pos'[n] - pos[n] + Contribution(o, n, -1) >= Contribution(orders[i], n, -1)
    OBVIOUS
  <2> DEFINE p == pos[n]
             p1 == pos'[n]
             a == OpenSum(orders, n, 1)
             b == OpenSum(orders, n, -1)
             a1 == OpenSum(orders', n, 1)
             b1 == OpenSum(orders', n, -1)
             ca == Contribution(orders[i], n, 1)
             cb == Contribution(orders[i], n, -1)
             ca1 == Contribution(o, n, 1)
             cb1 == Contribution(o, n, -1)
             x == Queued(queue[n], 1)
             y == Queued(queue[n], -1)
  <2>4. a1 = a + ca1 - ca /\ ca \in Int /\ ca1 \in Int  BY <1>5
  <2>5. b1 = b + cb1 - cb /\ cb \in Int /\ cb1 \in Int  BY <1>5
  <2> HIDE DEF p, p1, a, b, a1, b1, ca, cb, ca1, cb1, x, y
  <2>6. p + b + y <= p1 + b1 + y /\ p1 + a1 + x <= p + a + x
    <3>1. /\ p \in Int /\ p1 \in Int /\ a \in Int /\ b \in Int /\ x \in Int /\ y \in Int
          /\ p1 - p + ca1 <= ca /\ p1 - p + cb1 >= cb
      BY <2>1, <2>3 DEF p, p1, a, b, ca, cb, ca1, cb1, x, y
    <3> QED  BY <2>4, <2>5, <3>1
  <2> QED  BY <2>2, <2>6 DEF p, p1, a, b, a1, b1, x, y
<1> QED  BY <1>2, <1>3, <1>6, ReachShrinks

\* A queue that is forgotten reaches less.
LEMMA EndReach ==
    ASSUME CycleTypeOK, CycleTypeOK', StackInv, Ends, UNCHANGED <<orders, pos, hull>>
    PROVE  StackInv'
<1>1. \A n \in Names : queue'[n] = <<>>  BY DEF Ends
<1>2. \A n \in Names : Len(queue'[n]) <= 2  BY <1>1
<1>4. \A i \in DOMAIN orders' : Sane(orders'[i])  BY DEF StackInv
<1>5. ReachSums  BY ReachIs
<1>6. ASSUME NEW n \in Names
      PROVE  /\ pos[n] + OpenSum(orders, n, -1) + Queued(queue[n], -1)
                  <= pos'[n] + OpenSum(orders', n, -1) + Queued(queue'[n], -1)
             /\ pos'[n] + OpenSum(orders', n, 1) + Queued(queue'[n], 1)
                  <= pos[n] + OpenSum(orders, n, 1) + Queued(queue[n], 1)
  <2>1. Queued(queue'[n], 1) = 0 /\ Queued(queue'[n], -1) = 0
    <3>1. Len(queue'[n]) = 0  BY <1>1
    <3> QED  BY <3>1, QueuedCases
  <2>2. /\ pos[n] \in Int /\ OpenSum(orders, n, 1) \in Int /\ OpenSum(orders, n, -1) \in Int
        /\ queue[n] \in Legs
    BY <1>5 DEF ReachSums
  <2>3. /\ Queued(queue[n], 1) \in Int /\ Queued(queue[n], -1) \in Int
        /\ Queued(queue[n], 1) >= 0 /\ Queued(queue[n], -1) <= 0
    BY <2>2, QueuedType
  <2> QED  BY <2>1, <2>2, <2>3
<1> QED  BY <1>2, <1>4, <1>6, ReachShrinks

LEMMA ReachSame ==
    ASSUME CycleTypeOK, CycleTypeOK', UNCHANGED <<orders, pos, queue>>, NEW n \in Names
    PROVE  Reach(n, 1)' = Reach(n, 1) /\ Reach(n, -1)' = Reach(n, -1)
<1>1. ReachSums /\ ReachSums'  BY ReachIs
<1>2. /\ pos'[n] = pos[n] /\ queue'[n] = queue[n]
      /\ OpenSum(orders', n, 1) = OpenSum(orders, n, 1)
      /\ OpenSum(orders', n, -1) = OpenSum(orders, n, -1)
  OBVIOUS
<1>3. /\ Reach(n, 1)' = pos'[n] + OpenSum(orders', n, 1) + Queued(queue'[n], 1)
      /\ Reach(n, -1)' = pos'[n] + OpenSum(orders', n, -1) + Queued(queue'[n], -1)
      /\ Reach(n, 1) = pos[n] + OpenSum(orders, n, 1) + Queued(queue[n], 1)
      /\ Reach(n, -1) = pos[n] + OpenSum(orders, n, -1) + Queued(queue[n], -1)
  BY <1>1 DEF ReachSums
<1> QED  BY <1>2, <1>3

\* A sizing bounds what the orders it builds can do.
LEMMA SizedReach ==
    ASSUME CycleTypeOK, NEW z \in Sizings, NEW n \in Names
    PROVE  LET legs == NameLegs(z, n)
               a == Allowed(z, n)
           IN  /\ legs \in Legs /\ Len(legs) <= 2
               /\ a.lo <= snap[n] + Queued(legs, -1)
               /\ snap[n] + Queued(legs, 1) <= a.hi
<1> DEFINE cur == snap[n]
           tgt == Target(z, n)
           lo == Allowed(z, n).lo
           hi == Allowed(z, n).hi
           h == Tick \div 2
           legs == NameLegs(z, n)
<1>1. snap \in [Names -> Int] /\ cur \in Int  BY DEF CycleTypeOK
<1>2. tgt \in Int /\ Whole(z, n) \in BOOLEAN  BY TargetType
<1>3. /\ lo \in Int /\ hi \in Int /\ h \in Nat
      /\ lo + h <= 0 /\ 0 <= hi - h /\ lo + h <= cur /\ cur <= hi - h
      /\ n \in z.priced /\ ~z.derisk => lo + h <= tgt /\ tgt <= hi - h
  <2>1. Allowed(z, n) \in [lo : Int, hi : Int]  BY <1>1, AllowedBounds
  <2>2. lo \in Int /\ hi \in Int  BY <2>1
  <2> QED  BY <1>1, <2>2, AllowedBounds, HalfTick
<1>4. legs \in Legs  BY <1>1, NameLegsType
<1>5. CASE legs = <<>>
  <2>1. Len(legs) = 0 /\ Queued(legs, 1) = 0 /\ Queued(legs, -1) = 0
    <3>1. Len(legs) = 0  BY <1>5
    <3> QED  BY <3>1, QueuedCases
  <2> HIDE DEF legs, cur, lo, hi, h
  <2>2. Len(legs) <= 2 /\ lo <= cur + Queued(legs, -1) /\ cur + Queued(legs, 1) <= hi
    BY <1>1, <1>3, <2>1
  <2> QED  BY <1>4, <2>2 DEF legs, cur, lo, hi
<1>6. CASE legs # <<>>
  <2>1. /\ legs = DeltaLegs(cur, tgt, Whole(z, n))
        /\ n \in z.priced /\ (z.derisk => Reducing(cur, tgt))
    BY <1>6 DEF NameLegs
  <2>2. lo + h <= tgt /\ tgt <= hi - h
    <3>1. CASE ~z.derisk  BY <1>3, <2>1, <3>1
    <3>2. CASE Reducing(cur, tgt)
      <4> HIDE DEF cur, tgt, lo, hi, h
      <4>1. Abs(tgt) < Abs(cur) /\ cur * tgt >= 0  BY <3>2 DEF Reducing
      <4>2. CASE cur >= 0
        <5>1. Abs(cur) = cur  BY <1>1, <4>2, SignIs
        <5>2. tgt >= 0
          <6> SUFFICES ASSUME tgt < 0 PROVE FALSE
            BY <1>2
          <6>1. cur = 0  BY <1>1, <1>2, <4>1, <4>2, SMT
          <6> QED  BY <1>2, <4>1, <5>1, <6>1, SignIs
        <5> QED  BY <1>1, <1>2, <1>3, <4>1, <5>1, <5>2, SignIs
      <4>3. CASE cur < 0
        <5>1. Abs(cur) = -cur  BY <1>1, <4>3, SignIs
        <5>2. tgt <= 0
          <6> SUFFICES ASSUME tgt > 0 PROVE FALSE
            BY <1>2
          <6> QED  BY <1>1, <1>2, <4>1, <4>3, SMT
        <5>3. Abs(tgt) = -tgt  BY <1>2, <5>2, SignIs
        <5> QED  BY <1>1, <1>2, <1>3, <4>1, <4>3, <5>1, <5>2, <5>3
      <4> QED  BY <1>1, <4>2, <4>3
    <3> QED  BY <2>1, <3>1, <3>2
  <2>3. \A x \in {0, cur, tgt} : lo + Tick \div 2 <= x /\ x <= hi - Tick \div 2
    BY <1>3, <2>2
  <2> HIDE DEF cur, tgt, lo, hi, h
  <2>4. /\ Len(DeltaLegs(cur, tgt, Whole(z, n))) <= 2
        /\ lo <= cur + Queued(DeltaLegs(cur, tgt, Whole(z, n)), -1)
        /\ cur + Queued(DeltaLegs(cur, tgt, Whole(z, n)), 1) <= hi
    BY <1>1, <1>2, <1>3, <2>3, LegsReach
  <2> HIDE DEF legs
  <2>5. Len(legs) <= 2 /\ lo <= cur + Queued(legs, -1) /\ cur + Queued(legs, 1) <= hi
    BY <2>1, <2>4
  <2> QED  BY <1>4, <2>5 DEF legs, cur, lo, hi
<1> QED  BY <1>5, <1>6

\* A sizing starts the count anew: what is open outlived its cancel.
LEMMA SizeStacks ==
    ASSUME CycleTypeOK, CycleTypeOK', StackInv, Swept, Size, phase' = "check"
    PROVE  StackInv'
<1>1. PICK z \in Sizings : /\ queue' = [n \in Names |-> NameLegs(z, n)]
                          /\ hull' = [n \in Names |-> Bounds(z, n)]
                          /\ UNCHANGED <<orders, pos, snap>>
  BY DEF Size, Ends, venueVars
<1>2. OpenOrders \cap lingered = OpenOrders /\ orders \in Seq(Orders) /\ snap \in [Names -> Int]
  BY DEF Size, Swept, CycleTypeOK
<1>3. ReachSums'  BY ReachIs
<1>5. ASSUME NEW n \in Names
      PROVE  /\ Len(queue'[n]) <= 2
             /\ hull'[n].lo <= Reach(n, -1)' /\ Reach(n, 1)' <= hull'[n].hi
  <2> DEFINE a == Allowed(z, n)
             p == pos[n]
             c == snap[n]
             u == OpenSum(orders, n, 1)
             v == OpenSum(orders, n, -1)
             x == Queued(NameLegs(z, n), 1)
             y == Queued(NameLegs(z, n), -1)
  <2>1. queue'[n] = NameLegs(z, n) /\ hull'[n] = Bounds(z, n) /\ pos'[n] = p
    BY <1>1
  <2>2. UnfilledOf(OpenOrders, n, 1) = u /\ UnfilledOf(OpenOrders, n, -1) = v
    BY <1>2, UnfilledIs DEF Unfilled
  <2>3. /\ hull'[n].lo = a.lo + ((p - c) + v)
        /\ hull'[n].hi = a.hi + ((p - c) + u)
    <3>1. hull'[n] = [lo |-> a.lo + ((p - c) + UnfilledOf(OpenOrders, n, -1)),
                     hi |-> a.hi + ((p - c) + UnfilledOf(OpenOrders, n, 1))]
      BY <1>2, <2>1 DEF Bounds
    <3> HIDE DEF a, p, c, u, v, x, y
    <3> QED  BY <2>2, <3>1
  <2>4. /\ Reach(n, -1)' = p + v + y
        /\ Reach(n, 1)' = p + u + x
        /\ p \in Int /\ x \in Int /\ y \in Int /\ u \in Int /\ v \in Int
    BY <1>1, <1>3, <2>1 DEF ReachSums
  <2>5. Len(NameLegs(z, n)) <= 2 /\ a.lo <= c + y /\ c + x <= a.hi
    BY SizedReach
  <2>6. a \in [lo : Int, hi : Int] /\ c \in Int  BY <1>2, AllowedBounds
  <2> HIDE DEF a, p, c, u, v, x, y
  <2>7. a.lo \in Int /\ a.hi \in Int  BY <2>6
  <2>8. a.lo + ((p - c) + v) <= p + v + y /\ p + u + x <= a.hi + ((p - c) + u)
    BY <2>4, <2>5, <2>6, <2>7
  <2> QED  BY <2>1, <2>3, <2>4, <2>5, <2>8
<1>6. \A i \in DOMAIN orders' : Sane(orders'[i])  BY <1>1 DEF StackInv
<1> QED  BY <1>5, <1>6 DEF StackInv

\* The leg that lands passes from what is queued to what is open; one that does
\* not land is gone.
LEMMA SubmitStacks ==
    ASSUME CycleTypeOK, CycleTypeOK', StackInv, SubmitOne
    PROVE  StackInv'
<1>1. PICK m \in Names :
        /\ queue[m] # <<>>
        /\ orders' = Append(orders, Order(m, Head(queue[m]))) \/ UNCHANGED orders
        /\ queue' = [queue EXCEPT ![m] = Tail(queue[m])]
        /\ UNCHANGED <<pos, hull>> /\ phase' = "submit"
  BY DEF SubmitOne, pastVars
<1> DEFINE leg == Head(queue[m])
           o == Order(m, leg)
<1>2. orders \in Seq(Orders) /\ queue \in [Names -> Legs]  BY DEF CycleTypeOK
<1>3. leg \in [tag : Tags, qty : Int \ {0}] /\ Len(queue[m]) <= 2 /\ queue[m] \in Legs
  <2>1. queue[m] \in Seq([tag : Tags, qty : Int \ {0}])  BY <1>2 DEF Legs
  <2>2. leg \in [tag : Tags, qty : Int \ {0}]  BY <1>1, <2>1, HeadTailProperties
  <2> QED  BY <1>2, <2>2 DEF StackInv
<1> HIDE DEF leg
<1>4. /\ o \in Orders /\ Sane(o) /\ leg.qty \in Int
      /\ \A n \in Names, side \in {1, -1} :
           Contribution(o, n, side) = IF n = m THEN OnSide(leg.qty, side) ELSE 0
  <2>1. /\ o \in Orders /\ leg.qty \in Int \ {0}
        /\ o.name = m /\ o.qty = leg.qty /\ o.filled = 0 /\ o.open
    BY <1>3 DEF Order, Orders
  <2> HIDE DEF o
  <2>2. Sane(o)  BY <2>1, SignIs DEF Sane
  <2>3. \A n, side : Contribution(o, n, side) =
          IF m = n /\ Sign(leg.qty) = side THEN leg.qty - 0 ELSE 0
    BY <2>1 DEF Contribution
  <2>4. leg.qty - 0 = leg.qty  BY <2>1
  <2> QED  BY <2>1, <2>2, <2>3, <2>4 DEF OnSide
<1>5. \A side \in {1, -1} :
        /\ Queued(queue[m], side) = OnSide(leg.qty, side) + Queued(Tail(queue[m]), side)
        /\ OnSide(leg.qty, side) \in Int
        /\ Len(Tail(queue[m])) <= 2
  BY <1>1, <1>3, QueuedTail DEF leg
<1> HIDE DEF o
<1>6. ASSUME NEW n \in Names PROVE Len(queue'[n]) <= 2
  <2>1. CASE n = m  BY <1>1, <1>2, <1>5, <2>1
  <2>2. CASE n # m
    <3>1. queue'[n] = queue[n]  BY <1>1, <1>2, <2>2
    <3> QED  BY <3>1 DEF StackInv
  <2> QED  BY <2>1, <2>2
<1>7. \A i \in DOMAIN orders' : Sane(orders'[i])
  <2>1. CASE UNCHANGED orders  BY <2>1 DEF StackInv
  <2>2. CASE orders' = Append(orders, o)
    <3>1. /\ Len(orders') = Len(orders) + 1 /\ orders' \in Seq(Orders)
          /\ \A i \in 1 .. Len(orders) : orders'[i] = orders[i]
          /\ orders'[Len(orders) + 1] = o
      BY <1>2, <1>4, <2>2, AppendProperties
    <3>2. DOMAIN orders' = 1 .. Len(orders') /\ DOMAIN orders = 1 .. Len(orders) /\ Len(orders) \in Nat
      BY <1>2, <3>1, SeqOfOrders
    <3>3. \A i \in 1 .. Len(orders) : Sane(orders[i])  BY <3>2 DEF StackInv
    <3> QED  BY <1>4, <3>1, <3>2, <3>3
  <2> QED  BY <1>1, <2>1, <2>2 DEF o, leg
<1>8. ReachSums  BY ReachIs
<1>9. ASSUME NEW n \in Names
      PROVE  /\ pos[n] + OpenSum(orders, n, -1) + Queued(queue[n], -1)
                  <= pos'[n] + OpenSum(orders', n, -1) + Queued(queue'[n], -1)
             /\ pos'[n] + OpenSum(orders', n, 1) + Queued(queue'[n], 1)
                  <= pos[n] + OpenSum(orders, n, 1) + Queued(queue[n], 1)
  <2> DEFINE a == OpenSum(orders, n, 1)
             b == OpenSum(orders, n, -1)
             a1 == OpenSum(orders', n, 1)
             b1 == OpenSum(orders', n, -1)
             x == Queued(queue[n], 1)
             y == Queued(queue[n], -1)
             x1 == Queued(queue'[n], 1)
             y1 == Queued(queue'[n], -1)
             u == IF n = m THEN OnSide(leg.qty, 1) ELSE 0
             v == IF n = m THEN OnSide(leg.qty, -1) ELSE 0
  <2>1. pos[n] \in Int /\ a \in Int /\ b \in Int /\ x \in Int /\ y \in Int
    BY <1>8 DEF ReachSums
  <2>2. u \in Int /\ v \in Int /\ u >= 0 /\ v <= 0
    BY <1>4, OnSideType
  <2>3. x = u + x1 /\ y = v + y1
    <3>1. CASE n = m
      <4>1. queue'[n] = Tail(queue[m])  BY <1>1, <1>2, <3>1
      <4> QED  BY <1>5, <3>1, <4>1
    <3>2. CASE n # m
      <4>1. queue'[n] = queue[n]  BY <1>1, <1>2, <3>2
      <4>2. x = x1 /\ y = y1 /\ u = 0 /\ v = 0  BY <3>2, <4>1
      <4> QED  BY <2>1, <4>2
    <3> QED  BY <3>1, <3>2
  <2>4. x1 \in Int /\ y1 \in Int
    <3>1. queue'[n] \in Legs  BY DEF CycleTypeOK
    <3> QED  BY <3>1, QueuedType
  <2>5. (a1 = a + u /\ b1 = b + v) \/ (a1 = a /\ b1 = b)
    <3>1. CASE UNCHANGED orders  BY <3>1
    <3>2. CASE orders' = Append(orders, o)
      <4>1. /\ OpenSum(Append(orders, o), n, 1) = OpenSum(orders, n, 1) + Contribution(o, n, 1)
            /\ OpenSum(Append(orders, o), n, -1) = OpenSum(orders, n, -1) + Contribution(o, n, -1)
        BY <1>2, <1>4, OpenSumAppend
      <4>2. Contribution(o, n, 1) = u /\ Contribution(o, n, -1) = v  BY <1>4
      <4> QED  BY <3>2, <4>1, <4>2
    <3> QED  BY <1>1, <3>1, <3>2 DEF o, leg
  <2>6. pos'[n] = pos[n]  BY <1>1
  <2> HIDE DEF a, b, a1, b1, x, y, x1, y1, u, v
  <2>7. pos[n] + b + y <= pos[n] + b1 + y1 /\ pos[n] + a1 + x1 <= pos[n] + a + x
    BY <2>1, <2>2, <2>3, <2>4, <2>5
  <2> QED  BY <2>6, <2>7 DEF a, b, a1, b1, x, y, x1, y1
<1> QED  BY <1>1, <1>6, <1>7, <1>9, ReachShrinks

\* A fill takes from what may still trade what it adds to the position.
LEMMA FillStacks ==
    ASSUME CycleTypeOK, CycleTypeOK', StackInv, VenueFills
    PROVE  StackInv'
<1>1. PICK i \in OpenOrders, q \in FillSteps :
        /\ q <= Abs(orders[i].qty) - Abs(orders[i].filled)
        /\ pos' = [pos EXCEPT ![orders[i].name] = @ + Sign(orders[i].qty) * q]
        /\ orders' = [orders EXCEPT ![i] = Filled(orders[i], q)]
        /\ UNCHANGED <<phase, queue, hull>>
  BY DEF VenueFills, Fill, procVars, pastVars
<1>2. orders \in Seq(Orders) /\ pos \in [Names -> Int]  BY DEF CycleTypeOK
<1>3. i \in DOMAIN orders /\ orders[i].open /\ q \in Nat /\ q > 0
  BY CycleAssumption DEF OpenOrders
<1>4. orders[i] \in Orders /\ Sane(orders[i])  BY <1>2, <1>3, SeqShape DEF StackInv
<1> DEFINE old == orders[i]
           o == Filled(old, q)
<1>5. o \in Orders /\ old.name \in Names /\ Sign(old.qty) * q \in Int
  BY <1>3, <1>4, OrderTypes
<1>7. ASSUME NEW n \in Names
      PROVE  /\ pos'[n] - pos[n] + Contribution(o, n, 1) <= Contribution(old, n, 1)
             /\ pos'[n] - pos[n] + Contribution(o, n, -1) >= Contribution(old, n, -1)
  <2> DEFINE step == IF old.name = n THEN Sign(old.qty) * q ELSE 0
  <2>1. /\ step + Contribution(o, n, 1) <= Contribution(old, n, 1)
        /\ step + Contribution(o, n, -1) >= Contribution(old, n, -1)
    BY <1>1, <1>3, <1>4, FillReach
  <2>2. pos'[n] = pos[n] + step /\ pos[n] \in Int /\ step \in Int
    BY <1>1, <1>2, <1>5
  <2> HIDE DEF step
  <2>3. pos'[n] - pos[n] = step  BY <2>2
  <2> QED  BY <2>1, <2>3
<1>8. Sane(o)  BY <1>1, <1>3, <1>4, FillReach
<1> HIDE DEF old, o
<1>9. orders' = [orders EXCEPT ![i] = o]  BY <1>1 DEF o, old
<1> QED  BY <1>1, <1>3, <1>5, <1>7, <1>8, <1>9, OneOrderReach DEF old

\* A closed order trades no more.
LEMMA CloseStacks ==
    ASSUME CycleTypeOK, CycleTypeOK', StackInv, NEW i \in DOMAIN orders,
           orders' = [orders EXCEPT ![i] = Closed(orders[i])],
           UNCHANGED <<queue, hull, pos>>
    PROVE  StackInv'
<1>1. orders \in Seq(Orders)  BY DEF CycleTypeOK
<1> DEFINE old == orders[i]
           o == Closed(old)
<1>2. old \in Orders /\ Sane(old)  BY <1>1, SeqShape DEF StackInv
<1>3. o \in Orders /\ ~o.open  BY <1>2, OrderTypes
<1>4. Sane(o)  BY <1>3 DEF Sane
<1>5. ASSUME NEW n \in Names
      PROVE  /\ pos'[n] - pos[n] + Contribution(o, n, 1) <= Contribution(old, n, 1)
             /\ pos'[n] - pos[n] + Contribution(o, n, -1) >= Contribution(old, n, -1)
  <2>1. /\ Contribution(old, n, 1) >= 0 /\ Contribution(old, n, -1) <= 0
        /\ Contribution(o, n, 1) = 0 /\ Contribution(o, n, -1) = 0
    BY <1>2, ContributionSign
  <2>2. pos'[n] - pos[n] = 0
    <3>1. pos[n] \in Int  BY DEF CycleTypeOK
    <3> QED  BY <3>1
  <2>3. Contribution(old, n, 1) \in Int /\ Contribution(old, n, -1) \in Int
    BY <1>2, ContributionType
  <2> HIDE DEF old, o
  <2> QED  BY <2>1, <2>2, <2>3
<1> HIDE DEF old, o
<1>6. orders' = [orders EXCEPT ![i] = o]  BY DEF o, old
<1> QED  BY <1>3, <1>4, <1>5, <1>6, OneOrderReach DEF old

LEMMA StackInitial == CycleInit /\ CycleTypeOK => StackInv
<1> SUFFICES ASSUME CycleInit, CycleTypeOK PROVE StackInv
  OBVIOUS
<1>1. /\ phase = "down" /\ orders = <<>> /\ \A n \in Names : queue[n] = <<>> /\ pos[n] = 0
      /\ \A n \in Names : hull[n].lo = 0 /\ hull[n].hi = 0
  BY DEF CycleInit
<1>2. ReachSums  BY ReachIs
<1>3. ASSUME NEW n \in Names PROVE Len(queue[n]) = 0 /\ Reach(n, 1) = 0 /\ Reach(n, -1) = 0
  <2>1. Len(queue[n]) = 0  BY <1>1
  <2>2. Queued(queue[n], 1) = 0 /\ Queued(queue[n], -1) = 0  BY <2>1, QueuedCases
  <2>3. orders \in Seq(Orders) /\ \A i \in DOMAIN orders : ~orders[i].open
    BY <1>1 DEF CycleTypeOK
  <2>4. OpenSum(orders, n, 1) = 0 /\ OpenSum(orders, n, -1) = 0  BY <2>3, NothingOpen
  <2>5. /\ Reach(n, 1) = pos[n] + OpenSum(orders, n, 1) + Queued(queue[n], 1)
        /\ Reach(n, -1) = pos[n] + OpenSum(orders, n, -1) + Queued(queue[n], -1)
    BY <1>2 DEF ReachSums
  <2> QED  BY <1>1, <2>1, <2>2, <2>4, <2>5
<1> QED  BY <1>1, <1>3 DEF StackInv

\* What the open orders of a name can still do keeps its position between the
\* holding the last book was sized on, flat and its target, whatever fills,
\* fails to land, is answered or crashes: only orders that outlived a cancel
\* take it farther, by what they do after the snapshot.
THEOREM BookNeverStacks == CycleSpec => []NeverStacks
<1>1. CycleInit /\ CycleTypeOK => StackInv  BY StackInitial
<1>2. CycleTypeOK /\ CycleTypeOK' /\ Swept /\ StackInv /\ [CycleNext]_cycleVars => StackInv'
  <2> SUFFICES ASSUME CycleTypeOK, CycleTypeOK', Swept, StackInv, [CycleNext]_cycleVars
               PROVE  StackInv'
    OBVIOUS
  <2> USE DEF procVars, venueVars, haltVars, recordVars, pastVars
  <2>a. ASSUME UNCHANGED <<orders, pos, queue, hull>>
        PROVE  StackInv'
    <3>1. \A n \in Names : Reach(n, 1)' = Reach(n, 1) /\ Reach(n, -1)' = Reach(n, -1)
      BY <2>a, ReachSame
    <3> QED  BY <2>a, <3>1 DEF StackInv
  <2>1. CASE VenueFills
    BY <2>1, FillStacks
  <2>2. CASE VenueExpires
    <3>1. PICK i \in OpenOrders : orders' = [orders EXCEPT ![i] = Closed(orders[i])]
      BY <2>2 DEF VenueExpires
    <3>2. i \in DOMAIN orders  BY DEF OpenOrders
    <3> QED  BY <2>2, <3>1, <3>2, CloseStacks DEF VenueExpires
  <2>3. CASE TimePasses \/ Start \/ ListOpen \/ CancelDone
    BY <2>3, <2>a DEF TimePasses, Start, ListOpen, CancelDone
  <2>4. CASE CancelOne
    <3>1. UNCHANGED <<pos, queue, hull>>  BY <2>4 DEF CancelOne
    <3>2. PICK i \in stale : \/ orders' = [orders EXCEPT ![i] = Closed(orders[i])]
                             \/ UNCHANGED orders
      BY <2>4 DEF CancelOne
    <3>3. i \in DOMAIN orders  BY DEF CycleTypeOK
    <3>4. CASE UNCHANGED orders  BY <2>a, <3>1, <3>4
    <3>5. CASE orders' = [orders EXCEPT ![i] = Closed(orders[i])]
      BY <3>1, <3>3, <3>5, CloseStacks
    <3> QED  BY <3>2, <3>4, <3>5
  <2>5. CASE Snapshot
    BY <2>5, <2>a DEF Snapshot
  <2>6. CASE Size
    <3>1. CASE phase' = "check"  BY <2>6, <3>1, SizeStacks
    <3>2. CASE phase' # "check"
      <4>1. Ends /\ UNCHANGED <<orders, pos, hull>>  BY <2>6, <3>2 DEF Size
      <4> QED  BY <4>1, EndReach
    <3> QED  BY <3>1, <3>2
  <2>7. CASE CheckKill
    <3>1. CASE Ends  BY <2>7, <3>1, EndReach DEF CheckKill
    <3>2. CASE ~Ends  BY <2>7, <2>a, <3>2 DEF CheckKill
    <3> QED  BY <3>1, <3>2
  <2>8. CASE ReconcileSucceeds
    BY <2>8, <2>a DEF ReconcileSucceeds
  <2>9. CASE ReconcileFails \/ CountingFails
    <3>1. CASE Ends  BY <2>9, <3>1, EndReach DEF ReconcileFails, CountingFails
    <3>2. CASE ~Ends  BY <2>9, <2>a, <3>2 DEF ReconcileFails, CountingFails
    <3> QED  BY <3>1, <3>2
  <2>10. CASE SubmitOne
    BY <2>10, SubmitStacks
  <2>11. CASE Finish \/ EndEarly
    BY <2>11, EndReach DEF Finish, EndEarly
  <2>12. CASE Operator
    BY <2>12, <2>a DEF Operator
  <2>13. CASE UNCHANGED cycleVars
    BY <2>13, <2>a DEF cycleVars
  <2> QED
    BY <2>1, <2>2, <2>3, <2>4, <2>5, <2>6, <2>7, <2>8, <2>9, <2>10, <2>11, <2>12, <2>13
       DEF CycleNext
<1>3. CycleTypeOK /\ StackInv => NeverStacks
  <2> SUFFICES ASSUME CycleTypeOK, StackInv, NEW n \in Names
               PROVE  hull[n].lo <= pos[n] + Unfilled(n, -1) /\ pos[n] + Unfilled(n, 1) <= hull[n].hi
    BY DEF NeverStacks
  <2> DEFINE a == Unfilled(n, 1)
             b == Unfilled(n, -1)
             x == Queued(queue[n], 1)
             y == Queued(queue[n], -1)
  <2>1. orders \in Seq(Orders) /\ pos[n] \in Int /\ queue[n] \in Legs  BY DEF CycleTypeOK
  <2>2. a \in Int /\ b \in Int  BY <2>1, UnfilledIs, OpenSumType
  <2>3. x \in Int /\ y \in Int /\ x >= 0 /\ y <= 0  BY <2>1, QueuedType
  <2>4. hull[n].lo \in Int /\ hull[n].hi \in Int  BY ReachIs DEF ReachSums
  <2>5. hull[n].lo <= pos[n] + b + y /\ pos[n] + a + x <= hull[n].hi
    BY DEF StackInv, Reach
  <2> HIDE DEF a, b, x, y
  <2>6. hull[n].lo <= pos[n] + b /\ pos[n] + a <= hull[n].hi
    BY <2>1, <2>2, <2>3, <2>4, <2>5
  <2> QED  BY <2>6 DEF a, b
<1>4. RecordInv => Swept  BY DEF RecordInv
<1>5. CycleSpec => []RecordInv  BY RecordInvariant
<1> QED  BY <1>1, <1>2, <1>3, <1>4, <1>5, CycleTypeCorrect, PTL DEF CycleSpec

=============================================================================
