--------------------------- MODULE BacktestProofs ---------------------------
(***************************************************************************)
(* Proofs about the backtester (Backtest), for every market data: splits   *)
(* never mix shares of two bases, no position outlives its market, funding *)
(* settles on the position that was held, a recall is covered by purchases *)
(* and a dividend paid once on what was held before its ex date.           *)
(***************************************************************************)
EXTENDS Backtest, SumTheorems, TLAPS

\* The phases between the close of the last bar and the marks of this one.
Mid == {"actions", "fill", "funding", "mark"}

Types ==
    /\ world \in Worlds
    /\ now \in 0 .. Horizon
    /\ last \in 0 .. Horizon
    /\ step \in Steps
    /\ qty \in [Instruments -> Int]
    /\ basis \in [Instruments -> SUBSET Slots]
    /\ quoted \in [Instruments -> SUBSET Slots]
    /\ seen \in SUBSET Instruments
    /\ pending = [i \in Instruments |-> pending[i]]
    /\ applied \in [Instruments -> Slots]
    /\ over \in [Instruments -> [Slots -> Int]]
    /\ settled \in [Instruments -> [Closes -> Seq(Int)]]

\* The loop visits the closes of the grid one by one, and the corporate actions
\* never run ahead of it.
Clock ==
    /\ step \in Mid => /\ now \in Grid
                       /\ last < now
                       /\ \A d \in Grid : d > last => now <= d
    /\ \A i \in Instruments : /\ applied[i] <= now
                              /\ step = "actions" => applied[i] < now
                              /\ now = 0 => qty[i] = 0

\* An order is a record, counted in the basis of the last close.
OrderBasis(i) ==
    pending[i] # NoOrder =>
      /\ pending[i] = [qty |-> pending[i].qty, reduce |-> pending[i].reduce,
                       basis |-> pending[i].basis, keys |-> pending[i].keys]
      /\ pending[i].basis = quoted[i]

\* What is held or queued is counted in the basis that the corporate actions
\* have reached, which at a bar of the instrument is the basis of that bar.
Bases ==
    \A i \in Instruments :
      /\ Exposed(i) => quoted[i] = Splits(i, applied[i])
      /\ qty[i] # 0 => basis[i] = quoted[i]
      /\ OrderBasis(i)
      /\ step \in {"fill", "funding", "mark", "decide"} /\ now - 1 \in world.bars[i] =>
           applied[i] = now - 1
      /\ step = "decide" /\ now - 1 \in world.bars[i] => quoted[i] = Splits(i, now - 1)

\* A position has a bar at this close or a later one, and has been marked.
Alive ==
    \A i \in Instruments : qty[i] # 0 =>
      /\ step \in Mid => \E s \in world.bars[i] : s >= now - 1
      /\ step \in {"decide", "recalls", "bar"} =>
           FinalClose(now) \/ \E s \in world.bars[i] : s >= now
      /\ step # "halted" =>
           i \in seen \/ (step \in {"funding", "mark"} /\ now - 1 \in world.bars[i])

\* The close up to which funding has been settled.
Passed == IF step \in {"actions", "fill", "funding"} THEN last ELSE now

Booked ==
    \A i \in Instruments :
      /\ step = "funding" => \A s \in Slots : last <= s /\ s < now => over[i][s] = qty[i]
      /\ step # "halted" => \A c \in Closes :
           /\ c > Passed => settled[i][c] = <<>>
           /\ c <= Passed /\ c \in world.funding[i] /\ over[i][c - 1] # 0 =>
                settled[i][c] = <<over[i][c - 1]>>

\* The inductive invariant.
BacktestInv == Types /\ Clock /\ Bases /\ Alive /\ Booked

-----------------------------------------------------------------------------
(* The data of a run.                                                      *)

LEMMA MinExists ==
    ASSUME NEW K \in SUBSET Nat, K # {}
    PROVE  Min(K) \in K /\ \A k \in K : Min(K) <= k
<1>1. PICK b \in K : \A k \in K : b <= k  BY LeastNatural
<1> QED  BY <1>1 DEF Min

LEMMA MaxExists ==
    ASSUME NEW K \in SUBSET Nat, K # {}, NEW b \in Nat, \A k \in K : k <= b
    PROVE  Max(K) \in K /\ \A k \in K : k <= Max(K)
<1> DEFINE G == {b - k : k \in K}
<1>1. G \in SUBSET Nat /\ G # {}
  <2>1. \A k \in K : b - k \in Nat  OBVIOUS
  <2>2. \A g \in G : \E k \in K : g = b - k  OBVIOUS
  <2>3. G # {}
    <3>1. PICK k \in K : TRUE  OBVIOUS
    <3>2. b - k \in G  OBVIOUS
    <3> QED  BY <3>2
  <2> QED  BY <2>1, <2>2, <2>3
<1>2. PICK g \in G : \A h \in G : g <= h  BY <1>1, LeastNatural
<1>3. PICK m \in K : g = b - m  BY <1>2
<1>4. \A k \in K : b - k \in G  OBVIOUS
<1>5. \A k \in K : m >= k  BY <1>2, <1>3, <1>4
<1>6. Max(K) \in K /\ \A k \in K : Max(K) >= k  BY <1>5 DEF Max
<1> QED  BY <1>6

LEMMA WorldType ==
    ASSUME world \in Worlds
    PROVE  /\ world.bars \in [Instruments -> SUBSET Slots]
           /\ world.units \in [Instruments -> [Slots -> Nat \ {0}]]
           /\ world.funding \in [Instruments -> SUBSET Closes]
BY BacktestAssumption DEF World

LEMMA GridOfBar ==
    ASSUME world \in Worlds, NEW i \in Instruments, NEW s \in world.bars[i]
    PROVE  s \in Slots /\ s \in Nat /\ s + 1 \in Grid
<1>1. s \in Slots  BY WorldType
<1>2. Horizon \in Nat  BY BacktestAssumption
<1>3. s \in Nat /\ s + 1 \in Closes /\ (s + 1) - 1 = s  BY <1>1, <1>2 DEF Slots, Closes
<1> QED  BY <1>1, <1>3 DEF Grid

LEMMA SplitsFrame ==
    ASSUME world' = world
    PROVE  /\ Grid' = Grid
           /\ \A i, s : Splits(i, s)' = Splits(i, s)
           /\ \A c : FinalClose(c)' = FinalClose(c)
BY DEF Grid, Splits, FinalClose

\* A bar of the instrument at the previous close is the bar that closes now.
LEMMA BarIsNow ==
    ASSUME Types, Clock, step \in Mid, NEW i \in Instruments, last \in world.bars[i]
    PROVE  last = now - 1
<1>1. last \in Nat /\ now \in Nat  BY BacktestAssumption DEF Types
<1>2. last + 1 \in Grid  BY GridOfBar DEF Types
<1>3. now <= last + 1  BY <1>1, <1>2 DEF Clock
<1> QED  BY <1>1, <1>3 DEF Clock

-----------------------------------------------------------------------------
(* The corporate actions.                                                  *)

LEMMA ReachedBetween ==
    ASSUME Types, Clock, step = "actions", NEW i \in Instruments
    PROVE  /\ Reached(i) \in Slots
           /\ applied[i] <= Reached(i)
           /\ Reached(i) <= now - 1
           /\ now - 1 \in world.bars[i] => Reached(i) = now - 1
<1>1. now \in Nat /\ now <= Horizon /\ Horizon \in Nat  BY BacktestAssumption DEF Types
<1>2. applied[i] \in Nat /\ applied[i] < now  BY <1>1 DEF Types, Clock, Slots
<1>3. CASE ~Defers(i)
  <2>1. Reached(i) = now - 1  BY <1>3 DEF Reached
  <2> QED  BY <1>1, <1>2, <2>1 DEF Slots
<1>4. CASE Defers(i)
  <2>1. DueSplits(i) # {} /\ now - 1 \notin world.bars[i]  BY <1>4 DEF Defers
  <2>2. DueSplits(i) \in SUBSET Nat  BY <1>1 DEF DueSplits, Splits, Slots
  <2>3. Min(DueSplits(i)) \in DueSplits(i)  BY <2>1, <2>2, MinExists
  <2>4. PICK m \in Slots \ {0} : m = Min(DueSplits(i)) /\ m <= now - 1 /\ ~(m <= applied[i])
    BY <2>3 DEF DueSplits, Splits
  <2>5. Reached(i) = m - 1  BY <1>4, <2>4 DEF Reached
  <2> QED  BY <1>1, <1>2, <2>1, <2>4, <2>5 DEF Slots
<1> QED  BY <1>3, <1>4

LEMMA SplitsAdvance ==
    ASSUME Types, Clock, step = "actions", NEW i \in Instruments
    PROVE  Splits(i, applied[i]) \cup NewSplits(i, Reached(i)) = Splits(i, Reached(i))
<1>1. now \in Nat /\ applied[i] \in Nat /\ Reached(i) \in Nat
      /\ applied[i] <= Reached(i) /\ Reached(i) <= now - 1
  BY ReachedBetween, BacktestAssumption DEF Types, Slots
<1>2. \A e \in Slots : e \in Nat  BY BacktestAssumption DEF Slots
<1> QED  BY <1>1, <1>2 DEF NewSplits, DueSplits, Splits

LEMMA Quotients ==
    ASSUME NEW m \in Int, NEW u \in Nat \ {0}
    PROVE  /\ m \div u \in Int
           /\ m = 0 => m \div u = 0
           /\ m >= 0 => m \div u >= 0
OBVIOUS

LEMMA ProductNat ==
    ASSUME NEW a \in Nat, NEW b \in Nat
    PROVE  a * b \in Nat
OBVIOUS

\* A conversion counts in the same units, on the same side of the book.
LEMMA ConvertedType ==
    ASSUME Types, NEW i \in Instruments, NEW s \in Slots, NEW q \in Int
    PROVE  /\ Converted(i, q, s) \in Int
           /\ q = 0 => Converted(i, q, s) = 0
           /\ q >= 0 => Converted(i, q, s) >= 0
<1> DEFINE v == world.units[i][s]
           u == world.units[i][applied[i]]
<1>1. v \in Nat \ {0} /\ u \in Nat \ {0}
  BY WorldType DEF Types
<1>2. Converted(i, q, s) = (q * v) \div u  BY DEF Converted
<1> HIDE DEF u, v
<1>3. q * v \in Int /\ (q = 0 => q * v = 0)  BY <1>1
<1>4. q >= 0 => q * v >= 0
  <2> SUFFICES ASSUME q >= 0 PROVE q * v >= 0
    OBVIOUS
  <2>1. q \in Nat  OBVIOUS
  <2> QED  BY <1>1, <2>1, ProductNat
<1> DEFINE m == q * v
<1>5. m \in Int /\ (q = 0 => m = 0) /\ (q >= 0 => m >= 0) /\ Converted(i, q, s) = m \div u
  BY <1>2, <1>3, <1>4
<1> HIDE DEF m
<1> QED  BY <1>1, <1>5, Quotients

LEMMA ActionsKeep == BacktestInv /\ CorporateActions => BacktestInv'
<1> SUFFICES ASSUME BacktestInv, CorporateActions PROVE BacktestInv'
  OBVIOUS
<1>1. Types /\ Clock /\ Bases /\ Alive /\ Booked  BY DEF BacktestInv
<1>2. /\ step = "actions" /\ step' = "fill" /\ world' = world /\ now' = now /\ last' = last
      /\ seen' = seen /\ over' = over /\ settled' = settled
  BY DEF CorporateActions
<1>3. \A i \in Instruments :
        /\ qty'[i] = Converted(i, qty[i], Reached(i))
        /\ basis'[i] = basis[i] \cup NewSplits(i, Reached(i))
        /\ quoted'[i] = IF Exposed(i) THEN quoted[i] \cup NewSplits(i, Reached(i))
                                      ELSE quoted[i]
        /\ pending'[i] = ConvertedOrder(i)
        /\ applied'[i] = Reached(i)
  BY DEF CorporateActions
<1>4. \A i \in Instruments :
        /\ Reached(i) \in Slots /\ applied[i] <= Reached(i) /\ Reached(i) <= now - 1
        /\ now - 1 \in world.bars[i] => Reached(i) = now - 1
        /\ Converted(i, qty[i], Reached(i)) \in Int
        /\ qty[i] = 0 => Converted(i, qty[i], Reached(i)) = 0
        /\ NewSplits(i, Reached(i)) \in SUBSET Slots
  <2> TAKE i \in Instruments
  <2>1. Reached(i) \in Slots /\ applied[i] <= Reached(i) /\ Reached(i) <= now - 1
        /\ (now - 1 \in world.bars[i] => Reached(i) = now - 1)
    BY <1>1, <1>2, ReachedBetween
  <2>2. qty[i] \in Int  BY <1>1 DEF Types
  <2>4. /\ Converted(i, qty[i], Reached(i)) \in Int
        /\ qty[i] = 0 => Converted(i, qty[i], Reached(i)) = 0
    BY <1>1, <2>1, <2>2, ConvertedType
  <2>3. NewSplits(i, Reached(i)) \in SUBSET Slots  BY DEF NewSplits, DueSplits, Splits
  <2> QED  BY <2>1, <2>3, <2>4
<1>5. \A i \in Instruments : qty'[i] # 0 => qty[i] # 0
  BY <1>3, <1>4
<1>6. \A i \in Instruments : pending'[i] # NoOrder => pending[i] # NoOrder
  BY <1>3 DEF ConvertedOrder
<1>7. Types'
  <2>1. qty' \in [Instruments -> Int]
    <3>1. \A i \in Instruments : Converted(i, qty[i], Reached(i)) \in Int  BY <1>4
    <3> QED  BY <3>1 DEF CorporateActions
  <2>2. basis' \in [Instruments -> SUBSET Slots]
    <3>1. \A i \in Instruments : basis[i] \cup NewSplits(i, Reached(i)) \in SUBSET Slots
      BY <1>1, <1>4 DEF Types
    <3> QED  BY <3>1 DEF CorporateActions
  <2>3. quoted' \in [Instruments -> SUBSET Slots]
    <3>1. \A i \in Instruments : quoted[i] \cup NewSplits(i, Reached(i)) \in SUBSET Slots
                                 /\ quoted[i] \in SUBSET Slots
      BY <1>1, <1>4 DEF Types
    <3> QED  BY <3>1 DEF CorporateActions
  <2>4. pending' = [i \in Instruments |-> pending'[i]]  BY <1>3 DEF CorporateActions
  <2>5. applied' \in [Instruments -> Slots]  BY <1>4 DEF CorporateActions
  <2> QED  BY <1>1, <1>2, <2>1, <2>2, <2>3, <2>4, <2>5 DEF Types, Steps
<1>8. Clock'
  <2>1. now \in Nat  BY <1>1, BacktestAssumption DEF Types
  <2>2. \A i \in Instruments : Reached(i) \in Nat /\ Reached(i) <= now /\ (now = 0 => qty'[i] = 0)
    <3> TAKE i \in Instruments
    <3>1. now # 0  BY <1>1, <1>2, <2>1 DEF Clock, Grid, Closes, Mid
    <3> QED  BY <1>4, <2>1, <3>1 DEF Slots
  <2> QED  BY <1>1, <1>2, <1>3, <2>1, <2>2, SplitsFrame DEF Clock, Mid
<1>9. Bases'
  <2> SUFFICES ASSUME NEW i \in Instruments
               PROVE  /\ Exposed(i)' => quoted'[i] = Splits(i, applied'[i])
                      /\ qty'[i] # 0 => basis'[i] = quoted'[i]
                      /\ OrderBasis(i)'
                      /\ now - 1 \in world.bars[i] => applied'[i] = now - 1
    BY <1>2, SplitsFrame DEF Bases
  <2>1. Exposed(i)' => Exposed(i)  BY <1>5, <1>6 DEF Exposed
  <2>2. Exposed(i)' => quoted'[i] = Splits(i, applied'[i])
    BY <1>1, <1>2, <1>3, <2>1, SplitsAdvance DEF Bases
  <2>3. qty'[i] # 0 => basis'[i] = quoted'[i]  BY <1>1, <1>3, <1>5 DEF Bases, Exposed
  <2>4. OrderBasis(i)'
    <3> SUFFICES ASSUME pending'[i] # NoOrder
                 PROVE  /\ pending'[i] = [qty |-> pending'[i].qty, reduce |-> pending'[i].reduce,
                                          basis |-> pending'[i].basis, keys |-> pending'[i].keys]
                        /\ pending'[i].basis = quoted'[i]
      BY DEF OrderBasis
    <3>1. pending[i] # NoOrder /\ Exposed(i)  BY <1>6 DEF Exposed
    <3> DEFINE o == pending[i]
    <3>2. o = [qty |-> o.qty, reduce |-> o.reduce, basis |-> o.basis, keys |-> o.keys]
          /\ o.basis = quoted[i]
      BY <1>1, <3>1 DEF Bases, OrderBasis
    <3>3. pending'[i] = [o EXCEPT !.qty = Converted(i, @, Reached(i)),
                                  !.basis = @ \cup NewSplits(i, Reached(i))]
      BY <1>3, <3>1 DEF ConvertedOrder
    <3> HIDE DEF o
    <3>4. pending'[i] = [qty |-> Converted(i, o.qty, Reached(i)), reduce |-> o.reduce,
                         basis |-> o.basis \cup NewSplits(i, Reached(i)), keys |-> o.keys]
      BY <3>2, <3>3
    <3> QED  BY <1>3, <3>1, <3>2, <3>4
  <2>5. now - 1 \in world.bars[i] => applied'[i] = now - 1  BY <1>3, <1>4
  <2> QED  BY <2>2, <2>3, <2>4, <2>5
<1>10. Alive'  BY <1>1, <1>2, <1>5, SplitsFrame DEF Alive, Mid
<1>11. Booked'  BY <1>1, <1>2 DEF Booked, Passed
<1> QED  BY <1>7, <1>8, <1>9, <1>10, <1>11 DEF BacktestInv

-----------------------------------------------------------------------------
(* The other phases.                                                       *)

LEMMA InitKeeps == BacktestInit => BacktestInv
<1> SUFFICES ASSUME BacktestInit PROVE BacktestInv
  OBVIOUS
<1>1. Horizon \in Nat \ {0}  BY BacktestAssumption
<1>2. 0 \in Slots /\ 0 \in 0 .. Horizon  BY <1>1 DEF Slots
<1>3. Types
  <2>1. over \in [Instruments -> [Slots -> Int]]  BY DEF BacktestInit
  <2>2. settled \in [Instruments -> [Closes -> Seq(Int)]]  BY DEF BacktestInit
  <2>3. basis \in [Instruments -> SUBSET Slots] /\ quoted \in [Instruments -> SUBSET Slots]
    BY DEF BacktestInit
  <2>4. pending = [i \in Instruments |-> pending[i]]  BY DEF BacktestInit
  <2> QED  BY <1>2, <2>1, <2>2, <2>3, <2>4 DEF BacktestInit, Types, Steps
<1>4. Clock  BY <1>2 DEF Clock, BacktestInit, Mid
<1>5. Bases
  <2>1. \A i \in Instruments : ~Exposed(i)  BY DEF BacktestInit, Exposed
  <2> QED  BY <2>1 DEF Bases, BacktestInit, OrderBasis
<1>6. Alive  BY DEF Alive, BacktestInit
<1>7. Booked  BY <1>1 DEF Booked, BacktestInit, Passed, Closes
<1> QED  BY <1>3, <1>4, <1>5, <1>6, <1>7 DEF BacktestInv

LEMMA HaltKeeps == BacktestInv /\ Halt => BacktestInv'
<1> SUFFICES ASSUME BacktestInv, Halt PROVE BacktestInv'
  OBVIOUS
<1>1. Types /\ Clock /\ Bases /\ Alive /\ Booked  BY DEF BacktestInv
<1>2. /\ step' = "halted" /\ world' = world /\ now' = now /\ last' = last /\ qty' = qty
      /\ basis' = basis /\ quoted' = quoted /\ seen' = seen /\ pending' = pending
      /\ applied' = applied /\ over' = over /\ settled' = settled
  BY DEF Halt
<1>3. Types'  BY <1>1, <1>2 DEF Types, Steps
<1>4. Clock'  BY <1>1, <1>2, SplitsFrame DEF Clock, Mid
<1>5. Bases'  BY <1>1, <1>2, SplitsFrame DEF Bases, Exposed, OrderBasis
<1>6. Alive'  BY <1>2 DEF Alive, Mid
<1>7. Booked'  BY <1>2 DEF Booked
<1> QED  BY <1>3, <1>4, <1>5, <1>6, <1>7 DEF BacktestInv

LEMMA NextBarKeeps == BacktestInv /\ NextBar => BacktestInv'
<1> SUFFICES ASSUME BacktestInv, NextBar PROVE BacktestInv'
  OBVIOUS
<1>1. Types /\ Clock /\ Bases /\ Alive /\ Booked  BY DEF BacktestInv
<1>2. /\ step = "bar" /\ step' = "actions" /\ last' = now
      /\ world' = world /\ qty' = qty /\ basis' = basis /\ quoted' = quoted /\ seen' = seen
      /\ pending' = pending /\ applied' = applied /\ over' = over /\ settled' = settled
  BY DEF NextBar
<1>3. now' \in Grid /\ now' > now /\ \A d \in Grid : d > now => now' <= d
  BY DEF NextBar
<1>4. /\ now \in Nat /\ now' \in Nat /\ now \in 0 .. Horizon /\ now' \in 0 .. Horizon
  BY <1>1, <1>3, BacktestAssumption DEF Types, Grid, Closes
<1>5. Types'  BY <1>1, <1>2, <1>4 DEF Types, Steps
<1>6. Clock'
  <2>1. \A i \in Instruments : applied[i] \in Nat /\ applied[i] <= now
    BY <1>1, BacktestAssumption DEF Types, Slots, Clock
  <2>2. \A i \in Instruments : applied[i] <= now' /\ applied[i] < now' /\ now' # 0
    BY <1>3, <1>4, <2>1
  <2>3. now' \in Grid' /\ now < now' /\ \A d \in Grid' : d > now => now' <= d
    BY <1>2, <1>3, <1>4, SplitsFrame
  <2> QED  BY <1>2, <2>2, <2>3 DEF Clock
<1>7. Bases'  BY <1>1, <1>2, SplitsFrame DEF Bases, Exposed, OrderBasis
<1>8. Alive'
  <2> SUFFICES ASSUME NEW i \in Instruments, qty[i] # 0
               PROVE  i \in seen /\ \E s \in world.bars[i] : s >= now' - 1
    BY <1>2 DEF Alive, Mid
  <2>1. i \in seen  BY <1>1, <1>2 DEF Alive
  <2>2. ~FinalClose(now)  BY <1>3, <1>4 DEF FinalClose
  <2>3. PICK s \in world.bars[i] : s >= now  BY <1>1, <1>2, <2>2 DEF Alive
  <2>4. s \in Nat /\ s + 1 \in Grid  BY <1>1, GridOfBar DEF Types
  <2>5. now' <= s + 1  BY <1>3, <1>4, <2>3, <2>4
  <2> QED  BY <1>4, <2>1, <2>4, <2>5
<1>9. Booked'
  <2>1. Passed' = Passed  BY <1>2 DEF Passed
  <2> QED  BY <1>1, <1>2, <2>1 DEF Booked
<1> QED  BY <1>5, <1>6, <1>7, <1>8, <1>9 DEF BacktestInv

LEMMA EndRunKeeps == BacktestInv /\ EndRun => BacktestInv'
<1> SUFFICES ASSUME BacktestInv, EndRun PROVE BacktestInv'
  OBVIOUS
<1>1. Types /\ Clock /\ Bases /\ Alive /\ Booked  BY DEF BacktestInv
<1>2. /\ step = "bar" /\ step' = "done" /\ world' = world /\ now' = now /\ last' = last
      /\ qty' = qty /\ basis' = basis /\ quoted' = quoted /\ seen' = seen
      /\ applied' = applied /\ over' = over /\ settled' = settled
      /\ pending' = [i \in Instruments |-> NoOrder]
  BY DEF EndRun
<1>3. Types'  BY <1>1, <1>2 DEF Types, Steps
<1>4. Clock'  BY <1>1, <1>2, SplitsFrame DEF Clock, Mid
<1>5. Bases'
  <2>1. \A i \in Instruments : pending'[i] = NoOrder  BY <1>2
  <2>2. \A i \in Instruments : OrderBasis(i)' /\ (Exposed(i)' => Exposed(i))
    BY <1>2, <2>1 DEF OrderBasis, Exposed
  <2> QED  BY <1>1, <1>2, <2>2, SplitsFrame DEF Bases
<1>6. Alive'  BY <1>1, <1>2, SplitsFrame DEF Alive, Mid
<1>7. Booked'
  <2>1. Passed' = Passed  BY <1>2 DEF Passed
  <2> QED  BY <1>1, <1>2, <2>1 DEF Booked
<1> QED  BY <1>3, <1>4, <1>5, <1>6, <1>7 DEF BacktestInv

LEMMA FillsKeep == BacktestInv /\ FillOrders => BacktestInv'
<1> SUFFICES ASSUME BacktestInv, FillOrders PROVE BacktestInv'
  OBVIOUS
<1>1. Types /\ Clock /\ Bases /\ Alive /\ Booked  BY DEF BacktestInv
<1>2. /\ step = "fill" /\ step' = "funding" /\ world' = world /\ now' = now /\ last' = last
      /\ quoted' = quoted /\ seen' = seen /\ applied' = applied /\ settled' = settled
      /\ pending' = [i \in Instruments |-> NoOrder]
  BY DEF FillOrders
<1>3. PICK take :
        /\ \A i \in Instruments : take[i] \in Tradable(i)
        /\ qty' = [i \in Instruments |-> qty[i] + Signed(i, take[i])]
        /\ basis' = [i \in Instruments |->
                       IF qty[i] = 0 /\ take[i] # 0 THEN pending[i].basis ELSE basis[i]]
        /\ over' = [i \in Instruments |-> [s \in Slots |->
                      IF last <= s /\ s < now THEN qty[i] + Signed(i, take[i]) ELSE over[i][s]]]
  BY DEF FillOrders
<1>4. \A i \in Instruments :
        /\ take[i] \in Int /\ Signed(i, take[i]) \in Int /\ qty[i] \in Int
        /\ take[i] # 0 => pending[i] # NoOrder /\ last \in world.bars[i]
        /\ take[i] = 0 => Signed(i, take[i]) = 0
  <2> TAKE i \in Instruments
  <2> DEFINE k == Abs(pending[i].qty)
  <2>0. take[i] \in {0} \/ (pending[i] # NoOrder /\ last \in world.bars[i] /\ take[i] \in 0 .. k)
    BY <1>3, Zenon DEF Tradable
  <2> HIDE DEF k
  <2>1. take[i] \in Int /\ (take[i] # 0 => pending[i] # NoOrder /\ last \in world.bars[i])
    BY <2>0
  <2>2. CASE pending[i] # NoOrder /\ pending[i].qty < 0
    <3>1. Signed(i, take[i]) = -take[i]  BY <2>2 DEF Signed
    <3> QED  BY <1>1, <2>1, <3>1 DEF Types
  <2>3. CASE ~(pending[i] # NoOrder /\ pending[i].qty < 0)
    <3>1. Signed(i, take[i]) = take[i]  BY <2>3 DEF Signed
    <3> QED  BY <1>1, <2>1, <3>1 DEF Types
  <2> QED  BY <2>2, <2>3
<1>5. \A i \in Instruments : qty'[i] # 0 => qty[i] # 0 \/ take[i] # 0
  BY <1>3, <1>4
<1>6. Types'
  <2>1. qty' \in [Instruments -> Int]  BY <1>3, <1>4
  <2>2. basis' \in [Instruments -> SUBSET Slots]
    <3>1. ASSUME NEW i \in Instruments
          PROVE  (IF qty[i] = 0 /\ take[i] # 0 THEN pending[i].basis ELSE basis[i]) \in SUBSET Slots
      <4>1. take[i] # 0 => pending[i].basis = quoted[i]
        BY <1>1, <1>4 DEF Bases, OrderBasis
      <4> QED  BY <1>1, <4>1 DEF Types
    <3> QED  BY <1>3, <3>1
  <2>3. over' \in [Instruments -> [Slots -> Int]]
    <3>1. \A i \in Instruments : \A s \in Slots : over[i][s] \in Int  BY <1>1 DEF Types
    <3> QED  BY <1>3, <1>4, <3>1
  <2> QED  BY <1>1, <1>2, <2>1, <2>2, <2>3 DEF Types, Steps
<1>7. now # 0  BY <1>1, <1>2, BacktestAssumption DEF Clock, Mid, Grid, Closes
<1>8. Clock'  BY <1>1, <1>2, <1>7, SplitsFrame DEF Clock, Mid
<1>9. Bases'
  <2> SUFFICES ASSUME NEW i \in Instruments
               PROVE  /\ qty'[i] # 0 => quoted[i] = Splits(i, applied[i])
                      /\ qty'[i] # 0 => basis'[i] = quoted[i]
                      /\ now - 1 \in world.bars[i] => applied[i] = now - 1
    BY <1>2, SplitsFrame DEF Bases, Exposed, OrderBasis
  <2>1. qty'[i] # 0 => Exposed(i)  BY <1>4, <1>5 DEF Exposed
  <2>2. qty'[i] # 0 => basis'[i] = quoted[i]
    BY <1>1, <1>3, <1>4, <1>5 DEF Bases, OrderBasis
  <2> QED  BY <1>1, <1>2, <2>1, <2>2 DEF Bases
<1>10. Alive'
  <2> SUFFICES ASSUME NEW i \in Instruments, qty'[i] # 0
               PROVE  /\ \E s \in world.bars[i] : s >= now - 1
                      /\ i \in seen \/ now - 1 \in world.bars[i]
    BY <1>2 DEF Alive, Mid
  <2>1. CASE qty[i] # 0  BY <1>1, <1>2, <2>1 DEF Alive, Mid
  <2>2. CASE take[i] # 0
    <3>1. last = now - 1 /\ last \in world.bars[i]
      BY <1>1, <1>2, <1>4, <2>2, BarIsNow DEF Mid
    <3>2. last \in Nat  BY <1>1, <3>1, GridOfBar DEF Types
    <3> QED  BY <3>1, <3>2
  <2> QED  BY <1>5, <2>1, <2>2
<1>11. Booked'
  <2>1. Passed' = last /\ Passed = last  BY <1>2 DEF Passed
  <2>2. last \in Nat /\ now \in Nat  BY <1>1, BacktestAssumption DEF Types
  <2> SUFFICES ASSUME NEW i \in Instruments
               PROVE  /\ \A s \in Slots : last <= s /\ s < now => over'[i][s] = qty'[i]
                      /\ \A c \in Closes :
                           /\ c > last => settled[i][c] = <<>>
                           /\ c <= last /\ c \in world.funding[i] /\ over'[i][c - 1] # 0 =>
                                settled[i][c] = <<over'[i][c - 1]>>
    BY <1>2, <2>1 DEF Booked
  <2>3. \A s \in Slots : last <= s /\ s < now => over'[i][s] = qty'[i]  BY <1>3
  <2>4. ASSUME NEW c \in Closes, c <= last PROVE over'[i][c - 1] = over[i][c - 1]
    <3>1. c - 1 \in Slots /\ ~(last <= c - 1)
      BY <2>2, <2>4, BacktestAssumption DEF Closes, Slots
    <3> QED  BY <1>3, <3>1
  <2> QED  BY <1>1, <1>2, <2>1, <2>3, <2>4 DEF Booked
<1> QED  BY <1>6, <1>8, <1>9, <1>10, <1>11 DEF BacktestInv

LEMMA FundingKeeps == BacktestInv /\ SettleFunding => BacktestInv'
<1> SUFFICES ASSUME BacktestInv, SettleFunding PROVE BacktestInv'
  OBVIOUS
<1>1. Types /\ Clock /\ Bases /\ Alive /\ Booked  BY DEF BacktestInv
<1>2. /\ step = "funding" /\ step' = "mark" /\ world' = world /\ now' = now /\ last' = last
      /\ qty' = qty /\ basis' = basis /\ quoted' = quoted /\ seen' = seen
      /\ pending' = pending /\ applied' = applied /\ over' = over
  BY DEF SettleFunding
<1>3. \A i \in Instruments : \A c \in Closes :
        settled'[i][c] = IF c \in FundingDue(i) /\ (i \in seen \/ now - 1 \in world.bars[i])
                           THEN Append(settled[i][c], qty[i]) ELSE settled[i][c]
  BY DEF SettleFunding
<1>4. Types'
  <2>1. ASSUME NEW i \in Instruments, NEW c \in Closes
        PROVE  /\ settled[i][c] \in Seq(Int)
               /\ Append(settled[i][c], qty[i]) \in Seq(Int)
    BY <1>1 DEF Types
  <2>2. settled' \in [Instruments -> [Closes -> Seq(Int)]]  BY <2>1 DEF SettleFunding
  <2> QED  BY <1>1, <1>2, <2>2 DEF Types, Steps
<1>5. Clock'  BY <1>1, <1>2, SplitsFrame DEF Clock, Mid
<1>6. Bases'  BY <1>1, <1>2, SplitsFrame DEF Bases, Exposed, OrderBasis
<1>7. Alive'  BY <1>1, <1>2 DEF Alive, Mid
<1>8. Booked'
  <2>1. Passed' = now /\ Passed = last  BY <1>2 DEF Passed
  <2>2. last \in Nat /\ now \in Nat /\ last < now
    BY <1>1, <1>2, BacktestAssumption DEF Types, Clock, Mid
  <2> SUFFICES ASSUME NEW i \in Instruments, NEW c \in Closes
               PROVE  /\ c > now => settled'[i][c] = <<>>
                      /\ c <= now /\ c \in world.funding[i] /\ over[i][c - 1] # 0 =>
                           settled'[i][c] = <<over[i][c - 1]>>
    BY <1>2, <2>1 DEF Booked
  <2>3. c \in Nat /\ c - 1 \in Slots /\ c - 1 \in Int
    BY BacktestAssumption DEF Closes, Slots
  <2>4. c > last => settled[i][c] = <<>>  BY <1>1, <1>2, <2>1 DEF Booked
  <2>5. CASE c > now
    <3>1. c \notin FundingDue(i)  BY <2>2, <2>3, <2>5 DEF FundingDue
    <3> QED  BY <1>3, <2>2, <2>3, <2>4, <2>5, <3>1
  <2>6. CASE c <= last
    <3>1. c \notin FundingDue(i)  BY <2>2, <2>3, <2>6 DEF FundingDue
    <3>2. settled'[i][c] = settled[i][c]  BY <1>3, <3>1
    <3>3. c \in world.funding[i] /\ over[i][c - 1] # 0 => settled[i][c] = <<over[i][c - 1]>>
      BY <1>1, <1>2, <2>1, <2>6 DEF Booked
    <3> QED  BY <2>2, <2>3, <2>6, <3>2, <3>3
  <2>7. CASE last < c /\ c <= now
    <3>1. over[i][c - 1] = qty[i]  BY <1>1, <1>2, <2>2, <2>3, <2>7 DEF Booked
    <3>2. SUFFICES ASSUME c \in world.funding[i], qty[i] # 0 PROVE settled'[i][c] = <<qty[i]>>
      BY <2>2, <2>3, <2>7, <3>1
    <3>3. i \in seen \/ now - 1 \in world.bars[i]  BY <1>1, <1>2, <3>2 DEF Alive
    <3>4. c \in FundingDue(i)  BY <2>7, <3>2 DEF FundingDue
    <3>5. settled'[i][c] = Append(<<>>, qty[i])  BY <1>3, <2>4, <2>7, <3>3, <3>4
    <3> QED  BY <3>5
  <2> QED  BY <2>2, <2>3, <2>5, <2>6, <2>7
<1> QED  BY <1>4, <1>5, <1>6, <1>7, <1>8 DEF BacktestInv

LEMMA MarksKeep == BacktestInv /\ MarkBook => BacktestInv'
<1> SUFFICES ASSUME BacktestInv, MarkBook PROVE BacktestInv'
  OBVIOUS
<1>1. Types /\ Clock /\ Bases /\ Alive /\ Booked  BY DEF BacktestInv
<1>2. /\ step = "mark" /\ step' = "decide" /\ world' = world /\ now' = now /\ last' = last
      /\ basis' = basis /\ pending' = pending /\ applied' = applied /\ over' = over
      /\ settled' = settled
      /\ seen' = seen \cup {i \in Instruments : now - 1 \in world.bars[i]}
  BY DEF MarkBook
<1>3. \A i \in Instruments :
        /\ quoted'[i] = IF now - 1 \in world.bars[i] THEN Splits(i, now - 1) ELSE quoted[i]
        /\ qty'[i] = IF Ended(i) THEN 0 ELSE qty[i]
  BY DEF MarkBook
<1>4. \A i, s : Splits(i, s) \in SUBSET Slots  BY DEF Splits
<1>5. Types'
  <2>1. qty' \in [Instruments -> Int]
    <3>1. \A i \in Instruments : (IF Ended(i) THEN 0 ELSE qty[i]) \in Int  BY <1>1 DEF Types
    <3> QED  BY <3>1 DEF MarkBook
  <2>2. quoted' \in [Instruments -> SUBSET Slots]
    <3>1. \A i \in Instruments :
            (IF now - 1 \in world.bars[i] THEN Splits(i, now - 1) ELSE quoted[i]) \in SUBSET Slots
      BY <1>1, <1>4 DEF Types
    <3> QED  BY <3>1 DEF MarkBook
  <2> QED  BY <1>1, <1>2, <2>1, <2>2 DEF Types, Steps
<1>6. Clock'  BY <1>1, <1>2, <1>3, SplitsFrame DEF Clock, Mid
<1>7. Bases'
  <2> SUFFICES ASSUME NEW i \in Instruments
               PROVE  /\ Exposed(i)' => quoted'[i] = Splits(i, applied[i])
                      /\ qty'[i] # 0 => basis[i] = quoted'[i]
                      /\ OrderBasis(i)'
                      /\ now - 1 \in world.bars[i] => applied[i] = now - 1
                      /\ now - 1 \in world.bars[i] => quoted'[i] = Splits(i, now - 1)
    BY <1>2, SplitsFrame DEF Bases
  <2>1. now - 1 \in world.bars[i] => applied[i] = now - 1  BY <1>1, <1>2 DEF Bases
  <2>2. Exposed(i)' => Exposed(i)  BY <1>2, <1>3 DEF Exposed
  <2>3. Exposed(i) => quoted'[i] = quoted[i] /\ quoted[i] = Splits(i, applied[i])
    BY <1>1, <1>3, <2>1 DEF Bases
  <2>4. qty'[i] # 0 => basis[i] = quoted'[i]  BY <1>1, <1>3, <2>3 DEF Bases, Exposed
  <2>5. OrderBasis(i)'  BY <1>1, <1>2, <2>3 DEF Bases, Exposed, OrderBasis
  <2> QED  BY <1>3, <2>1, <2>2, <2>3, <2>4, <2>5
<1>8. Alive'
  <2> SUFFICES ASSUME NEW i \in Instruments, qty'[i] # 0
               PROVE  /\ FinalClose(now) \/ \E s \in world.bars[i] : s >= now
                      /\ i \in seen'
    BY <1>2, SplitsFrame DEF Alive, Mid
  <2>1. qty[i] # 0 /\ ~Ended(i)  BY <1>3
  <2>2. i \in seen \/ now - 1 \in world.bars[i]  BY <1>1, <1>2, <2>1 DEF Alive
  <2>3. PICK s \in world.bars[i] : s >= now - 1  BY <1>1, <1>2, <2>1 DEF Alive, Mid
  <2>4. now \in Nat /\ \A b \in world.bars[i] : b \in Nat
    BY <1>1, GridOfBar, BacktestAssumption DEF Types
  <2>5. ASSUME ~FinalClose(now) PROVE \E b \in world.bars[i] : b >= now
    <3>1. ~LastBarOf(i, now)  BY <2>1, <2>5 DEF Ended
    <3>2. CASE now - 1 \in world.bars[i]
      <4>1. \E b \in world.bars[i] : ~(b < now)  BY <3>1, <3>2 DEF LastBarOf
      <4> QED  BY <2>4, <4>1
    <3>3. CASE now - 1 \notin world.bars[i]
      <4>1. s # now - 1  BY <3>3
      <4> QED  BY <2>3, <2>4, <4>1
    <3> QED  BY <3>2, <3>3
  <2> QED  BY <1>2, <2>2, <2>5
<1>9. Booked'
  <2>1. Passed' = Passed  BY <1>2 DEF Passed
  <2> QED  BY <1>1, <1>2, <2>1 DEF Booked
<1> QED  BY <1>5, <1>6, <1>7, <1>8, <1>9 DEF BacktestInv

LEMMA DecideKeeps == BacktestInv /\ Decide => BacktestInv'
<1> SUFFICES ASSUME BacktestInv, Decide PROVE BacktestInv'
  OBVIOUS
<1>1. Types /\ Clock /\ Bases /\ Alive /\ Booked  BY DEF BacktestInv
<1>2. /\ step = "decide" /\ step' = "recalls" /\ world' = world /\ now' = now /\ last' = last
      /\ qty' = qty /\ basis' = basis /\ quoted' = quoted /\ seen' = seen
      /\ applied' = applied /\ over' = over /\ settled' = settled
  BY DEF Decide
<1>3. PICK d : /\ \A i \in Instruments : d[i] \in Changes(i)
               /\ pending' = [i \in Instruments |-> Target(i, d[i])]
  BY DEF Decide
<1>4. Types'
  <2>1. pending' = [i \in Instruments |-> pending'[i]]  BY <1>3
  <2> QED  BY <1>1, <1>2, <2>1 DEF Types, Steps
<1>5. Clock'  BY <1>1, <1>2, SplitsFrame DEF Clock, Mid
<1>6. Bases'
  <2> SUFFICES ASSUME NEW i \in Instruments
               PROVE  /\ Exposed(i)' => quoted[i] = Splits(i, applied[i])
                      /\ qty[i] # 0 => basis[i] = quoted[i]
                      /\ OrderBasis(i)'
    BY <1>2, SplitsFrame DEF Bases
  <2>1. pending'[i] = Target(i, d[i])  BY <1>3
  <2>2. ASSUME pending'[i] # NoOrder
        PROVE  quoted[i] = Splits(i, applied[i]) /\ quoted[i] = Splits(i, now - 1) /\ d[i] # 0
    <3>1. d[i] # 0  BY <2>1, <2>2 DEF Target
    <3>2. now - 1 \in world.bars[i]  BY <1>3, <3>1 DEF Changes, Decidable
    <3> QED  BY <1>1, <1>2, <3>1, <3>2 DEF Bases
  <2>3. Exposed(i)' => quoted[i] = Splits(i, applied[i])
    BY <1>1, <1>2, <2>2 DEF Bases, Exposed
  <2>4. OrderBasis(i)'
    <3> SUFFICES ASSUME pending'[i] # NoOrder
                 PROVE  /\ pending'[i] = [qty |-> pending'[i].qty, reduce |-> pending'[i].reduce,
                                          basis |-> pending'[i].basis, keys |-> pending'[i].keys]
                        /\ pending'[i].basis = quoted[i]
      BY <1>2 DEF OrderBasis
    <3> QED  BY <2>1, <2>2 DEF Target
  <2> QED  BY <1>1, <2>3, <2>4 DEF Bases
<1>7. Alive'  BY <1>1, <1>2, SplitsFrame DEF Alive, Mid
<1>8. Booked'
  <2>1. Passed' = Passed  BY <1>2 DEF Passed
  <2> QED  BY <1>1, <1>2, <2>1 DEF Booked
<1> QED  BY <1>4, <1>5, <1>6, <1>7, <1>8 DEF BacktestInv

LEMMA RecallsKeep == BacktestInv /\ QueueRecalls => BacktestInv'
<1> SUFFICES ASSUME BacktestInv, QueueRecalls PROVE BacktestInv'
  OBVIOUS
<1>1. Types /\ Clock /\ Bases /\ Alive /\ Booked  BY DEF BacktestInv
<1>2. /\ step = "recalls" /\ step' = "bar" /\ world' = world /\ now' = now /\ last' = last
      /\ qty' = qty /\ basis' = basis /\ quoted' = quoted /\ seen' = seen
      /\ applied' = applied /\ over' = over /\ settled' = settled
      /\ pending' = [i \in Instruments |->
                       IF OpenRecalls(i) # {} /\ Short(qty[i]) > 0 /\ CoverQty(i) > 0
                         THEN Cover(i) ELSE pending[i]]
  BY DEF QueueRecalls
<1>3. Types'
  <2>1. pending' = [i \in Instruments |-> pending'[i]]  BY <1>2
  <2> QED  BY <1>1, <1>2, <2>1 DEF Types, Steps
<1>4. Clock'  BY <1>1, <1>2, SplitsFrame DEF Clock, Mid
<1>5. Bases'
  <2> SUFFICES ASSUME NEW i \in Instruments
               PROVE  /\ Exposed(i)' => quoted[i] = Splits(i, applied[i])
                      /\ qty[i] # 0 => basis[i] = quoted[i]
                      /\ OrderBasis(i)'
    BY <1>2, SplitsFrame DEF Bases
  <2>1. CASE OpenRecalls(i) # {} /\ Short(qty[i]) > 0 /\ CoverQty(i) > 0
    <3>1. qty[i] # 0  BY <2>1 DEF Short, Larger
    <3>2. pending'[i] = Cover(i)  BY <1>2, <2>1
    <3>3. basis[i] = quoted[i] /\ quoted[i] = Splits(i, applied[i])
      BY <1>1, <3>1 DEF Bases, Exposed
    <3>4. /\ Cover(i) = [qty |-> Cover(i).qty, reduce |-> Cover(i).reduce,
                         basis |-> Cover(i).basis, keys |-> Cover(i).keys]
          /\ Cover(i).basis = basis[i]
      BY DEF Cover
    <3>5. OrderBasis(i)'  BY <1>2, <3>2, <3>3, <3>4 DEF OrderBasis
    <3> QED  BY <3>3, <3>5
  <2>2. CASE ~(OpenRecalls(i) # {} /\ Short(qty[i]) > 0 /\ CoverQty(i) > 0)
    <3>1. pending'[i] = pending[i]  BY <1>2, <2>2
    <3> QED  BY <1>1, <1>2, <3>1 DEF Bases, Exposed, OrderBasis
  <2> QED  BY <2>1, <2>2
<1>6. Alive'  BY <1>1, <1>2, SplitsFrame DEF Alive, Mid
<1>7. Booked'
  <2>1. Passed' = Passed  BY <1>2 DEF Passed
  <2> QED  BY <1>1, <1>2, <2>1 DEF Booked
<1> QED  BY <1>3, <1>4, <1>5, <1>6, <1>7 DEF BacktestInv

-----------------------------------------------------------------------------
(* The theorems.                                                           *)

LEMMA StutterKeeps == BacktestInv /\ UNCHANGED btVars => BacktestInv'
<1> SUFFICES ASSUME BacktestInv, UNCHANGED btVars PROVE BacktestInv'
  OBVIOUS
<1>1. Types /\ Clock /\ Bases /\ Alive /\ Booked  BY DEF BacktestInv
<1>2. /\ step' = step /\ world' = world /\ now' = now /\ last' = last /\ qty' = qty
      /\ basis' = basis /\ quoted' = quoted /\ seen' = seen /\ pending' = pending
      /\ applied' = applied /\ over' = over /\ settled' = settled
  BY DEF btVars
<1>3. Types' /\ Clock'  BY <1>1, <1>2, SplitsFrame DEF Types, Clock
<1>4. Bases'  BY <1>1, <1>2, SplitsFrame DEF Bases, Exposed, OrderBasis
<1>5. Alive'  BY <1>1, <1>2, SplitsFrame DEF Alive
<1>6. Booked'  BY <1>1, <1>2 DEF Booked, Passed
<1> QED  BY <1>3, <1>4, <1>5, <1>6 DEF BacktestInv

\* The inductive invariant holds in every run, whatever its market data.
THEOREM BacktestInvariant == BacktestSpec => []BacktestInv
<1>1. BacktestInit => BacktestInv  BY InitKeeps
<1>2. BacktestInv /\ [BacktestNext]_btVars => BacktestInv'
  <2> SUFFICES ASSUME BacktestInv, [BacktestNext]_btVars PROVE BacktestInv'
    OBVIOUS
  <2>1. CASE NextBar  BY <2>1, NextBarKeeps
  <2>2. CASE Halt  BY <2>2, HaltKeeps
  <2>3. CASE EndRun  BY <2>3, EndRunKeeps
  <2>4. CASE CorporateActions  BY <2>4, ActionsKeep
  <2>5. CASE FillOrders  BY <2>5, FillsKeep
  <2>6. CASE SettleFunding  BY <2>6, FundingKeeps
  <2>7. CASE MarkBook  BY <2>7, MarksKeep
  <2>8. CASE Decide  BY <2>8, DecideKeeps
  <2>9. CASE QueueRecalls  BY <2>9, RecallsKeep
  <2>10. CASE UNCHANGED btVars  BY <2>10, StutterKeeps
  <2>11. MissingQuote \/ RefuseActions \/ RefuseFill \/ RefuseExit => Halt
    BY DEF MissingQuote, RefuseActions, RefuseFill, RefuseExit
  <2> QED  BY <2>1, <2>2, <2>3, <2>4, <2>5, <2>6, <2>7, <2>8, <2>9, <2>10, <2>11
           DEF BacktestNext
<1> QED  BY <1>1, <1>2, PTL DEF BacktestSpec

\* A position is only ever valued and traded in shares of its own basis.
THEOREM OneBasis == BacktestSpec => []CommonBasis
<1>1. BacktestInv => CommonBasis
  <2> SUFFICES ASSUME BacktestInv, NEW i \in Instruments
               PROVE  /\ qty[i] # 0 => basis[i] = quoted[i]
                      /\ step = "fill" /\ pending[i] # NoOrder /\ last \in world.bars[i] =>
                           /\ pending[i].basis = Splits(i, last)
                           /\ qty[i] # 0 => basis[i] = Splits(i, last)
    BY DEF CommonBasis
  <2>1. Types /\ Clock /\ Bases  BY DEF BacktestInv
  <2>2. qty[i] # 0 => basis[i] = quoted[i]  BY <2>1 DEF Bases
  <2>3. ASSUME step = "fill", pending[i] # NoOrder, last \in world.bars[i]
        PROVE  pending[i].basis = quoted[i] /\ quoted[i] = Splits(i, last)
    <3>1. last = now - 1  BY <2>1, <2>3, BarIsNow DEF Mid
    <3>2. applied[i] = last  BY <2>1, <2>3, <3>1 DEF Bases
    <3> QED  BY <2>1, <2>3, <3>2 DEF Bases, OrderBasis, Exposed
  <2> QED  BY <2>2, <2>3
<1> QED  BY <1>1, BacktestInvariant, PTL

\* An open position always has a bar ahead of it, or the run is over.
THEOREM NobodyIsStranded == BacktestSpec => []NeverStranded
<1>1. BacktestInv => NeverStranded  BY DEF BacktestInv, Alive, NeverStranded
<1> QED  BY <1>1, BacktestInvariant, PTL

\* Every funding event is settled once, on the position held over its slot.
THEOREM FundingIsSettled == BacktestSpec => []FundingFollowsHoldings
<1>1. BacktestInv => FundingFollowsHoldings
  <2> SUFFICES ASSUME BacktestInv, NEW i \in Instruments, NEW c \in world.funding[i],
                      \/ c <= last /\ step \in Mid
                      \/ c <= now /\ step \in {"mark", "decide", "recalls", "bar", "done"},
                      over[i][c - 1] # 0
               PROVE  settled[i][c] = <<over[i][c - 1]>>
    BY DEF FundingFollowsHoldings, Mid
  <2>1. Types /\ Clock /\ Booked  BY DEF BacktestInv
  <2>2. c \in Closes /\ now \in Nat /\ last \in Nat /\ c \in Nat
    BY <2>1, WorldType, BacktestAssumption DEF Types, Closes
  <2>3. step # "halted" /\ c <= Passed  BY <2>1, <2>2 DEF Passed, Clock, Mid
  <2> QED  BY <2>1, <2>2, <2>3 DEF Booked
<1> QED  BY <1>1, BacktestInvariant, PTL

-----------------------------------------------------------------------------
(* The recalls: what a fill covers is shared out among the keys.           *)

\* The keys of K that are served before n.
Before(K, n) == {m \in K : m < n}

LEMMA Prefixes ==
    ASSUME NEW N \in Nat, NEW K \in SUBSET (1 .. N)
    PROVE  /\ IsFiniteSet(K)
           /\ \A n : Before(K, n) \in SUBSET K /\ IsFiniteSet(Before(K, n))
           /\ Before(K, 0) = {}
           /\ Before(K, N + 1) = K
           /\ \A n \in Nat : n \notin K => Before(K, n + 1) = Before(K, n)
<1>1. \A m \in K : m \in Nat /\ 1 <= m /\ m <= N  OBVIOUS
<1>2. IsFiniteSet(1 .. N)  BY FS_Interval
<1>3. IsFiniteSet(K)  BY <1>2, FS_Subset
<1>4. \A n : Before(K, n) \in SUBSET K  BY DEF Before
<1>5. \A n : IsFiniteSet(Before(K, n))  BY <1>3, <1>4, FS_Subset
<1>6. Before(K, 0) = {}
  <2>1. \A m \in K : ~(m < 0)  BY <1>1
  <2> QED  BY <2>1 DEF Before
<1>7. Before(K, N + 1) = K
  <2>1. \A m \in K : m < N + 1  BY <1>1
  <2> QED  BY <2>1 DEF Before
<1>8. ASSUME NEW n \in Nat, n \notin K
      PROVE  Before(K, n + 1) = Before(K, n)
  <2>1. \A m \in K : m < n + 1 <=> m < n  BY <1>1, <1>8
  <2> QED  BY <2>1 DEF Before
<1> QED  BY <1>3, <1>4, <1>5, <1>6, <1>7, <1>8

LEMMA PrefixGrows ==
    ASSUME NEW f, NEW N, NEW K, NEW n, N \in Nat, K \in SUBSET (1 .. N), n \in K,
           \A m \in K : f[m] \in Int
    PROVE  SumFunctionOnSet(f, Before(K, n + 1)) = f[n] + SumFunctionOnSet(f, Before(K, n))
<1> DEFINE B == Before(K, n + 1)
           A == Before(K, n)
<1>1. n \in Nat /\ \A m \in K : m \in Nat  OBVIOUS
<1>2. IsFiniteSet(B) /\ B \ {n} = A /\ n \in B
  <2>1. IsFiniteSet(B)  BY Prefixes
  <2>2. \A m \in K : (m < n + 1 <=> m < n \/ m = n) /\ (m < n => m # n)  BY <1>1
  <2> QED  BY <2>1, <2>2 DEF Before
<1>3. \A m \in B : f[m] \in Int  BY DEF Before
<1> HIDE DEF A, B
<1>4. SumFunctionOnSet(f, B) = f[n] + SumFunctionOnSet(f, A)  BY ONLY <1>2, <1>3, SumExtends
<1> QED  BY <1>4 DEF A, B

\* Taken in turn, the keys before n have taken all that they owe, or the
\* whole fill: together never more than the lots bought.
LEMMA SharedOut ==
    ASSUME NEW N, NEW K, N \in Nat, K \in SUBSET (1 .. N), NEW k \in Nat,
           NEW owed, \A n \in K : owed[n] \in Nat,
           NEW take, \A n \in K : take[n] =
             Smaller(owed[n], Larger(k - SumFunctionOnSet(owed, Before(K, n)), 0))
    PROVE  /\ \A n \in K : take[n] \in 0 .. owed[n]
           /\ SumFunctionOnSet(take, K) <= k
<1> DEFINE P(n) == SumFunctionOnSet(owed, Before(K, n))
           T(n) == SumFunctionOnSet(take, Before(K, n))
<1>1. N \in Nat /\ K \in SUBSET (1 .. N)  OBVIOUS
<1>2. \A n : P(n) \in Nat
  <2> TAKE n
  <2>1. IsFiniteSet(Before(K, n)) /\ Before(K, n) \in SUBSET K  BY Prefixes
  <2>2. \A m \in Before(K, n) : owed[m] \in Nat  BY <2>1
  <2> QED  BY ONLY <2>1, <2>2, SumNat
<1>3. \A n \in K : take[n] = Smaller(owed[n], Larger(k - P(n), 0))  OBVIOUS
<1> HIDE DEF P
<1>4. \A n \in K : take[n] \in Nat /\ take[n] <= owed[n]
  <2> TAKE n \in K
  <2>1. owed[n] \in Nat /\ P(n) \in Nat  BY <1>2
  <2> QED  BY <1>3, <2>1 DEF Smaller, Larger
<1> DEFINE A == {n \in Nat : T(n) = Smaller(P(n), k)}
<1>6. 0 \in A
  <2>1. Before(K, 0) = {}  BY <1>1, Prefixes
  <2>2. T(0) = 0 /\ P(0) = 0  BY <2>1, SumEmpty DEF P
  <2> QED  BY <2>2 DEF Smaller
<1>7. ASSUME NEW n \in Nat, n \in A PROVE n + 1 \in A
  <2>1. T(n) = Smaller(P(n), k)  BY <1>7
  <2>2. CASE n \notin K
    <3>1. Before(K, n + 1) = Before(K, n)  BY <1>1, <2>2, Prefixes
    <3> QED  BY <2>1, <3>1 DEF P
  <2>3. CASE n \in K
    <3>1. \A m \in K : owed[m] \in Int  OBVIOUS
    <3>2. \A m \in K : take[m] \in Int  BY <1>4
    <3>3. P(n + 1) = owed[n] + P(n)  BY ONLY <1>1, <2>3, <3>1, PrefixGrows DEF P
    <3>4. T(n + 1) = take[n] + T(n)  BY ONLY <1>1, <2>3, <3>2, PrefixGrows
    <3>5. take[n] = Smaller(owed[n], Larger(k - P(n), 0)) /\ owed[n] \in Nat /\ P(n) \in Nat
      BY <1>2, <1>3, <2>3
    <3> HIDE DEF T
    <3>6. T(n + 1) = Smaller(P(n + 1), k)
      BY <2>1, <3>3, <3>4, <3>5 DEF Smaller, Larger
    <3> QED  BY <3>6
  <2> QED  BY <2>2, <2>3
<1>8. \A n \in Nat : n \in A
  <2> HIDE DEF A
  <2> QED  BY <1>6, <1>7, NaturalInduction
<1>9. Before(K, N + 1) = K  BY <1>1, Prefixes
<1>10. SumFunctionOnSet(take, K) = Smaller(P(N + 1), k)
  <2>1. N + 1 \in A  BY <1>8
  <2> QED  BY <1>9, <2>1
<1>11. P(N + 1) \in Nat  BY <1>2
<1> QED  BY <1>4, <1>10, <1>11 DEF Smaller

\* A key is covered by an order that buys, and by its own instrument's.
Covers ==
    \A i \in Instruments : pending[i] # NoOrder =>
      /\ pending[i] \in Order
      /\ pending[i].keys \subseteq KeysOf(i)
      /\ pending[i].keys # {} => pending[i].qty >= 0

\* What a position, an order and the books of a run are made of.
Books ==
    /\ Covers
    /\ remaining \in [Keys -> Nat]
    /\ kept \in [Instruments -> [Slots -> [qty : Int, basis : SUBSET Slots]]]
    /\ paid \in [Instruments -> [Slots -> Seq([qty : Int, basis : SUBSET Slots])]]

LEMMA NoticesFinite ==
    ASSUME world \in Worlds
    PROVE  /\ Len(world.recalls) \in Nat
           /\ IsFiniteSet(Notices)
           /\ \A n \in Notices : world.recalls[n].iid \in Instruments /\ world.recalls[n].qty \in Nat
           /\ \A i : NoticesOf(i) \in SUBSET Notices /\ IsFiniteSet(NoticesOf(i))
<1>1. world.recalls \in Seq(Recall)  BY BacktestAssumption DEF World
<1>2. Len(world.recalls) \in Nat  BY <1>1
<1>3. \A n \in Notices : world.recalls[n] \in Recall  BY <1>1, <1>2 DEF Notices
<1>4. IsFiniteSet(Notices)  BY <1>2, FS_Interval DEF Notices
<1>5. \A i : NoticesOf(i) \in SUBSET Notices  BY DEF NoticesOf
<1>6. \A n \in Notices : world.recalls[n].iid \in Instruments /\ world.recalls[n].qty \in Nat
  BY <1>3 DEF Recall
<1> QED  BY <1>2, <1>4, <1>5, <1>6, FS_Subset

\* The key of a notice is a notice of the same instrument and dates.
LEMMA KeyExists ==
    ASSUME world \in Worlds, NEW n \in Notices
    PROVE  KeyOf(n) \in Notices /\ Alike(KeyOf(n), n)
<1> DEFINE A == {m \in Notices : Alike(m, n)}
<1>1. A \in SUBSET Nat  BY NoticesFinite DEF Notices
<1>2. n \in A  BY DEF Alike
<1>3. PICK m \in A : \A l \in A : m <= l  BY <1>1, <1>2, LeastNatural
<1>4. m \in Notices /\ Alike(m, n) /\ \A l \in Notices : Alike(l, n) => m <= l  BY <1>3
<1> QED  BY <1>4 DEF KeyOf

LEMMA KeysFinite ==
    ASSUME world \in Worlds
    PROVE  /\ Keys \subseteq Notices
           /\ \A k \in Keys : k \in 1 .. Len(world.recalls) /\ world.recalls[k].iid \in Instruments
           /\ \A i : /\ KeysOf(i) \in SUBSET Keys
                     /\ IsFiniteSet(KeysOf(i))
                     /\ \A k \in KeysOf(i) : world.recalls[k].iid = i
           /\ \A i : \A n \in NoticesOf(i) : KeyOf(n) \in KeysOf(i)
<1>1. Keys \subseteq Notices  BY KeyExists DEF Keys
<1>2. \A k \in Keys : k \in 1 .. Len(world.recalls) /\ world.recalls[k].iid \in Instruments
  BY <1>1, NoticesFinite DEF Notices
<1>3. ASSUME NEW i
      PROVE  /\ KeysOf(i) \in SUBSET Keys
             /\ IsFiniteSet(KeysOf(i))
             /\ \A k \in KeysOf(i) : world.recalls[k].iid = i
  <2>1. KeysOf(i) \in SUBSET Keys /\ KeysOf(i) \in SUBSET NoticesOf(i)  BY DEF KeysOf
  <2>2. IsFiniteSet(KeysOf(i))  BY <2>1, NoticesFinite, FS_Subset
  <2> QED  BY <2>1, <2>2 DEF NoticesOf
<1>4. ASSUME NEW i, NEW n \in NoticesOf(i) PROVE KeyOf(n) \in KeysOf(i)
  <2>1. n \in Notices /\ world.recalls[n].iid = i  BY DEF NoticesOf
  <2>2. KeyOf(n) \in Notices /\ world.recalls[KeyOf(n)].iid = i
    BY <2>1, KeyExists DEF Alike
  <2> QED  BY <2>1, <2>2 DEF Keys, KeysOf, NoticesOf
<1> QED  BY <1>1, <1>2, <1>3, <1>4

LEMMA NoticesFrame ==
    ASSUME world' = world
    PROVE  /\ Notices' = Notices /\ Keys' = Keys
           /\ \A i : NoticesOf(i)' = NoticesOf(i) /\ KeysOf(i)' = KeysOf(i)
BY DEF Notices, NoticesOf, KeysOf, Keys, KeyOf, Alike

\* Lots on the grid, and back: a whole number of lots.
LEMMA LotsType ==
    ASSUME NEW q \in Int
    PROVE  /\ \E n \in Int : Lots(q) = n * Lot
           /\ Lots(q) \in Int
           /\ q >= 0 => Lots(q) >= 0
<1>1. Lot \in Nat \ {0}  BY BacktestAssumption
<1> DEFINE n == q \div Lot
<1>2. n \in Int /\ (q >= 0 => n >= 0)  BY <1>1, Quotients
<1>3. Lots(q) = n * Lot  BY DEF Lots
<1> HIDE DEF n
<1>4. n * Lot \in Int  BY <1>1, <1>2
<1>5. n >= 0 => n * Lot >= 0
  <2> SUFFICES ASSUME n >= 0 PROVE n * Lot >= 0
    OBVIOUS
  <2>1. n \in Nat  BY <1>2
  <2> QED  BY <1>1, <2>1, ProductNat
<1> QED  BY <1>2, <1>3, <1>4, <1>5

\* What the keys of a fill take of it.
LEMMA FillShared ==
    ASSUME Types, Books, NEW i \in Instruments, pending[i] # NoOrder, NEW k \in Nat
    PROVE  /\ \A n \in pending[i].keys : Allocated(n, k) \in 0 .. remaining[n]
           /\ SumFunctionOnSet([n \in pending[i].keys |-> Allocated(n, k)], pending[i].keys) <= k
<1> DEFINE K == pending[i].keys
           N == Len(world.recalls)
           take == [n \in K |-> Allocated(n, k)]
<1>1. K \in SUBSET (1 .. N) /\ N \in Nat /\ \A n \in K : world.recalls[n].iid = i
  <2>1. K \subseteq KeysOf(i)  BY DEF Books, Covers
  <2> QED  BY <2>1, KeysFinite, NoticesFinite DEF Types
<1>2. \A n \in K : remaining[n] \in Nat
  <2>1. K \subseteq Keys  BY KeysFinite DEF Books, Covers, Types
  <2> QED  BY <2>1 DEF Books
<1>3. ASSUME NEW n \in K
      PROVE  take[n] = Smaller(remaining[n],
               Larger(k - SumFunctionOnSet(remaining, Before(K, n)), 0))
  <2>1. Left(n, k) = Larger(k - SumFunctionOnSet(remaining, Before(K, n)), 0)
    BY <1>1 DEF Left, Before
  <2> QED  BY <2>1 DEF Allocated
<1> HIDE DEF K, N, take
<1>4. /\ \A n \in K : take[n] \in 0 .. remaining[n]
      /\ SumFunctionOnSet(take, K) <= k
  BY <1>1, <1>2, <1>3, SharedOut
<1>5. \A n \in K : take[n] = Allocated(n, k)  BY DEF take
<1> QED  BY <1>4, <1>5 DEF K, take

LEMMA BooksFrame ==
    ASSUME Books, world' = world, pending' = pending, remaining' = remaining, kept' = kept,
           paid' = paid
    PROVE  Books'
BY NoticesFrame DEF Books, Covers

LEMMA InitBooks == BacktestInit => Books
<1> SUFFICES ASSUME BacktestInit PROVE Books
  OBVIOUS
<1>1. world \in Worlds  BY DEF BacktestInit
<1>2. Covers  BY DEF BacktestInit, Covers
<1>3. remaining \in [Keys -> Nat]  BY <1>1, KeysFinite, NoticesFinite DEF BacktestInit
<1>4. kept \in [Instruments -> [Slots -> [qty : Int, basis : SUBSET Slots]]]
  BY DEF BacktestInit
<1>5. paid \in [Instruments -> [Slots -> Seq([qty : Int, basis : SUBSET Slots])]]
  BY DEF BacktestInit
<1> QED  BY <1>2, <1>3, <1>4, <1>5 DEF Books

LEMMA EndRunBooks == Books /\ EndRun => Books'
<1> SUFFICES ASSUME Books, EndRun PROVE Books'
  OBVIOUS
<1>1. /\ world' = world /\ remaining' = remaining /\ kept' = kept /\ paid' = paid
      /\ \A i \in Instruments : pending'[i] = NoOrder
  BY DEF EndRun
<1> QED  BY <1>1, NoticesFrame DEF Books, Covers

LEMMA ActionsBooks == BacktestInv /\ Books /\ CorporateActions => Books'
<1> SUFFICES ASSUME BacktestInv, Books, CorporateActions PROVE Books'
  OBVIOUS
<1>1. Types /\ Clock  BY DEF BacktestInv
<1>2. step = "actions" /\ world' = world /\ remaining' = remaining /\ kept' = kept
  BY DEF CorporateActions
<1>3. \A i \in Instruments : /\ Reached(i) \in Slots
                             /\ \A e \in DueDividends(i) : e \in Slots
  <2> TAKE i \in Instruments
  <2>1. Reached(i) \in Slots  BY <1>1, <1>2, ReachedBetween
  <2>2. world.dividends[i] \in SUBSET Slots  BY <1>1, BacktestAssumption DEF Types, World
  <2> QED  BY <2>1, <2>2 DEF DueDividends
<1>4. \A i \in Instruments : \A s : NewSplits(i, s) \in SUBSET Slots
  BY DEF NewSplits, DueSplits, Splits
<1>5. Covers'
  <2> SUFFICES ASSUME NEW i \in Instruments, pending'[i] # NoOrder
               PROVE  /\ pending'[i] \in Order
                      /\ pending'[i].keys \subseteq KeysOf(i)
                      /\ pending'[i].keys # {} => pending'[i].qty >= 0
    BY <1>2, NoticesFrame DEF Covers
  <2>1. pending'[i] = ConvertedOrder(i)  BY DEF CorporateActions
  <2>2. pending[i] # NoOrder  BY <2>1 DEF ConvertedOrder
  <2> DEFINE o == pending[i]
             c == Converted(i, pending[i].qty, Reached(i))
             b == NewSplits(i, Reached(i))
  <2>3. o \in Order /\ o.keys \subseteq KeysOf(i) /\ (o.keys # {} => o.qty >= 0)
    BY <2>2 DEF Books, Covers
  <2>4. b \in SUBSET Slots  BY <1>4
  <2>5. pending'[i] = [o EXCEPT !.qty = c, !.basis = @ \cup b]
    BY <2>1, <2>2 DEF ConvertedOrder
  <2>8. o.qty \in Int => c \in Int /\ (o.qty >= 0 => c >= 0)  BY <1>1, <1>3, ConvertedType
  <2> HIDE DEF o, c, b
  <2>6. o.qty \in Int /\ o.reduce \in BOOLEAN /\ o.basis \in SUBSET Slots /\ o.keys \in SUBSET Nat
    BY <2>3 DEF Order
  <2>7. pending'[i] = [qty |-> c, reduce |-> o.reduce, basis |-> o.basis \cup b,
                       keys |-> o.keys]
    BY <2>3, <2>5 DEF Order
  <2>10. pending'[i] \in Order  BY <2>4, <2>6, <2>7, <2>8 DEF Order
  <2> QED  BY <2>3, <2>6, <2>7, <2>8, <2>10
<1>6. paid' \in [Instruments -> [Slots -> Seq([qty : Int, basis : SUBSET Slots])]]
  <2> DEFINE R == [qty : Int, basis : SUBSET Slots]
  <2>1. ASSUME NEW i \in Instruments, NEW e \in Slots
        PROVE  /\ paid[i][e] \in Seq(R)
               /\ Append(paid[i][e], Entitled(i, e)) \in Seq(R)
    <3>1. paid[i][e] \in Seq(R)  BY DEF Books
    <3>2. Converted(i, qty[i], e) \in Int
      <4>1. qty[i] \in Int  BY <1>1 DEF Types
      <4> QED  BY <1>1, <4>1, ConvertedType
    <3>3. basis[i] \cup NewSplits(i, e) \in SUBSET Slots  BY <1>1, <1>4 DEF Types
    <3>4. Entitled(i, e) \in R  BY <3>2, <3>3 DEF Entitled
    <3> HIDE DEF R
    <3> QED  BY <3>1, <3>4
  <2>2. paid' = [i \in Instruments |-> [e \in Slots |->
                  IF e \in DueDividends(i) /\ qty[i] # 0
                    THEN Append(paid[i][e], Entitled(i, e)) ELSE paid[i][e]]]
    BY DEF CorporateActions
  <2> HIDE DEF R
  <2>3. paid' \in [Instruments -> [Slots -> Seq(R)]]  BY <2>1, <2>2
  <2> QED  BY <2>3 DEF R
<1> QED  BY <1>2, <1>5, <1>6, NoticesFrame DEF Books

\* A fill trades no more than the order, all of it or whole lots.
LEMMA TradableNat ==
    ASSUME Books, NEW i \in Instruments, NEW k \in Tradable(i)
    PROVE  /\ k \in Nat
           /\ pending[i] = NoOrder => k = 0
           /\ pending[i] # NoOrder => k <= Abs(pending[i].qty) \/ k = 0
           /\ k = 0 \/ k = Abs(pending[i].qty) \/ k % Lot = 0
<1>1. CASE pending[i] = NoOrder  BY <1>1 DEF Tradable
<1>2. CASE pending[i] # NoOrder
  <2>1. pending[i].qty \in Int  BY <1>2 DEF Books, Covers, Order
  <2> DEFINE a == Abs(pending[i].qty)
  <2>2. k \in {0} \/ k \in {n \in 0 .. a : n = a \/ n % Lot = 0}
    BY <1>2, Zenon DEF Tradable
  <2>3. Abs(pending[i].qty) \in Int  BY <2>1 DEF Abs
  <2> HIDE DEF a
  <2>4. k \in {0} \/ (k \in 0 .. a /\ (k = a \/ k % Lot = 0))  BY <2>2
  <2>5. a \in Int  BY <2>3 DEF a
  <2>6. k \in Nat /\ (k <= a \/ k = 0) /\ (k = 0 \/ k = a \/ k % Lot = 0)  BY <2>4, <2>5
  <2> QED  BY <1>2, <2>6 DEF a
<1> QED  BY <1>1, <1>2

\* No key is asked for more than it recalls.
LEMMA FillsBooks == BacktestInv /\ Books /\ FillOrders => Books'
<1> SUFFICES ASSUME BacktestInv, Books, FillOrders PROVE Books'
  OBVIOUS
<1>1. Types  BY DEF BacktestInv
<1>2. /\ world' = world /\ kept' = kept /\ paid' = paid
      /\ \A i \in Instruments : pending'[i] = NoOrder
  BY DEF FillOrders
<1>3. Covers'  BY <1>2 DEF Covers
<1>4. remaining' \in [Keys -> Nat]
  <2>1. PICK take : /\ \A i \in Instruments : take[i] \in Tradable(i)
                    /\ remaining' = [n \in Keys |->
                         LET i == world.recalls[n].iid
                         IN  IF pending[i] # NoOrder /\ n \in pending[i].keys
                               THEN remaining[n] - Allocated(n, take[i]) ELSE remaining[n]]
    BY DEF FillOrders
  <2>2. ASSUME NEW n \in Keys PROVE remaining'[n] \in Nat
    <3> DEFINE i == world.recalls[n].iid
    <3>1. i \in Instruments  BY <1>1, KeysFinite DEF Types
    <3>2. remaining[n] \in Nat  BY DEF Books
    <3>3. remaining'[n] = IF pending[i] # NoOrder /\ n \in pending[i].keys
                            THEN remaining[n] - Allocated(n, take[i]) ELSE remaining[n]
      BY <2>1
    <3> HIDE DEF i
    <3>4. CASE pending[i] # NoOrder /\ n \in pending[i].keys
      <4>1. take[i] \in Nat  BY <2>1, <3>1, <3>4, TradableNat
      <4>2. Allocated(n, take[i]) \in 0 .. remaining[n]  BY <1>1, <3>1, <3>4, <4>1, FillShared
      <4> QED  BY <3>2, <3>3, <3>4, <4>2
    <3>5. CASE ~(pending[i] # NoOrder /\ n \in pending[i].keys)
      BY <3>2, <3>3, <3>5
    <3> QED  BY <3>4, <3>5
  <2> QED  BY <2>1, <2>2
<1> QED  BY <1>2, <1>3, <1>4, NoticesFrame DEF Books

LEMMA MarksBooks == BacktestInv /\ Books /\ MarkBook => Books'
<1> SUFFICES ASSUME BacktestInv, Books, MarkBook PROVE Books'
  OBVIOUS
<1>1. Types  BY DEF BacktestInv
<1>2. world' = world /\ paid' = paid /\ pending' = pending /\ remaining' = remaining
  BY DEF MarkBook
<1> DEFINE R == [qty : Int, basis : SUBSET Slots]
<1>3. kept' \in [Instruments -> [Slots -> R]]
  <2>1. ASSUME NEW i \in Instruments, NEW c \in Slots
        PROVE  /\ kept[i][c] \in R
               /\ [qty |-> IF Ended(i) THEN 0 ELSE qty[i], basis |-> basis[i]] \in R
    BY <1>1 DEF Types, Books
  <2>2. kept' = [i \in Instruments |-> [c \in Slots |->
                  IF c < now THEN kept[i][c]
                  ELSE [qty |-> IF Ended(i) THEN 0 ELSE qty[i], basis |-> basis[i]]]]
    BY DEF MarkBook
  <2> HIDE DEF R
  <2> QED  BY <2>1, <2>2
<1>4. Covers'  BY <1>2, NoticesFrame DEF Books, Covers
<1> QED  BY <1>2, <1>3, <1>4, NoticesFrame DEF Books

\* The strategy asks for whole lots.
LEMMA ChangesInLots ==
    ASSUME world \in Worlds, NEW i \in Instruments, qty[i] \in Int, NEW d \in Changes(i)
    PROVE  d \in Int /\ \E n \in Int : d = n * Lot
<1>1. Lot \in Nat \ {0} /\ Deltas[i] \subseteq Int  BY BacktestAssumption
<1>2. d = 0 \/ d = Flatten(i) \/ \E n \in Deltas[i] : d = n * Lot  BY DEF Changes
<1>3. CASE d = 0
  <2>1. 0 \in Int /\ 0 = 0 * Lot  BY <1>1
  <2> QED  BY <1>3, <2>1
<1>4. CASE d = Flatten(i)
  <2>1. CASE qty[i] < 0
    <3>1. d = Lots(-qty[i])  BY <1>4, <2>1 DEF Flatten
    <3> QED  BY <3>1, LotsType
  <2>2. CASE ~(qty[i] < 0)
    <3>1. d = -Lots(qty[i])  BY <1>4, <2>2 DEF Flatten
    <3>2. PICK n \in Int : Lots(qty[i]) = n * Lot  BY LotsType
    <3>3. -n \in Int /\ -(n * Lot) = (-n) * Lot /\ -(n * Lot) \in Int  BY <1>1, <3>2
    <3> QED  BY <3>1, <3>2, <3>3
  <2> QED  BY <2>1, <2>2
<1>5. CASE \E n \in Deltas[i] : d = n * Lot
  <2>1. PICK n \in Deltas[i] : d = n * Lot  BY <1>5
  <2>2. n \in Int /\ n * Lot \in Int  BY <1>1, <2>1
  <2> QED  BY <2>1, <2>2
<1> QED  BY <1>2, <1>3, <1>4, <1>5

LEMMA DecideBooks == BacktestInv /\ Books /\ Decide => Books'
<1> SUFFICES ASSUME BacktestInv, Books, Decide PROVE Books'
  OBVIOUS
<1>1. Types  BY DEF BacktestInv
<1>2. world' = world /\ paid' = paid /\ kept' = kept /\ remaining' = remaining
  BY DEF Decide
<1>3. PICK d : /\ \A i \in Instruments : d[i] \in Changes(i)
               /\ \A i \in Instruments : pending'[i] = Target(i, d[i])
  BY DEF Decide
<1>4. Covers'
  <2> SUFFICES ASSUME NEW i \in Instruments, pending'[i] # NoOrder
               PROVE  pending'[i] \in Order /\ pending'[i].keys = {}
    BY <1>2, NoticesFrame DEF Covers
  <2>1. pending'[i] = [qty |-> d[i], reduce |-> qty[i] # 0 /\ (d[i] > 0) # (qty[i] > 0),
                       basis |-> Splits(i, now - 1), keys |-> {}]
    BY <1>3 DEF Target
  <2>3. d[i] \in Int  BY <1>1, <1>3, ChangesInLots DEF Types
  <2>4. Splits(i, now - 1) \in SUBSET Slots  BY DEF Splits
  <2>5. (qty[i] # 0 /\ (d[i] > 0) # (qty[i] > 0)) \in BOOLEAN  OBVIOUS
  <2> QED  BY <2>1, <2>3, <2>4, <2>5 DEF Order
<1> QED  BY <1>2, <1>4, NoticesFrame DEF Books

\* A recall order buys: what is recalled, or more.
LEMMA CoverBuys ==
    ASSUME Types, Books, NEW i \in Instruments, pending[i] # NoOrder => pending[i].qty \in Int
    PROVE  CoverQty(i) \in Nat /\ \E n \in Int : CoverQty(i) = n * Lot
<1> DEFINE K == OpenRecalls(i)
           f == [n \in Notices |-> remaining[KeyOf(n)]]
           owed == Recalled(i)
           most == IF pending[i] = NoOrder THEN 0 ELSE pending[i].qty
           m == Larger(Smaller(owed, Short(qty[i])), most)
<1>1. K \subseteq NoticesOf(i)  BY DEF OpenRecalls
<1>2. NoticesOf(i) \subseteq Notices /\ IsFiniteSet(NoticesOf(i))  BY NoticesFinite DEF Types
<1>3. IsFiniteSet(K)  BY <1>1, <1>2, FS_Subset
<1>4. \A n \in K : f[n] \in Nat
  <2> TAKE n \in K
  <2>1. n \in NoticesOf(i) /\ n \in Notices  BY <1>1, <1>2
  <2>2. KeyOf(n) \in Keys  BY <2>1, KeysFinite DEF Types
  <2> QED  BY <2>1, <2>2 DEF Books
<1>5. owed = SumFunctionOnSet(f, K)  BY DEF Recalled
<1>6. owed \in Nat
  <2> HIDE DEF K, f, owed
  <2> QED  BY ONLY <1>3, <1>4, <1>5, SumNat
<1>7. Short(qty[i]) \in Nat
  <2>1. qty[i] \in Int  BY DEF Types
  <2> QED  BY <2>1 DEF Short, Larger
<1>8. most \in Int  OBVIOUS
<1>9. CoverQty(i) = Lots(m)  BY DEF CoverQty
<1> HIDE DEF owed, most
<1>10. Smaller(owed, Short(qty[i])) \in Nat  BY <1>6, <1>7 DEF Smaller
<1>11. m \in Nat  BY <1>8, <1>10 DEF Larger
<1> HIDE DEF m
<1>12. Lots(m) \in Int /\ Lots(m) >= 0 /\ \E n \in Int : Lots(m) = n * Lot
  BY <1>11, LotsType
<1> QED  BY <1>9, <1>12

LEMMA RecallsBooks == BacktestInv /\ Books /\ QueueRecalls => Books'
<1> SUFFICES ASSUME BacktestInv, Books, QueueRecalls PROVE Books'
  OBVIOUS
<1>1. Types  BY DEF BacktestInv
<1>2. world' = world /\ paid' = paid /\ kept' = kept
  BY DEF QueueRecalls
<1>3. remaining' \in [Keys -> Nat]
  <2>1. remaining' = [n \in Keys |-> IF Lapses(n) THEN 0 ELSE remaining[n]]
    BY DEF QueueRecalls
  <2> QED  BY <2>1 DEF Books
<1>4. Covers'
  <2> SUFFICES ASSUME NEW i \in Instruments, pending'[i] # NoOrder
               PROVE  /\ pending'[i] \in Order
                      /\ pending'[i].keys \subseteq KeysOf(i)
                      /\ pending'[i].keys # {} => pending'[i].qty >= 0
    BY <1>2, NoticesFrame DEF Covers
  <2> DEFINE covers == OpenRecalls(i) # {} /\ Short(qty[i]) > 0 /\ CoverQty(i) > 0
             q == CoverQty(i)
             keys == {KeyOf(n) : n \in OpenRecalls(i)}
  <2>1. pending'[i] = IF covers THEN Cover(i) ELSE pending[i]
    BY DEF QueueRecalls
  <2>2. CASE covers
    <3>1. pending[i] # NoOrder => pending[i].qty \in Int  BY DEF Books, Covers, Order
    <3>2. q \in Nat  BY <1>1, <3>1, CoverBuys
    <3>3. OpenRecalls(i) \subseteq NoticesOf(i)  BY DEF OpenRecalls
    <3>4. keys \subseteq KeysOf(i)  BY <1>1, <3>3, KeysFinite DEF Types
    <3>5. keys \in SUBSET Nat
      <4>1. KeysOf(i) \in SUBSET Keys /\ \A k \in Keys : k \in Nat
        BY <1>1, KeysFinite, NoticesFinite DEF Types
      <4> QED  BY <3>4, <4>1
    <3>6. basis[i] \in SUBSET Slots  BY <1>1 DEF Types
    <3>7. pending'[i] = [qty |-> q, reduce |-> TRUE, basis |-> basis[i], keys |-> keys]
      BY <2>1, <2>2 DEF Cover
    <3> HIDE DEF q, keys
    <3>8. pending'[i] \in Order  BY <3>2, <3>5, <3>6, <3>7 DEF Order
    <3> QED  BY <3>2, <3>4, <3>7, <3>8
  <2>3. CASE ~covers
    BY <2>1, <2>3 DEF Books, Covers
  <2> QED  BY <2>2, <2>3
<1> QED  BY <1>2, <1>3, <1>4, NoticesFrame DEF Books

LEMMA BooksKept == BacktestInv /\ Books /\ [BacktestNext]_btVars => Books'
<1> SUFFICES ASSUME BacktestInv, Books, [BacktestNext]_btVars PROVE Books'
  OBVIOUS
<1>1. CASE NextBar  BY <1>1, BooksFrame DEF NextBar
<1>2. CASE Halt  BY <1>2, BooksFrame DEF Halt
<1>3. CASE EndRun  BY <1>3, EndRunBooks
<1>4. CASE CorporateActions  BY <1>4, ActionsBooks
<1>5. CASE FillOrders  BY <1>5, FillsBooks
<1>6. CASE SettleFunding  BY <1>6, BooksFrame DEF SettleFunding
<1>7. CASE MarkBook  BY <1>7, MarksBooks
<1>8. CASE Decide  BY <1>8, DecideBooks
<1>9. CASE QueueRecalls  BY <1>9, RecallsBooks
<1>10. CASE UNCHANGED btVars  BY <1>10, BooksFrame DEF btVars
<1>11. MissingQuote \/ RefuseActions \/ RefuseFill \/ RefuseExit => Halt
  BY DEF MissingQuote, RefuseActions, RefuseFill, RefuseExit
<1> QED  BY <1>1, <1>2, <1>3, <1>4, <1>5, <1>6, <1>7, <1>8, <1>9, <1>10, <1>11
         DEF BacktestNext

LEMMA BooksInvariant == BacktestSpec => []Books
<1>1. BacktestInit => Books  BY InitBooks
<1>2. BacktestInv /\ Books /\ [BacktestNext]_btVars => Books'  BY BooksKept
<1> QED  BY <1>1, <1>2, BacktestInvariant, PTL DEF BacktestSpec

\* Every variable keeps its type, whatever the market data.
THEOREM BacktestTypeCorrect == BacktestSpec => []BacktestTypeOK
<1>1. BacktestInv /\ Books => BacktestTypeOK
  <2> SUFFICES ASSUME BacktestInv, Books PROVE BacktestTypeOK
    OBVIOUS
  <2>1. Types  BY DEF BacktestInv
  <2>2. \A i \in Instruments : pending[i] \in Order \cup {NoOrder}  BY DEF Books, Covers
  <2>3. pending = [i \in Instruments |-> pending[i]]  BY <2>1 DEF Types
  <2>4. pending \in [Instruments -> Order \cup {NoOrder}]  BY <2>2, <2>3
  <2> QED  BY <2>1, <2>4 DEF Types, Books, BacktestTypeOK
<1> QED  BY <1>1, BacktestInvariant, BooksInvariant, PTL

-----------------------------------------------------------------------------
(* The recalls: a key is covered by purchases only.                        *)

\* Keys that nothing touches owe what they owed.
LEMMA OwedUntouched ==
    ASSUME Types, NEW i \in Instruments, \A n \in KeysOf(i) : remaining'[n] = remaining[n]
    PROVE  SumFunctionOnSet(remaining', KeysOf(i)) = SumFunctionOnSet(remaining, KeysOf(i))
<1>1. IsFiniteSet(KeysOf(i))  BY KeysFinite DEF Types
<1> QED  BY <1>1, SumEqual

\* A fill takes off the keys of its order no more than it buys.
LEMMA FillCovers ==
    ASSUME Types, Books, NEW i \in Instruments, NEW k \in Nat, pending[i] # NoOrder,
           \A n \in KeysOf(i) : remaining'[n] =
             IF n \in pending[i].keys THEN remaining[n] - Allocated(n, k) ELSE remaining[n]
    PROVE  LET owed == SumFunctionOnSet(remaining, KeysOf(i))
               left == SumFunctionOnSet(remaining', KeysOf(i))
           IN  /\ owed \in Int /\ left \in Int
               /\ owed - left <= k
               /\ pending[i].keys = {} => owed = left
<1> DEFINE S == KeysOf(i)
           K == pending[i].keys
           take == [n \in K |-> Allocated(n, k)]
           off == [n \in S |-> IF n \in K THEN Allocated(n, k) ELSE 0]
<1>1. IsFiniteSet(S) /\ S \in SUBSET Keys  BY KeysFinite DEF Types
<1>2. K \in SUBSET S  BY DEF Books, Covers
<1>3. IsFiniteSet(K)  BY <1>1, <1>2, FS_Subset
<1>4. \A n \in S : remaining[n] \in Nat  BY <1>1 DEF Books
<1>5. /\ \A n \in K : Allocated(n, k) \in 0 .. remaining[n]
      /\ SumFunctionOnSet(take, K) <= k
  BY FillShared
<1>6. \A n \in K : off[n] = take[n]  BY <1>2
<1>7. \A n \in S \ K : off[n] = 0  OBVIOUS
<1>8. \A n \in S : off[n] \in Int
  <2>1. \A n \in K : Allocated(n, k) \in Int  BY <1>2, <1>4, <1>5
  <2> QED  BY <2>1
<1>9. \A n \in S : remaining'[n] \in Int /\ remaining[n] = remaining'[n] + off[n]
  <2> TAKE n \in S
  <2>1. CASE n \in K
    <3>1. remaining'[n] = remaining[n] - Allocated(n, k) /\ off[n] = Allocated(n, k)  BY <2>1
    <3> QED  BY <1>4, <1>8, <3>1
  <2>2. CASE n \notin K
    <3>1. remaining'[n] = remaining[n] /\ off[n] = 0  BY <2>2
    <3> QED  BY <1>4, <3>1
  <2> QED  BY <2>1, <2>2
<1> DEFINE f == remaining
           g == remaining'
           all == SumFunctionOnSet(off, S)
<1>10. \A n \in S : g[n] \in Int /\ off[n] \in Int /\ f[n] = g[n] + off[n]  BY <1>8, <1>9
<1>11. (\A n \in S : f[n] \in Int) /\ (\A n \in S : g[n] \in Int)  BY <1>4, <1>9
<1> HIDE DEF S, K, take, off, f, g
<1>12. SumFunctionOnSet(f, S) = SumFunctionOnSet(g, S) + all  BY ONLY <1>1, <1>10, SumPlus
<1>13. SumFunctionOnSet(f, S) \in Int  BY ONLY <1>1, <1>11, SumInt
<1>14. SumFunctionOnSet(g, S) \in Int  BY ONLY <1>1, <1>11, SumInt
<1>15. all \in Int  BY ONLY <1>1, <1>8, SumInt
<1>16. SumFunctionOnSet(off, K) = all  BY ONLY <1>1, <1>2, <1>7, <1>8, SumSupport
<1>17. SumFunctionOnSet(off, K) = SumFunctionOnSet(take, K)  BY ONLY <1>3, <1>6, SumEqual
<1>18. K = {} => all = 0  BY ONLY <1>16, SumEmpty
<1> HIDE DEF all
<1>19. SumFunctionOnSet(f, S) - SumFunctionOnSet(g, S) <= k
  BY <1>5, <1>12, <1>13, <1>14, <1>15, <1>16, <1>17
<1>20. K = {} => SumFunctionOnSet(f, S) = SumFunctionOnSet(g, S)
  BY <1>12, <1>14, <1>18
<1> QED  BY <1>13, <1>14, <1>19, <1>20 DEF S, K, f, g

LEMMA FillsShrink ==
    ASSUME BacktestInv, Books, FillOrders, NEW i \in Instruments
    PROVE  LET owed == SumFunctionOnSet(remaining, KeysOf(i))
               left == SumFunctionOnSet(remaining', KeysOf(i))
           IN  left < owed => owed - left <= qty'[i] - qty[i]
<1>1. Types  BY DEF BacktestInv
<1>2. PICK take : /\ \A j \in Instruments : take[j] \in Tradable(j)
                  /\ \A j \in Instruments : qty'[j] = qty[j] + Signed(j, take[j])
                  /\ remaining' = [n \in Keys |->
                       LET j == world.recalls[n].iid
                       IN  IF pending[j] # NoOrder /\ n \in pending[j].keys
                             THEN remaining[n] - Allocated(n, take[j]) ELSE remaining[n]]
  BY DEF FillOrders
<1> DEFINE k == take[i]
           owed == SumFunctionOnSet(remaining, KeysOf(i))
           left == SumFunctionOnSet(remaining', KeysOf(i))
<1>3. k \in Nat /\ qty'[i] = qty[i] + Signed(i, k) /\ qty[i] \in Int
  BY <1>1, <1>2, TradableNat DEF Types
<1>4. \A n \in KeysOf(i) : n \in Keys /\ world.recalls[n].iid = i
  BY <1>1, KeysFinite DEF Types
<1>5. \A n \in KeysOf(i) : remaining'[n] =
        IF pending[i] # NoOrder /\ n \in pending[i].keys
          THEN remaining[n] - Allocated(n, k) ELSE remaining[n]
  BY <1>2, <1>4
<1> HIDE DEF k
<1>6. CASE pending[i] = NoOrder
  <2>1. left = owed  BY <1>1, <1>5, <1>6, OwedUntouched
  <2>2. owed \in Int
    <3>1. IsFiniteSet(KeysOf(i)) /\ KeysOf(i) \in SUBSET Keys
      BY <1>1, KeysFinite DEF Types
    <3>2. \A n \in KeysOf(i) : remaining[n] \in Int  BY <3>1 DEF Books
    <3> QED  BY <3>1, <3>2, SumInt
  <2> HIDE DEF left, owed
  <2> QED  BY <2>1, <2>2 DEF left, owed
<1>7. CASE pending[i] # NoOrder
  <2>1. \A n \in KeysOf(i) : remaining'[n] =
          IF n \in pending[i].keys THEN remaining[n] - Allocated(n, k) ELSE remaining[n]
    BY <1>5, <1>7
  <2>2. owed \in Int /\ left \in Int /\ owed - left <= k /\ (pending[i].keys = {} => owed = left)
    BY <1>1, <1>3, <1>7, <2>1, FillCovers
  <2>3. pending[i].keys # {} => pending[i].qty >= 0 /\ pending[i].qty \in Int
    BY <1>7 DEF Books, Covers, Order
  <2>4. pending[i].keys # {} => Signed(i, k) = k
    <3>1. \A q \in Int : q >= 0 => ~(q < 0)  OBVIOUS
    <3> QED  BY <2>3, <3>1 DEF Signed
  <2> HIDE DEF left, owed
  <2> QED  BY <1>3, <2>2, <2>4 DEF left, owed
<1> QED  BY <1>6, <1>7

LEMMA RecallsLapse ==
    ASSUME BacktestInv, QueueRecalls, NEW i \in Instruments, Short(qty[i]) # 0
    PROVE  SumFunctionOnSet(remaining', KeysOf(i)) = SumFunctionOnSet(remaining, KeysOf(i))
<1>1. Types  BY DEF BacktestInv
<1>2. \A n \in KeysOf(i) : n \in Keys /\ world.recalls[n].iid = i
  BY <1>1, KeysFinite DEF Types
<1>3. \A n \in KeysOf(i) : ~Lapses(n)  BY <1>2 DEF Lapses
<1>4. \A n \in KeysOf(i) : remaining'[n] = remaining[n]  BY <1>2, <1>3 DEF QueueRecalls
<1> QED  BY <1>1, <1>4, OwedUntouched

LEMMA StepsShrink ==
    ASSUME BacktestInv, Books, [BacktestNext]_btVars, NEW i \in Instruments
    PROVE  ShrinksByPurchases(i)
<1> DEFINE owed == SumFunctionOnSet(remaining, KeysOf(i))
           left == SumFunctionOnSet(remaining', KeysOf(i))
<1>2. SUFFICES left < owed => Short(qty[i]) = 0 \/ owed - left <= qty'[i] - qty[i]
  BY DEF ShrinksByPurchases
<1>3. Types  BY DEF BacktestInv
<1>4. owed \in Int
  <2>1. IsFiniteSet(KeysOf(i)) /\ KeysOf(i) \in SUBSET Keys
    BY <1>3, KeysFinite DEF Types
  <2>2. \A n \in KeysOf(i) : remaining[n] \in Int  BY <2>1 DEF Books
  <2> QED  BY <2>1, <2>2, SumInt
<1>5. CASE FillOrders
  <2>1. left < owed => owed - left <= qty'[i] - qty[i]  BY <1>5, FillsShrink
  <2> QED  BY <2>1
<1>6. CASE QueueRecalls
  <2>1. Short(qty[i]) # 0 => left = owed  BY <1>6, RecallsLapse
  <2> HIDE DEF left, owed
  <2>2. left = owed => ~(left < owed)  BY <1>4
  <2> QED  BY <2>1, <2>2
<1>7. CASE remaining' = remaining
  <2>1. left = owed  BY <1>7
  <2> HIDE DEF left, owed
  <2> QED  BY <1>4, <2>1
<1>8. ~FillOrders /\ ~QueueRecalls => remaining' = remaining
  BY DEF BacktestNext, NextBar, MissingQuote, EndRun, RefuseActions, CorporateActions,
         RefuseFill, SettleFunding, RefuseExit, MarkBook, Decide, Halt, btVars
<1> QED  BY <1>5, <1>6, <1>7, <1>8

\* What is recorded as recalled under the keys of an instrument is taken off by
\* purchases, one lot for one lot.
THEOREM RecallsAreCovered == BacktestSpec => ObligationsShrinkByPurchases
<1>1. BacktestInv /\ Books /\ [BacktestNext]_btVars =>
        [\A i \in Instruments : ShrinksByPurchases(i)]_btVars
  BY StepsShrink
<1> QED  BY <1>1, BacktestInvariant, BooksInvariant, PTL
         DEF BacktestSpec, ObligationsShrinkByPurchases

-----------------------------------------------------------------------------
(* Quantities convert exactly: what is held and ordered is made of lots.   *)

LEMMA ExactDivision ==
    ASSUME NEW m \in Int, NEW u \in Int, u > 0, m % u = 0
    PROVE  (m \div u) * u = m
OBVIOUS

LEMMA MultipleDivides ==
    ASSUME NEW q \in Int, NEW u \in Nat \ {0}
    PROVE  (q * u) \div u = q
<1> DEFINE d == (q * u) \div u
<1>1. d \in Int /\ 0 <= q * u - d * u /\ q * u - d * u < u  OBVIOUS
<1> HIDE DEF d
<1>2. q * u - d * u = (q - d) * u  BY <1>1
<1>3. q - d < 1
  <2>1. q - d >= 1 => (q - d) * u >= u  BY <1>1
  <2> QED  BY <1>1, <1>2, <2>1
<1>4. q - d >= 0
  <2>1. q - d <= -1 => (q - d) * u < 0  BY <1>1
  <2> QED  BY <1>1, <1>2, <2>1
<1>5. d = q  BY <1>1, <1>3, <1>4
<1> QED  BY <1>5 DEF d

\* The q grains of a slot are a whole number of grains of every later one.
Fits(i, q, s) ==
    \A t \in Slots : s <= t => \E k \in Int : q * world.units[i][t] = k * world.units[i][s]

\* What is held and what is ordered.
Exact ==
    \A i \in Instruments :
      /\ Fits(i, qty[i], applied[i])
      /\ pending[i] # NoOrder => Fits(i, pending[i].qty, applied[i])

LEMMA UnitsNat ==
    ASSUME world \in Worlds, NEW i \in Instruments, NEW s \in Slots
    PROVE  world.units[i][s] \in Nat \ {0}
BY BacktestAssumption DEF World

LEMMA FitsLots ==
    ASSUME world \in Worlds, NEW i \in Instruments, NEW s \in Slots, NEW n \in Int
    PROVE  Fits(i, n * Lot, s)
<1> SUFFICES ASSUME NEW t \in Slots, s <= t
             PROVE  \E k \in Int : (n * Lot) * world.units[i][t] = k * world.units[i][s]
  BY DEF Fits
<1> DEFINE v == world.units[i][t]
           u == world.units[i][s]
           k == (Lot * v) \div u
<1>1. v \in Nat \ {0} /\ u \in Nat \ {0} /\ Lot \in Nat \ {0}  BY UnitsNat, BacktestAssumption
<1>2. (Lot * v) % u = 0  BY FineGrain
<1> HIDE DEF v, u
<1>3. Lot * v \in Int  BY <1>1
<1>4. k * u = Lot * v
  <2> DEFINE m == Lot * v
  <2>1. m \in Int /\ u \in Int /\ u > 0 /\ m % u = 0  BY <1>1, <1>2, <1>3
  <2> HIDE DEF m
  <2>2. (m \div u) * u = m  BY ONLY <2>1, ExactDivision
  <2> QED  BY <2>2 DEF m
<1>5. k \in Int  BY <1>1, <1>3, Quotients
<1> HIDE DEF k
<1>6. (n * Lot) * v = n * (Lot * v)  BY <1>1
<1>7. n * (k * u) = (n * k) * u /\ n * k \in Int  BY <1>1, <1>5
<1> QED  BY <1>4, <1>6, <1>7 DEF v, u

LEMMA FitsSum ==
    ASSUME world \in Worlds, NEW i \in Instruments, NEW s \in Slots,
           NEW p \in Int, NEW q \in Int, Fits(i, p, s), Fits(i, q, s)
    PROVE  Fits(i, p + q, s)
<1> SUFFICES ASSUME NEW t \in Slots, s <= t
             PROVE  \E k \in Int : (p + q) * world.units[i][t] = k * world.units[i][s]
  BY DEF Fits
<1> DEFINE v == world.units[i][t]
           u == world.units[i][s]
<1>1. v \in Nat \ {0} /\ u \in Nat \ {0}  BY UnitsNat
<1>2. PICK j \in Int : p * v = j * u  BY DEF Fits
<1>3. PICK l \in Int : q * v = l * u  BY DEF Fits
<1> HIDE DEF v, u
<1>4. (p + q) * v = p * v + q * v /\ j * u + l * u = (j + l) * u /\ j + l \in Int  BY <1>1
<1>5. (p + q) * v = (j + l) * u  BY <1>2, <1>3, <1>4
<1> QED  BY <1>4, <1>5 DEF v, u

\* A conversion loses nothing, and what it leaves converts exactly again.
LEMMA ConvertsExactly ==
    ASSUME Types, NEW i \in Instruments, NEW s \in Slots, applied[i] <= s,
           NEW q \in Int, Fits(i, q, applied[i])
    PROVE  /\ Converted(i, q, s) * world.units[i][applied[i]] = q * world.units[i][s]
           /\ Fits(i, Converted(i, q, s), s)
<1> DEFINE u == world.units[i][applied[i]]
           v == world.units[i][s]
           c == Converted(i, q, s)
<1>1. u \in Nat \ {0} /\ v \in Nat \ {0}  BY UnitsNat DEF Types
<1>2. PICK k \in Int : q * v = k * u  BY DEF Fits
<1>3. c = (k * u) \div u  BY <1>2 DEF Converted
<1> HIDE DEF u, v, c
<1>4. c = k  BY <1>1, <1>3, MultipleDivides
<1>5. c * u = q * v  BY <1>2, <1>4
<1>6. ASSUME NEW t \in Slots, s <= t
      PROVE  \E j \in Int : c * world.units[i][t] = j * v
  <2> DEFINE w == world.units[i][t]
  <2>1. w \in Nat \ {0}  BY UnitsNat DEF Types
  <2>2. applied[i] <= t
    <3>1. applied[i] \in Nat /\ s \in Nat /\ t \in Nat  BY BacktestAssumption DEF Types, Slots
    <3> QED  BY <1>6, <3>1
  <2>3. PICK j \in Int : q * w = j * u  BY <2>2 DEF Fits, u
  <2> HIDE DEF w
  <2>4. (c * w) * u = (c * u) * w  BY <1>1, <1>4, <2>1
  <2>5. (q * v) * w = (q * w) * v  BY <1>1, <2>1
  <2>6. (j * u) * v = (j * v) * u  BY <1>1
  <2>7. (c * w) * u = (j * v) * u  BY <1>5, <2>3, <2>4, <2>5, <2>6
  <2>8. c * w \in Int /\ j * v \in Int  BY <1>1, <1>4, <2>1
  <2>9. c * w = j * v
    <3> DEFINE a == c * w
               b == j * v
    <3>1. a \in Int /\ b \in Int /\ a * u = b * u  BY <2>7, <2>8
    <3> HIDE DEF a, b
    <3>2. (a * u) \div u = a /\ (b * u) \div u = b  BY <1>1, <3>1, MultipleDivides
    <3>3. a = b  BY <3>1, <3>2
    <3> QED  BY <3>3 DEF a, b
  <2> QED  BY <2>9 DEF w
<1> QED  BY <1>5, <1>6 DEF Fits, c, u, v

LEMMA FitsFrame ==
    ASSUME world' = world
    PROVE  \A i, q, s : Fits(i, q, s)' <=> Fits(i, q, s)
BY DEF Fits

LEMMA ExactFrame ==
    ASSUME Exact, world' = world, qty' = qty, pending' = pending, applied' = applied
    PROVE  Exact'
BY FitsFrame DEF Exact, Fits

LEMMA ExactNext ==
    ASSUME world' = world,
           \A i \in Instruments :
             /\ Fits(i, qty'[i], applied'[i])
             /\ pending'[i] # NoOrder => Fits(i, pending'[i].qty, applied'[i])
    PROVE  Exact'
BY DEF Exact, Fits

LEMMA InitExact == BacktestInit => Exact
<1> SUFFICES ASSUME BacktestInit PROVE Exact
  OBVIOUS
<1>1. \A i \in Instruments : applied[i] = 0 /\ qty[i] = 0 /\ pending[i] = NoOrder /\ world \in Worlds
  BY DEF BacktestInit
<1>2. 0 \in Slots /\ 0 * Lot = 0  BY BacktestAssumption DEF Slots
<1>3. \A i \in Instruments : Fits(i, 0, 0)
  <2> TAKE i \in Instruments
  <2>1. Fits(i, 0 * Lot, 0)  BY <1>1, <1>2, FitsLots
  <2> QED  BY <1>2, <2>1
<1> QED  BY <1>1, <1>3 DEF Exact

LEMMA ActionsExact == BacktestInv /\ Books /\ Exact /\ CorporateActions => Exact'
<1> SUFFICES ASSUME BacktestInv, Books, Exact, CorporateActions PROVE Exact'
  OBVIOUS
<1>0. world' = world  BY DEF CorporateActions
<1> SUFFICES ASSUME NEW i \in Instruments
             PROVE  /\ Fits(i, qty'[i], applied'[i])
                    /\ pending'[i] # NoOrder => Fits(i, pending'[i].qty, applied'[i])
  BY <1>0, ExactNext
<1>1. Types /\ Clock /\ step = "actions"  BY DEF BacktestInv, CorporateActions
<1>2. Reached(i) \in Slots /\ applied[i] <= Reached(i)  BY <1>1, ReachedBetween
<1>3. qty'[i] = Converted(i, qty[i], Reached(i)) /\ applied'[i] = Reached(i)
      /\ pending'[i] = ConvertedOrder(i)
  BY DEF CorporateActions
<1>4. qty[i] \in Int  BY <1>1 DEF Types
<1>5. Fits(i, qty'[i], applied'[i])  BY <1>1, <1>2, <1>3, <1>4, ConvertsExactly DEF Exact
<1>6. ASSUME pending'[i] # NoOrder PROVE Fits(i, pending'[i].qty, applied'[i])
  <2>1. pending[i] # NoOrder  BY <1>3, <1>6 DEF ConvertedOrder
  <2>2. pending[i] \in Order /\ pending[i].qty \in Int  BY <2>1 DEF Books, Covers, Order
  <2>3. pending'[i].qty = Converted(i, pending[i].qty, Reached(i))
    BY <1>3, <2>1, <2>2 DEF ConvertedOrder, Order
  <2>4. Fits(i, pending[i].qty, applied[i])  BY <2>1 DEF Exact
  <2> QED  BY <1>1, <1>2, <1>3, <2>2, <2>3, <2>4, ConvertsExactly
<1> QED  BY <1>5, <1>6

\* A fill is all of an order, or whole lots of it.
LEMMA FillsExact == BacktestInv /\ Books /\ Exact /\ FillOrders => Exact'
<1> SUFFICES ASSUME BacktestInv, Books, Exact, FillOrders PROVE Exact'
  OBVIOUS
<1>0. world' = world /\ applied' = applied /\ \A i \in Instruments : pending'[i] = NoOrder
  BY DEF FillOrders
<1> SUFFICES ASSUME NEW i \in Instruments PROVE Fits(i, qty'[i], applied[i])
  BY <1>0, ExactNext
<1>1. Types  BY DEF BacktestInv
<1>2. PICK take : /\ \A j \in Instruments : take[j] \in Tradable(j)
                  /\ \A j \in Instruments : qty'[j] = qty[j] + Signed(j, take[j])
  BY DEF FillOrders
<1> DEFINE k == take[i]
           d == Signed(i, k)
<1>3. qty'[i] = qty[i] + d /\ qty[i] \in Int /\ world \in Worlds /\ applied[i] \in Slots
  BY <1>1, <1>2 DEF Types
<1>4. /\ k \in Nat
      /\ pending[i] = NoOrder => k = 0
      /\ k = 0 \/ k = Abs(pending[i].qty) \/ k % Lot = 0
  BY <1>2, TradableNat
<1>5. d = k \/ (d = -k /\ pending[i] # NoOrder /\ pending[i].qty < 0)  BY DEF Signed
<1>6. Lot \in Nat \ {0}  BY BacktestAssumption
<1>7. d \in Int /\ Fits(i, d, applied[i])
  <2>1. ASSUME NEW n \in Int, k = n * Lot PROVE d \in Int /\ Fits(i, d, applied[i])
    <3>1. -k = (-n) * Lot /\ -n \in Int  BY <1>6, <2>1
    <3>2. Fits(i, n * Lot, applied[i]) /\ Fits(i, (-n) * Lot, applied[i])
      BY <1>3, <2>1, <3>1, FitsLots
    <3> HIDE DEF k, d
    <3>3. d \in Int  BY <1>4, <1>5
    <3>4. CASE d = k  BY <2>1, <3>2, <3>3, <3>4
    <3>5. CASE d = -k  BY <3>1, <3>2, <3>3, <3>5
    <3> QED  BY <1>5, <3>4, <3>5
  <2>2. CASE k = 0
    <3>1. k = 0 * Lot  BY <1>6, <2>2
    <3> QED  BY <2>1, <3>1
  <2>3. CASE k % Lot = 0
    <3>1. k = (k \div Lot) * Lot /\ k \div Lot \in Int
      BY <1>4, <1>6, <2>3, ExactDivision, Quotients
    <3> QED  BY <2>1, <3>1
  <2>4. CASE k # 0 /\ k = Abs(pending[i].qty)
    <3>1. pending[i] # NoOrder  BY <1>4, <2>4
    <3>2. pending[i].qty \in Int  BY <3>1 DEF Books, Covers, Order
    <3>3. d = IF pending[i].qty < 0 THEN -k ELSE k  BY <3>1 DEF Signed
    <3>4. d = pending[i].qty
      <4> HIDE DEF k, d
      <4> QED  BY <2>4, <3>2, <3>3 DEF Abs
    <3> QED  BY <3>1, <3>2, <3>4 DEF Exact
  <2> QED  BY <1>4, <2>2, <2>3, <2>4
<1> HIDE DEF d
<1>8. Fits(i, qty[i] + d, applied[i])  BY <1>3, <1>7, FitsSum DEF Exact
<1> QED  BY <1>3, <1>8

LEMMA MarksExact == BacktestInv /\ Exact /\ MarkBook => Exact'
<1> SUFFICES ASSUME BacktestInv, Exact, MarkBook, NEW i \in Instruments
             PROVE  /\ Fits(i, qty'[i], applied[i])
                    /\ pending[i] # NoOrder => Fits(i, pending[i].qty, applied[i])
  BY DEF Exact, MarkBook, Fits
<1>1. Types  BY DEF BacktestInv
<1>2. qty'[i] = 0 \/ qty'[i] = qty[i]  BY DEF MarkBook
<1>3. Fits(i, 0, applied[i])
  <2>1. 0 * Lot = 0  BY BacktestAssumption
  <2>2. Fits(i, 0 * Lot, applied[i])  BY <1>1, FitsLots DEF Types
  <2> QED  BY <2>1, <2>2
<1> QED  BY <1>2, <1>3 DEF Exact

LEMMA DecideExact == BacktestInv /\ Exact /\ Decide => Exact'
<1> SUFFICES ASSUME BacktestInv, Exact, Decide, NEW i \in Instruments
             PROVE  /\ Fits(i, qty[i], applied[i])
                    /\ pending'[i] # NoOrder => Fits(i, pending'[i].qty, applied[i])
  BY DEF Exact, Decide, Fits
<1>1. Types  BY DEF BacktestInv
<1>2. PICK d : /\ \A j \in Instruments : d[j] \in Changes(j)
               /\ \A j \in Instruments : pending'[j] = Target(j, d[j])
  BY DEF Decide
<1>3. PICK n \in Int : d[i] = n * Lot  BY <1>1, <1>2, ChangesInLots DEF Types
<1>4. Fits(i, d[i], applied[i])  BY <1>1, <1>3, FitsLots DEF Types
<1>5. ASSUME pending'[i] # NoOrder PROVE pending'[i].qty = d[i]
  <2>1. pending'[i] = [qty |-> d[i], reduce |-> qty[i] # 0 /\ (d[i] > 0) # (qty[i] > 0),
                       basis |-> Splits(i, now - 1), keys |-> {}]
    BY <1>2, <1>5 DEF Target
  <2> QED  BY <2>1
<1> QED  BY <1>4, <1>5 DEF Exact

LEMMA RecallsExact == BacktestInv /\ Books /\ Exact /\ QueueRecalls => Exact'
<1> SUFFICES ASSUME BacktestInv, Books, Exact, QueueRecalls, NEW i \in Instruments
             PROVE  /\ Fits(i, qty[i], applied[i])
                    /\ pending'[i] # NoOrder => Fits(i, pending'[i].qty, applied[i])
  BY DEF Exact, QueueRecalls, Fits
<1>1. Types  BY DEF BacktestInv
<1>2. pending'[i] = pending[i] \/ pending'[i] = Cover(i)  BY DEF QueueRecalls
<1>3. pending[i] # NoOrder => pending[i].qty \in Int  BY DEF Books, Covers, Order
<1>4. PICK n \in Int : CoverQty(i) = n * Lot  BY <1>1, <1>3, CoverBuys
<1>5. Fits(i, CoverQty(i), applied[i])  BY <1>1, <1>4, FitsLots DEF Types
<1>6. Cover(i).qty = CoverQty(i)  BY DEF Cover
<1> QED  BY <1>2, <1>5, <1>6 DEF Exact

LEMMA ExactKept == BacktestInv /\ Books /\ Exact /\ [BacktestNext]_btVars => Exact'
<1> SUFFICES ASSUME BacktestInv, Books, Exact, [BacktestNext]_btVars PROVE Exact'
  OBVIOUS
<1>1. CASE NextBar  BY <1>1, ExactFrame DEF NextBar
<1>2. CASE Halt  BY <1>2, ExactFrame DEF Halt
<1>3. CASE EndRun
  <2>1. /\ world' = world /\ qty' = qty /\ applied' = applied
        /\ \A i \in Instruments : pending'[i] = NoOrder
    BY <1>3 DEF EndRun
  <2> QED  BY <2>1, FitsFrame DEF Exact, Fits
<1>4. CASE CorporateActions  BY <1>4, ActionsExact
<1>5. CASE FillOrders  BY <1>5, FillsExact
<1>6. CASE SettleFunding  BY <1>6, ExactFrame DEF SettleFunding
<1>7. CASE MarkBook  BY <1>7, MarksExact
<1>8. CASE Decide  BY <1>8, DecideExact
<1>9. CASE QueueRecalls  BY <1>9, RecallsExact
<1>10. CASE UNCHANGED btVars  BY <1>10, ExactFrame DEF btVars
<1>11. MissingQuote \/ RefuseActions \/ RefuseFill \/ RefuseExit => Halt
  BY DEF MissingQuote, RefuseActions, RefuseFill, RefuseExit
<1> QED  BY <1>1, <1>2, <1>3, <1>4, <1>5, <1>6, <1>7, <1>8, <1>9, <1>10, <1>11
         DEF BacktestNext

-----------------------------------------------------------------------------
(* Dividends: who held what at an ex date.                                 *)

\* What is held now, and the splits it has been converted by.
Current(i) == [qty |-> qty[i], basis |-> basis[i]]

\* A position whose ex date is still ahead of the corporate actions has not
\* changed since the last close before that date.
Held ==
    \A i \in Instruments :
      /\ step \in Mid => applied[i] < now
      /\ step # "halted" =>
           \A e \in Slots : applied[i] < e /\ (step \in {"fill", "funding", "mark"} => e < now) =>
             kept[i][e] = Current(i)

\* The dividend of ex date e has been paid on the position held before it.
PaidFor(i, e) ==
    IF kept[i][e].qty = 0 THEN paid[i][e] = <<>>
    ELSE /\ Len(paid[i][e]) = 1
         /\ paid[i][e][1].basis = Splits(i, e)
         /\ paid[i][e][1].qty * world.units[i][Max({0} \cup kept[i][e].basis)] =
              kept[i][e].qty * world.units[i][e]

PaidOnce ==
    \A i \in Instruments : \A e \in Slots :
      /\ applied[i] < e => paid[i][e] = <<>>
      /\ e <= applied[i] /\ e \in world.dividends[i] \ {0} => PaidFor(i, e)

HoldingsInv == Held /\ PaidOnce

LEMMA UnitsType ==
    ASSUME world \in Worlds, NEW i \in Instruments
    PROVE  /\ world.units[i] \in [Slots -> Nat \ {0}]
           /\ world.dividends[i] \in SUBSET Slots
           /\ \A s \in Slots : s \in Nat
<1>1. world.units[i] \in [Slots -> Nat \ {0}] /\ world.dividends[i] \in SUBSET Slots
  BY BacktestAssumption DEF World
<1>2. \A s \in Slots : s \in Nat  BY BacktestAssumption DEF Slots
<1> QED  BY <1>1, <1>2

\* A share of a slot is a share of a later one unless a split lies between.
LEMMA NoSplitBetween ==
    ASSUME world \in Worlds, NEW i \in Instruments, NEW a \in Slots, NEW b \in Slots, a <= b,
           \A e \in Slots \ {0} : a < e /\ e <= b => world.units[i][e] = world.units[i][e - 1]
    PROVE  world.units[i][b] = world.units[i][a]
<1> DEFINE u == world.units[i]
           A == {n \in Nat : a + n <= b => u[a + n] = u[a]}
<1>1. a \in Nat /\ b \in Nat /\ Horizon \in Nat /\ b <= Horizon - 1
  BY BacktestAssumption DEF Slots
<1>2. 0 \in A  BY <1>1
<1>3. ASSUME NEW n \in Nat, n \in A PROVE n + 1 \in A
  <2> SUFFICES ASSUME a + (n + 1) <= b PROVE u[a + (n + 1)] = u[a]
    OBVIOUS
  <2> DEFINE e == a + (n + 1)
  <2>1. e \in Slots \ {0} /\ a < e /\ e <= b /\ e - 1 = a + n /\ a + n <= b
    BY <1>1 DEF Slots
  <2>2. u[e] = u[e - 1]  BY <2>1
  <2>3. u[a + n] = u[a]  BY <1>3, <2>1
  <2> QED  BY <2>1, <2>2, <2>3
<1>4. \A n \in Nat : n \in A
  <2> HIDE DEF A
  <2> QED  BY <1>2, <1>3, NaturalInduction
<1>5. b - a \in Nat /\ a + (b - a) = b  BY <1>1
<1> QED  BY <1>1, <1>4, <1>5

\* The last split up to a slot fixes what a share of that slot is.
LEMMA LastSplit ==
    ASSUME world \in Worlds, NEW i \in Instruments, NEW a \in Slots
    PROVE  world.units[i][Max({0} \cup Splits(i, a))] = world.units[i][a]
<1> DEFINE K == {0} \cup Splits(i, a)
           m == Max(K)
<1>1. a \in Nat /\ Horizon \in Nat \ {0}  BY BacktestAssumption DEF Slots
<1>2. 0 \in Slots /\ \A s \in Slots : s \in Nat  BY <1>1 DEF Slots
<1>3. K \in SUBSET Slots  BY <1>2 DEF Splits
<1>4. \A k \in K : k <= a  BY <1>1 DEF Splits
<1>5. K \in SUBSET Nat /\ K # {}  BY <1>2, <1>3
<1>6. m \in K /\ \A k \in K : k <= m
  <2> HIDE DEF K
  <2> QED  BY <1>1, <1>4, <1>5, MaxExists
<1>7. m \in Slots /\ m <= a  BY <1>3, <1>4, <1>6
<1>8. ASSUME NEW e \in Slots \ {0}, m < e, e <= a
      PROVE  world.units[i][e] = world.units[i][e - 1]
  <2>1. e \notin K
    <3>1. m \in Nat /\ e \in Nat  BY <1>2, <1>7
    <3> HIDE DEF K, m
    <3> QED  BY <1>6, <1>8, <3>1
  <2> QED  BY <1>8, <2>1 DEF Splits
<1> HIDE DEF K, m
<1>9. world.units[i][m] = world.units[i][a]  BY <1>7, <1>8, NoSplitBetween
<1> QED  BY <1>9 DEF K, m

\* A conversion that waits for a split converts nothing.
LEMMA DeferKeeps ==
    ASSUME Types, Clock, step = "actions", NEW i \in Instruments, Defers(i), NEW q \in Int
    PROVE  Converted(i, q, Reached(i)) = q /\ NewSplits(i, Reached(i)) = {}
<1>1. now \in Nat /\ now <= Horizon /\ Horizon \in Nat  BY BacktestAssumption DEF Types
<1>2. applied[i] \in Slots /\ Reached(i) \in Slots /\ applied[i] <= Reached(i)
      /\ Reached(i) <= now - 1
  BY ReachedBetween DEF Types
<1>3. applied[i] \in Nat /\ Reached(i) \in Nat  BY <1>1, <1>2 DEF Slots
<1>4. DueSplits(i) \in SUBSET Nat /\ DueSplits(i) # {}
  BY <1>1 DEF DueSplits, Splits, Slots, Defers
<1>5. \A k \in DueSplits(i) : k \in Nat /\ Min(DueSplits(i)) <= k /\ Min(DueSplits(i)) \in Nat
  BY <1>4, MinExists
<1>6. Reached(i) = Min(DueSplits(i)) - 1  BY DEF Reached
<1>7. \A k \in DueSplits(i) : ~(k <= Reached(i))  BY <1>3, <1>5, <1>6
<1>8. NewSplits(i, Reached(i)) = {}  BY <1>7 DEF NewSplits
<1>9. ASSUME NEW e \in Slots \ {0}, applied[i] < e, e <= Reached(i)
      PROVE  world.units[i][e] = world.units[i][e - 1]
  <2>1. e \in Nat /\ e <= now - 1 /\ ~(e <= applied[i])  BY <1>1, <1>2, <1>3, <1>9 DEF Slots
  <2>2. e \notin DueSplits(i)  BY <1>7, <1>9
  <2> QED  BY <1>9, <2>1, <2>2 DEF DueSplits, Splits
<1>10. world.units[i][Reached(i)] = world.units[i][applied[i]]
  BY <1>2, <1>9, NoSplitBetween DEF Types
<1>11. world.units[i][applied[i]] \in Nat \ {0}  BY <1>2, UnitsType DEF Types
<1> DEFINE u == world.units[i][applied[i]]
<1>12. Converted(i, q, Reached(i)) = (q * u) \div u  BY <1>10 DEF Converted
<1> HIDE DEF u
<1>13. (q * u) \div u = q  BY <1>11, MultipleDivides DEF u
<1> QED  BY <1>8, <1>12, <1>13

LEMMA HoldingsFrame ==
    ASSUME HoldingsInv, world' = world, applied' = applied, kept' = kept, paid' = paid,
           qty' = qty, basis' = basis, now' = now, step' # "halted" => step # "halted",
           step' \in Mid => step \in Mid,
           step \in {"fill", "funding", "mark"} => step' \in {"fill", "funding", "mark", "halted"}
    PROVE  HoldingsInv'
<1>1. Held'
  <2> SUFFICES ASSUME NEW i \in Instruments
               PROVE  /\ step' \in Mid => applied[i] < now
                      /\ step' # "halted" =>
                           \A e \in Slots :
                             applied[i] < e /\ (step' \in {"fill", "funding", "mark"} => e < now) =>
                               kept[i][e] = Current(i)
    BY DEF Held, Current
  <2>1. step' \in Mid => applied[i] < now  BY DEF HoldingsInv, Held
  <2>2. ASSUME step' # "halted", NEW e \in Slots, applied[i] < e,
               step' \in {"fill", "funding", "mark"} => e < now
        PROVE  kept[i][e] = Current(i)
    <3>1. step # "halted" /\ (step \in {"fill", "funding", "mark"} => e < now)  BY <2>2
    <3> QED  BY <2>2, <3>1 DEF HoldingsInv, Held
  <2> QED  BY <2>1, <2>2
<1>2. PaidOnce'
  <2>1. \A i, e : PaidFor(i, e)' = PaidFor(i, e)  BY SplitsFrame DEF PaidFor
  <2> QED  BY <2>1 DEF HoldingsInv, PaidOnce
<1> QED  BY <1>1, <1>2 DEF HoldingsInv

LEMMA InitHoldings == BacktestInit => HoldingsInv
<1> SUFFICES ASSUME BacktestInit PROVE HoldingsInv
  OBVIOUS
<1>1. \A s \in Slots : s \in Nat  BY BacktestAssumption DEF Slots
<1>2. Held  BY DEF BacktestInit, Held, Current, Mid
<1>3. PaidOnce
  <2>1. \A i \in Instruments : applied[i] = 0  BY DEF BacktestInit
  <2>2. \A i \in Instruments, e \in Slots : paid[i][e] = <<>>  BY DEF BacktestInit
  <2>3. \A e \in Slots : e <= 0 => e = 0  BY <1>1
  <2> QED  BY <2>1, <2>2, <2>3 DEF PaidOnce
<1> QED  BY <1>2, <1>3 DEF HoldingsInv

LEMMA NextBarHoldings == BacktestInv /\ HoldingsInv /\ NextBar => HoldingsInv'
<1> SUFFICES ASSUME BacktestInv, HoldingsInv, NextBar PROVE HoldingsInv'
  OBVIOUS
<1>1. Types /\ Clock  BY DEF BacktestInv
<1>2. /\ step = "bar" /\ step' = "actions" /\ world' = world /\ applied' = applied
      /\ kept' = kept /\ paid' = paid /\ qty' = qty /\ basis' = basis
  BY DEF NextBar
<1>3. now' \in Nat /\ now' > now /\ now \in Nat
  BY <1>1, BacktestAssumption DEF NextBar, Grid, Closes, Types
<1>4. Held'
  <2>1. \A i \in Instruments : applied[i] < now'
    <3> TAKE i \in Instruments
    <3>1. applied[i] \in Nat /\ applied[i] <= now  BY <1>1, BacktestAssumption DEF Types, Slots, Clock
    <3> QED  BY <1>3, <3>1
  <2> QED  BY <1>2, <2>1 DEF HoldingsInv, Held, Current
<1>5. PaidOnce'
  <2>1. \A i, e : PaidFor(i, e)' = PaidFor(i, e)  BY <1>2, SplitsFrame DEF PaidFor
  <2> QED  BY <1>2, <2>1 DEF HoldingsInv, PaidOnce
<1> QED  BY <1>4, <1>5 DEF HoldingsInv

\* What a due dividend is paid on, in the shares of its ex date.
LEMMA EntitledExact ==
    ASSUME Types, Clock, Bases, Exact, step = "actions", NEW i \in Instruments, qty[i] # 0,
           NEW e \in Slots, applied[i] < e, e <= Reached(i)
    PROVE  /\ Entitled(i, e).basis = Splits(i, e)
           /\ Entitled(i, e).qty * world.units[i][Max({0} \cup basis[i])] =
                qty[i] * world.units[i][e]
<1>1. now \in Nat /\ Reached(i) <= now - 1 /\ applied[i] \in Slots /\ Reached(i) \in Slots
      /\ \A s \in Slots : s \in Nat
  <2>1. now \in Nat /\ \A s \in Slots : s \in Nat  BY BacktestAssumption DEF Types, Slots
  <2>2. Reached(i) <= now - 1 /\ Reached(i) \in Slots  BY ReachedBetween
  <2> QED  BY <2>1, <2>2 DEF Types
<1>2. basis[i] = Splits(i, applied[i])  BY DEF Bases, Exposed
<1>3. Splits(i, applied[i]) \cup NewSplits(i, e) = Splits(i, e)
  <2>1. applied[i] \in Nat /\ e \in Nat /\ Reached(i) \in Nat  BY <1>1
  <2>2. \A d \in Slots : /\ d <= applied[i] => d <= e
                         /\ d <= e => d <= now - 1
    BY <1>1, <2>1
  <2> QED  BY <2>2 DEF NewSplits, DueSplits, Splits
<1>4. world.units[i][Max({0} \cup basis[i])] = world.units[i][applied[i]]
  BY <1>1, <1>2, LastSplit DEF Types
<1>5. applied[i] <= e  BY <1>1
<1>6. qty[i] \in Int /\ Fits(i, qty[i], applied[i])  BY DEF Types, Exact
<1>7. Converted(i, qty[i], e) * world.units[i][applied[i]] = qty[i] * world.units[i][e]
  BY <1>5, <1>6, ConvertsExactly
<1>8. Entitled(i, e).qty = Converted(i, qty[i], e)
      /\ Entitled(i, e).basis = basis[i] \cup NewSplits(i, e)
  BY DEF Entitled
<1> QED  BY <1>2, <1>3, <1>4, <1>7, <1>8

LEMMA ActionsHoldings == BacktestInv /\ Exact /\ HoldingsInv /\ CorporateActions => HoldingsInv'
<1> SUFFICES ASSUME BacktestInv, Exact, HoldingsInv, CorporateActions PROVE HoldingsInv'
  OBVIOUS
<1>1. Types /\ Clock /\ Bases  BY DEF BacktestInv
<1>2. /\ step = "actions" /\ step' = "fill" /\ world' = world /\ now' = now /\ kept' = kept
  BY DEF CorporateActions
<1>3. \A i \in Instruments :
        /\ qty'[i] = Converted(i, qty[i], Reached(i))
        /\ basis'[i] = basis[i] \cup NewSplits(i, Reached(i))
        /\ applied'[i] = Reached(i)
        /\ \A e \in Slots : paid'[i][e] = IF e \in DueDividends(i) /\ qty[i] # 0
                                            THEN Append(paid[i][e], Entitled(i, e))
                                            ELSE paid[i][e]
  BY DEF CorporateActions
<1>4. \A i \in Instruments :
        /\ Reached(i) \in Nat /\ applied[i] \in Nat /\ now \in Nat /\ qty[i] \in Int
        /\ applied[i] <= Reached(i) /\ Reached(i) <= now - 1
  BY <1>1, <1>2, ReachedBetween, BacktestAssumption DEF Types, Slots
<1>5. \A s \in Slots : s \in Nat  BY BacktestAssumption DEF Slots
<1>6. Held'
  <2> SUFFICES ASSUME NEW i \in Instruments
               PROVE  /\ applied'[i] < now
                      /\ \A e \in Slots : applied'[i] < e /\ e < now => kept[i][e] = Current(i)'
    BY <1>2 DEF Held
  <2>1. applied'[i] < now  BY <1>3, <1>4
  <2>2. ASSUME NEW e \in Slots, applied'[i] < e, e < now PROVE kept[i][e] = Current(i)'
    <3>1. Reached(i) # now - 1 /\ applied[i] < e  BY <1>3, <1>4, <1>5, <2>2
    <3>2. Defers(i)  BY <3>1 DEF Reached
    <3>3. Converted(i, qty[i], Reached(i)) = qty[i] /\ NewSplits(i, Reached(i)) = {}
      BY <1>1, <1>2, <1>4, <3>2, DeferKeeps
    <3>4. qty'[i] = qty[i] /\ basis'[i] = basis[i]
      BY <1>3, <3>3
    <3>5. kept[i][e] = Current(i)  BY <1>2, <3>1 DEF HoldingsInv, Held
    <3> QED  BY <3>4, <3>5 DEF Current
  <2> QED  BY <2>1, <2>2
<1>7. PaidOnce'
  <2> SUFFICES ASSUME NEW i \in Instruments, NEW e \in Slots
               PROVE  /\ applied'[i] < e => paid'[i][e] = <<>>
                      /\ e <= applied'[i] /\ e \in world.dividends[i] \ {0} => PaidFor(i, e)'
    BY <1>2 DEF PaidOnce
  <2>1. e \in Nat  BY <1>5
  <2>2. \A s : Splits(i, s)' = Splits(i, s)  BY <1>2, SplitsFrame
  <2>3. ASSUME applied'[i] < e PROVE paid'[i][e] = <<>>
    <3>1. applied[i] < e /\ e \notin DueDividends(i)
      <4>1. applied[i] < e /\ ~(e <= Reached(i))  BY <1>3, <1>4, <2>1, <2>3
      <4> QED  BY <4>1 DEF DueDividends
    <3> QED  BY <1>3, <3>1 DEF HoldingsInv, PaidOnce
  <2>4. ASSUME e <= applied'[i], e \in world.dividends[i] \ {0}, e <= applied[i]
        PROVE  PaidFor(i, e)'
    <3>1. e \notin DueDividends(i)
      <4>1. ~(applied[i] < e)  BY <1>4, <2>1, <2>4
      <4> QED  BY <4>1 DEF DueDividends
    <3>2. paid'[i][e] = paid[i][e]  BY <1>3, <3>1
    <3>3. PaidFor(i, e)  BY <2>4 DEF HoldingsInv, PaidOnce
    <3> QED  BY <1>2, <2>2, <3>2, <3>3 DEF PaidFor
  <2>5. ASSUME e <= applied'[i], e \in world.dividends[i] \ {0}, applied[i] < e
        PROVE  PaidFor(i, e)'
    <3>1. e <= Reached(i)  BY <1>3, <2>5
    <3>2. e \in DueDividends(i)  BY <2>5, <3>1 DEF DueDividends
    <3>3. kept[i][e] = Current(i) /\ paid[i][e] = <<>>
      BY <1>2, <2>5 DEF HoldingsInv, Held, PaidOnce
    <3>4. kept'[i][e].qty = qty[i] /\ kept'[i][e].basis = basis[i]
      BY <1>2, <3>3 DEF Current
    <3>5. CASE qty[i] = 0
      <4>1. paid'[i][e] = <<>>  BY <1>3, <3>3, <3>5
      <4> QED  BY <3>4, <3>5, <4>1 DEF PaidFor
    <3>6. CASE qty[i] # 0
      <4>1. paid'[i][e] = Append(<<>>, Entitled(i, e))  BY <1>3, <3>2, <3>3, <3>6
      <4>2. Len(paid'[i][e]) = 1 /\ paid'[i][e][1] = Entitled(i, e)
        BY <4>1
      <4>3. /\ Entitled(i, e).basis = Splits(i, e)
            /\ Entitled(i, e).qty * world.units[i][Max({0} \cup basis[i])] =
                 qty[i] * world.units[i][e]
        BY <1>1, <1>2, <2>5, <3>1, <3>6, EntitledExact
      <4> QED  BY <1>2, <2>2, <3>4, <3>6, <4>2, <4>3 DEF PaidFor
    <3> QED  BY <3>5, <3>6
  <2>6. e <= applied[i] \/ applied[i] < e  BY <1>4, <2>1
  <2> QED  BY <2>3, <2>4, <2>5, <2>6
<1> QED  BY <1>6, <1>7 DEF HoldingsInv

\* Without a bar of this close there is no fill.
LEMMA FillsHoldings == BacktestInv /\ Books /\ HoldingsInv /\ FillOrders => HoldingsInv'
<1> SUFFICES ASSUME BacktestInv, Books, HoldingsInv, FillOrders PROVE HoldingsInv'
  OBVIOUS
<1>1. Types /\ Clock /\ Bases  BY DEF BacktestInv
<1>2. /\ step = "fill" /\ step' = "funding" /\ world' = world /\ now' = now /\ kept' = kept
      /\ paid' = paid /\ applied' = applied
  BY DEF FillOrders
<1>3. PICK take : /\ \A i \in Instruments : take[i] \in Tradable(i)
                  /\ qty' = [i \in Instruments |-> qty[i] + Signed(i, take[i])]
                  /\ basis' = [i \in Instruments |->
                                 IF qty[i] = 0 /\ take[i] # 0 THEN pending[i].basis ELSE basis[i]]
  BY DEF FillOrders
<1>4. PaidOnce'
  <2>1. \A i, e : PaidFor(i, e)' = PaidFor(i, e)  BY <1>2, SplitsFrame DEF PaidFor
  <2> QED  BY <1>2, <2>1 DEF HoldingsInv, PaidOnce
<1>5. Held'
  <2> SUFFICES ASSUME NEW i \in Instruments
               PROVE  /\ applied[i] < now
                      /\ \A e \in Slots : applied[i] < e /\ e < now => kept[i][e] = Current(i)'
    BY <1>2 DEF Held
  <2>1. applied[i] < now  BY <1>2 DEF HoldingsInv, Held, Mid
  <2>2. ASSUME NEW e \in Slots, applied[i] < e, e < now PROVE kept[i][e] = Current(i)'
    <3>1. now \in Nat /\ applied[i] \in Nat /\ e \in Nat
      BY <1>1, BacktestAssumption DEF Types, Slots
    <3>2. applied[i] # now - 1  BY <2>2, <3>1
    <3>3. now - 1 \notin world.bars[i]  BY <1>1, <1>2, <3>2 DEF Bases
    <3>4. last \notin world.bars[i]  BY <1>1, <1>2, <3>3, BarIsNow DEF Mid
    <3>5. take[i] = 0
      <4>1. take[i] \in Tradable(i)  BY <1>3
      <4> QED  BY <3>4, <4>1 DEF Tradable
    <3>6. Signed(i, take[i]) = 0
      <4>1. take[i] \in Int  BY <3>5
      <4>2. Signed(i, take[i]) = -take[i] \/ Signed(i, take[i]) = take[i]  BY DEF Signed
      <4>3. CASE Signed(i, take[i]) = -take[i]  BY <3>5, <4>1, <4>3
      <4>4. CASE Signed(i, take[i]) = take[i]  BY <3>5, <4>4
      <4> QED  BY <4>2, <4>3, <4>4
    <3>7. qty'[i] = qty[i] /\ basis'[i] = basis[i]
      <4>1. qty[i] + 0 = qty[i]  BY <1>1 DEF Types
      <4> QED  BY <1>3, <3>5, <3>6, <4>1
    <3>8. kept[i][e] = Current(i)  BY <1>2, <2>2 DEF HoldingsInv, Held
    <3> QED  BY <3>7, <3>8 DEF Current
  <2> QED  BY <2>1, <2>2
<1> QED  BY <1>4, <1>5 DEF HoldingsInv

LEMMA MarksHoldings == BacktestInv /\ HoldingsInv /\ MarkBook => HoldingsInv'
<1> SUFFICES ASSUME BacktestInv, HoldingsInv, MarkBook PROVE HoldingsInv'
  OBVIOUS
<1>1. Types /\ Clock /\ Bases  BY DEF BacktestInv
<1>2. /\ step = "mark" /\ step' = "decide" /\ world' = world /\ now' = now /\ basis' = basis
      /\ paid' = paid /\ applied' = applied
  BY DEF MarkBook
<1>3. \A i \in Instruments :
        /\ qty'[i] = IF Ended(i) THEN 0 ELSE qty[i]
        /\ \A c \in Slots : kept'[i][c] = IF c < now THEN kept[i][c]
             ELSE [qty |-> IF Ended(i) THEN 0 ELSE qty[i], basis |-> basis[i]]
  BY DEF MarkBook
<1>4. \A i \in Instruments : applied[i] < now  BY <1>2 DEF HoldingsInv, Held, Mid
<1>5. now \in Nat /\ (\A s \in Slots : s \in Nat) /\ \A i \in Instruments : applied[i] \in Nat
  BY <1>1, BacktestAssumption DEF Types, Slots
<1>6. Held'
  <2> SUFFICES ASSUME NEW i \in Instruments, NEW e \in Slots, applied[i] < e
               PROVE  kept'[i][e] = Current(i)'
    BY <1>2 DEF Held, Mid
  <2>1. CASE e < now
    <3>1. applied[i] # now - 1  BY <1>5, <2>1
    <3>2. now - 1 \notin world.bars[i]  BY <1>1, <1>2, <3>1 DEF Bases
    <3>3. ~Ended(i)  BY <3>2 DEF Ended, LastBarOf
    <3>4. kept[i][e] = Current(i)  BY <1>2, <2>1 DEF HoldingsInv, Held
    <3> QED  BY <1>2, <1>3, <2>1, <3>3, <3>4 DEF Current
  <2>2. CASE ~(e < now)
    BY <1>2, <1>3, <2>2 DEF Current
  <2> QED  BY <2>1, <2>2
<1>7. PaidOnce'
  <2> SUFFICES ASSUME NEW i \in Instruments, NEW e \in Slots
               PROVE  /\ applied[i] < e => paid[i][e] = <<>>
                      /\ e <= applied[i] /\ e \in world.dividends[i] \ {0} => PaidFor(i, e)'
    BY <1>2 DEF PaidOnce
  <2>1. applied[i] < e => paid[i][e] = <<>>  BY DEF HoldingsInv, PaidOnce
  <2>2. ASSUME e <= applied[i], e \in world.dividends[i] \ {0} PROVE PaidFor(i, e)'
    <3>1. e < now  BY <1>4, <1>5, <2>2
    <3>2. kept'[i][e] = kept[i][e]  BY <1>3, <3>1
    <3>3. PaidFor(i, e)  BY <2>2 DEF HoldingsInv, PaidOnce
    <3>4. Splits(i, e)' = Splits(i, e)  BY <1>2, SplitsFrame
    <3> QED  BY <1>2, <3>2, <3>3, <3>4 DEF PaidFor
  <2> QED  BY <2>1, <2>2
<1> QED  BY <1>6, <1>7 DEF HoldingsInv

LEMMA HoldingsKept ==
    ASSUME BacktestInv, Books, Exact, HoldingsInv, [BacktestNext]_btVars
    PROVE  HoldingsInv'
<1>1. CASE NextBar  BY <1>1, NextBarHoldings
<1>2. CASE Halt  BY <1>2, HoldingsFrame DEF Halt, Mid
<1>3. CASE EndRun  BY <1>3, HoldingsFrame DEF EndRun, Mid
<1>4. CASE CorporateActions  BY <1>4, ActionsHoldings
<1>5. CASE FillOrders  BY <1>5, FillsHoldings
<1>6. CASE SettleFunding  BY <1>6, HoldingsFrame DEF SettleFunding, Mid
<1>7. CASE MarkBook  BY <1>7, MarksHoldings
<1>8. CASE Decide  BY <1>8, HoldingsFrame DEF Decide, Mid
<1>9. CASE QueueRecalls  BY <1>9, HoldingsFrame DEF QueueRecalls, Mid
<1>10. CASE UNCHANGED btVars  BY <1>10, HoldingsFrame DEF btVars
<1>11. MissingQuote \/ RefuseActions \/ RefuseFill \/ RefuseExit => Halt
  BY DEF MissingQuote, RefuseActions, RefuseFill, RefuseExit
<1> QED  BY <1>1, <1>2, <1>3, <1>4, <1>5, <1>6, <1>7, <1>8, <1>9, <1>10, <1>11
         DEF BacktestNext

LEMMA ExactInvariant == BacktestSpec => []Exact
<1>1. BacktestInit => Exact  BY InitExact
<1>2. BacktestInv /\ Books /\ Exact /\ [BacktestNext]_btVars => Exact'  BY ExactKept
<1> QED  BY <1>1, <1>2, BacktestInvariant, BooksInvariant, PTL DEF BacktestSpec

LEMMA HoldingsInvariant == BacktestSpec => []HoldingsInv
<1>1. BacktestInit => HoldingsInv  BY InitHoldings
<1>2. BacktestInv /\ Books /\ Exact /\ HoldingsInv /\ [BacktestNext]_btVars => HoldingsInv'
  BY HoldingsKept
<1> QED  BY <1>1, <1>2, BacktestInvariant, BooksInvariant, ExactInvariant, PTL DEF BacktestSpec

\* A dividend goes to whoever held the shares before the ex date, once, and is
\* counted in the shares it was declared for.
THEOREM DividendsArePaidOnce == BacktestSpec => []DividendsFollowHoldings
<1>1. BacktestInv /\ HoldingsInv => DividendsFollowHoldings
  <2> SUFFICES ASSUME BacktestInv, HoldingsInv, NEW i \in Instruments,
                      NEW e \in world.dividends[i] \ {0}, e <= applied[i]
               PROVE  PaidFor(i, e)
    BY DEF DividendsFollowHoldings, PaidFor
  <2>1. e \in Slots  BY UnitsType DEF BacktestInv, Types
  <2> QED  BY <2>1 DEF HoldingsInv, PaidOnce
<1> QED  BY <1>1, BacktestInvariant, HoldingsInvariant, PTL

=============================================================================
