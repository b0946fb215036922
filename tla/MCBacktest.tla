----------------------------- MODULE MCBacktest -----------------------------
(***************************************************************************)
(* Model-checking instances of Backtest: x is traded, y is the benchmark   *)
(* whose bars keep the grid going while x has a gap or is gone.  A run is  *)
(* given one peculiarity of x at a time, and the pairs that interact.      *)
(***************************************************************************)
EXTENDS Backtest

CONSTANTS x, y

Both == {x, y}

Pick(a, b) == [i \in Both |-> IF i = x THEN a ELSE b]

\* The data of a run: only x is peculiar, and the grid may have a gap.
Data(bars, units, dividends, funding, status, delisted, recalls) ==
    [bars |-> Pick(bars, Slots), units |-> Pick(units, [s \in Slots |-> 1]),
     dividends |-> Pick(dividends, {}), funding |-> Pick(funding, {}),
     status |-> Pick(status, [s \in Slots |-> "open"]),
     delisted |-> delisted, recalls |-> recalls]

\* All bars; a gap; two gaps; a history that ends.
Histories == {Slots, Slots \ {1}, Slots \ {2}, Slots \ {1, 2}, {0, 1}, {0, 1, 2}}
Whole == [s \in Slots |-> 1]
Split(e) == [s \in Slots |-> IF s < e THEN 1 ELSE 2]
Reverse(e) == [s \in Slots |-> IF s < e THEN 2 ELSE 1]
Twice(e) == [s \in Slots |-> IF s < e THEN 1 ELSE IF s = e THEN 2 ELSE 6]
AlwaysOpen == [s \in Slots |-> "open"]
Status(e, st) == [AlwaysOpen EXCEPT ![e] = st]
Notice(q, k, d) == [iid |-> x, qty |-> q, known |-> k, due |-> d]

\* One notice, two that share a key, two whose deadlines differ, a late second one;
\* of a lot, of more or of less.
Recalls == {<<Notice(2, 1, 4)>>, <<Notice(3, 2, 4)>>,
            <<Notice(1, 2, 4), Notice(3, 2, 4)>>, <<Notice(2, 2, 3), Notice(2, 2, 4)>>,
            <<Notice(2, 2, 4), Notice(3, 3, 4)>>}

CorporateWorlds ==
    {Data(h, u, v, {}, AlwaysOpen, dead, <<>>) :
       h \in Histories, u \in {Whole, Split(2), Twice(2), Reverse(2)}, v \in {{}, {1}, {2}, {1, 3}}, dead \in {{}, {x}}}

FundingWorlds ==
    {[Data(h, Whole, {}, f, AlwaysOpen, {x}, <<>>) EXCEPT !.bars[y] = g] :
       h \in Histories, f \in {{2}, {1, 3}}, g \in {Slots, Slots \ {2}}}

LendingWorlds ==
    {Data(h, u, {}, {}, st, {x}, r) :
       h \in {Slots, Slots \ {2}}, u \in {Whole, Split(2), Reverse(2)},
       st \in {AlwaysOpen, Status(2, "closed"), Status(2, "close_only")},
       r \in Recalls}

AllWorlds == CorporateWorlds \cup FundingWorlds \cup LendingWorlds
SomeDeltas == Pick(-3 .. 3, {0})
=============================================================================
