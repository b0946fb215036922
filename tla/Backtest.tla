------------------------------ MODULE Backtest ------------------------------
(***************************************************************************)
(* backtest/engine.py, EventDrivenBacktester.run: one pass over the closes *)
(* of the bars.  At close t the carry of the past interval is accrued, the *)
(* corporate actions that came due convert the book, the orders decided at *)
(* the previous close fill at the open of the bar that closes now, funding *)
(* settles, the book is marked, dead instruments are closed, and the       *)
(* strategy and the borrow recalls queue the orders of the next bar.       *)
(*                                                                         *)
(* Quantities are counted in grains, Lot of them to a lot: orders are made *)
(* in lots, and a split may leave a position or an order between two lots. *)
(* Money, prices and weights are left out: the strategy asks for any       *)
(* change of a position, the caps fill any lots of an order, and a price   *)
(* guard may or may not stop the run.                                      *)
(***************************************************************************)
EXTENDS Integers, Sequences, Functions, FiniteSetsExt

CONSTANTS
    Instruments,    \* the ids of the run
    Horizon,        \* bound: the number of session bars
    Worlds,         \* the market data a run may be given
    Lot,            \* the grains of a lot
    Deltas,         \* Deltas[i]: the lots an order may change a position by
    MaxLots,        \* bound: the lots an order may lead to
    NoOrder         \* nothing is queued

\* A bar is named by its slot: slot s opens at instant s and closes at s + 1,
\* which is where the next session opens.
Slots == 0 .. Horizon - 1
Closes == 1 .. Horizon

Statuses == {"open", "closed", "close_only"}

\* A recall notice: recalled_qty, available_at, and event_ts and cover_deadline
\* as one, the dates that tell two notices of one instant apart.
Recall == [iid : Instruments, qty : Nat \ {0}, known : Nat, due : Nat]

\* What the lake and the providers hold: the bars of every instrument, the
\* shares of a slot that a fixed stake is (a change is a split, a smaller number
\* a reverse one), the ex dates of dividends, the funding events of the interval
\* that ends at a close, the status of the venue, the confirmed delistings, the
\* recall notices in the order of recalls_known.
World == [bars : [Instruments -> SUBSET Slots],
          units : [Instruments -> [Slots -> Nat \ {0}]],
          dividends : [Instruments -> SUBSET Slots],
          funding : [Instruments -> SUBSET Closes],
          status : [Instruments -> [Slots -> Statuses]],
          delisted : SUBSET Instruments,
          recalls : Seq(Recall)]

ASSUME BacktestAssumption ==
    /\ Horizon \in Nat \ {0}
    /\ Worlds \subseteq World
    /\ \A w \in Worlds : \E i \in Instruments : w.bars[i] # {}
    /\ Deltas \in [Instruments -> SUBSET Int]
    /\ MaxLots \in Nat
    /\ Lot \in Nat \ {0}

\* The grain is fine enough for the splits of the data, forward or reverse: what a
\* lot of one slot is at a later one is a whole number of grains.
ASSUME FineGrain ==
    \A w \in Worlds, i \in Instruments : \A s, t \in Slots :
        s <= t => (Lot * w.units[i][t]) % w.units[i][s] = 0

VARIABLES
    world,      \* the data of this run
    now,        \* t: the close being processed, 0 before the first
    last,       \* prev_bar_ts: the close before it
    step,       \* the phase of the loop body that comes next
    qty,        \* Ledger positions: signed grains
    basis,      \* the splits the position has been converted by
    quoted,     \* the splits behind last_close
    seen,       \* the instruments that have a last_close
    pending,    \* the order queued per instrument
    applied,    \* corporate_action_ptr: the events up to this slot are done
    remaining,  \* recall_remaining per key
    \* What the run has booked so far:
    over,       \* the position held over every slot
    kept,       \* the position, with its basis, left at the last close up to c
    paid,       \* the dividends paid per ex date
    settled     \* the funding settled per event

btVars == <<world, now, last, step, qty, basis, quoted, seen, pending, applied,
            remaining, over, kept, paid, settled>>

Steps == {"bar", "actions", "fill", "funding", "mark", "decide", "recalls",
          "done", "halted"}

\* An OrderRequest: its signed quantity and reduce_only flag, the splits it has
\* been converted by, and recall_keys_by_order.
Order == [qty : Int, reduce : BOOLEAN, basis : SUBSET Slots, keys : SUBSET Nat]

Larger(m, n) == IF m > n THEN m ELSE n
Smaller(m, n) == IF m < n THEN m ELSE n
Abs(n) == IF n < 0 THEN -n ELSE n
Short(q) == Larger(-q, 0)

\* A quantity on the lot grid, floored.
Lots(q) == (q \div Lot) * Lot

\* The union grid: the closes of all bars of all instruments.
Grid == {c \in Closes : \E i \in Instruments : c - 1 \in world.bars[i]}

\* Mutant: the open of the last bar is taken for its close.
LastBarOf_open(i, c) == c \in world.bars[i] /\ \A s \in world.bars[i] : s <= c

\* last_close_of[i] = c.
LastBarOf(i, c) == c - 1 \in world.bars[i] /\ \A s \in world.bars[i] : s < c

FinalClose(c) == \A d \in Grid : d <= c

\* The splits of i up to slot s: the basis a price of slot s is quoted in.
Splits(i, s) == {e \in Slots \ {0} : e <= s /\ world.units[i][e] # world.units[i][e - 1]}

Notices == 1 .. Len(world.recalls)
NoticesOf(i) == {n \in Notices : world.recalls[n].iid = i}

\* A notice is known by its instrument and dates; the first one under a key is the
\* only one whose quantity is ever recorded.
Alike(m, n) ==
    /\ world.recalls[m].iid = world.recalls[n].iid
    /\ world.recalls[m].known = world.recalls[n].known
    /\ world.recalls[m].due = world.recalls[n].due
KeyOf(n) == CHOOSE m \in Notices : Alike(m, n) /\ \A l \in Notices : Alike(l, n) => m <= l
Keys == {KeyOf(n) : n \in Notices}
KeysOf(i) == Keys \cap NoticesOf(i)

BacktestInit ==
    /\ world \in Worlds
    /\ now = 0
    /\ last = 0
    /\ step = "bar"
    /\ qty = [i \in Instruments |-> 0]
    /\ basis = [i \in Instruments |-> {}]
    /\ quoted = [i \in Instruments |-> {}]
    /\ seen = {}
    /\ pending = [i \in Instruments |-> NoOrder]
    /\ applied = [i \in Instruments |-> 0]
    /\ remaining = [k \in Keys |-> world.recalls[k].qty]
    /\ over = [i \in Instruments |-> [s \in Slots |-> 0]]
    /\ kept = [i \in Instruments |-> [c \in Slots |-> [qty |-> 0, basis |-> {}]]]
    /\ paid = [i \in Instruments |-> [s \in Slots |-> <<>>]]
    /\ settled = [i \in Instruments |-> [c \in Closes |-> <<>>]]

\* An exception leaves run(): the rest of the run does not happen.
Halt ==
    /\ step' = "halted"
    /\ UNCHANGED <<world, now, last, qty, basis, quoted, seen, pending, applied,
                   remaining, over, kept, paid, settled>>

-----------------------------------------------------------------------------
(* (0a) The next close, and the carry of the interval that ends there      *)

NextBar ==
    /\ step = "bar"
    /\ \E c \in Grid :
         /\ c > now
         /\ \A d \in Grid : d > now => c <= d
         /\ now' = c
    /\ last' = now
    /\ step' = "actions"
    /\ UNCHANGED <<world, qty, basis, quoted, seen, pending, applied, remaining,
                   over, kept, paid, settled>>

\* No financing quote, or no borrow quote of an open short, covers the interval.
MissingQuote ==
    /\ step = "bar"
    /\ now # 0 /\ ~FinalClose(now)
    /\ Halt

\* No close is left: what is queued is counted as unfilled_final_bar.
EndRun ==
    /\ step = "bar"
    /\ now # 0 /\ FinalClose(now)
    /\ step' = "done"
    /\ pending' = [i \in Instruments |-> NoOrder]
    /\ UNCHANGED <<world, now, last, qty, basis, quoted, seen, applied, remaining,
                   over, kept, paid, settled>>

-----------------------------------------------------------------------------
(* (0b) The corporate actions that came due                                *)

Exposed(i) == qty[i] # 0 \/ pending[i] # NoOrder

\* The ex dates of splits that no conversion has reached yet.
DueSplits(i) == Splits(i, now - 1) \ Splits(i, applied[i])

\* Without a bar of this slot the price boundary cannot be verified: the first
\* split, and every event behind it, waits.
Defers(i) == Exposed(i) /\ now - 1 \notin world.bars[i] /\ DueSplits(i) # {}

\* The last slot whose events are applied now.
Reached(i) == IF Defers(i) THEN Min(DueSplits(i)) - 1 ELSE now - 1

DueDividends(i) == {e \in world.dividends[i] : applied[i] < e /\ e <= Reached(i)}

\* A split and a dividend on one ex date cannot be ordered while exposed; the
\* check comes before the one that defers.
MixedBoundary(i) ==
    /\ Exposed(i)
    /\ \E e \in DueSplits(i) \cap world.dividends[i] :
         Defers(i) => e = Min(DueSplits(i))

\* An exposed instrument whose split disagrees with the price move, or whose
\* dividend is out of proportion to the price, stops the run.
RefuseActions ==
    /\ step = "actions"
    /\ \E i \in Instruments :
         \/ MixedBoundary(i)
         \/ Exposed(i) /\ DueSplits(i) # {} /\ ~Defers(i)
         \/ qty[i] # 0 /\ DueDividends(i) # {}
    /\ Halt

\* A quantity times the product of the ratios of the splits of slots
\* applied[i] + 1 .. s.
Converted(i, q, s) == (q * world.units[i][s]) \div world.units[i][applied[i]]

\* The splits of those slots.
NewSplits(i, s) == {e \in DueSplits(i) : e <= s}

\* Mutant: the queued order keeps its pre-split quantity.
ConvertedOrder_not(i) == pending[i]

\* Positions and queued orders are multiplied by the ratio.
ConvertedOrder(i) ==
    IF pending[i] = NoOrder THEN NoOrder
    ELSE [pending[i] EXCEPT !.qty = Converted(i, @, Reached(i)),
                            !.basis = @ \cup NewSplits(i, Reached(i))]

\* Mutant: the order queued for the ex date's open shares in the dividend.
Entitled_exOpen(i, e) ==
    [qty |-> Converted(i, qty[i] + (IF pending[i] = NoOrder THEN 0 ELSE pending[i].qty), e),
     basis |-> basis[i] \cup NewSplits(i, e)]

\* What a dividend of ex date e is paid on: the position before the fills.
Entitled(i, e) ==
    [qty |-> Converted(i, qty[i], e), basis |-> basis[i] \cup NewSplits(i, e)]

CorporateActions ==
    /\ step = "actions"
    /\ \A i \in Instruments : ~MixedBoundary(i)
    /\ qty' = [i \in Instruments |-> Converted(i, qty[i], Reached(i))]
    /\ basis' = [i \in Instruments |-> basis[i] \cup NewSplits(i, Reached(i))]
    /\ quoted' = [i \in Instruments |->
                    IF Exposed(i) THEN quoted[i] \cup NewSplits(i, Reached(i)) ELSE quoted[i]]
    /\ pending' = [i \in Instruments |-> ConvertedOrder(i)]
    /\ paid' = [i \in Instruments |-> [e \in Slots |->
                  IF e \in DueDividends(i) /\ qty[i] # 0
                    THEN Append(paid[i][e], Entitled(i, e)) ELSE paid[i][e]]]
    /\ applied' = [i \in Instruments |-> Reached(i)]
    /\ step' = "fill"
    /\ UNCHANGED <<world, now, last, seen, remaining, over, kept, settled>>

-----------------------------------------------------------------------------
(* (0) The orders decided at the previous close meet the bar they open at  *)

\* execution_block_reason.
Blocked(i, s) ==
    \/ world.status[i][s] = "closed"
    \/ world.status[i][s] = "close_only" /\ ~pending[i].reduce

\* What may trade: nothing without a bar or through a block, else the whole order
\* or the lots that the participation caps and the liquidity of the bar leave.
Tradable(i) ==
    IF pending[i] = NoOrder \/ Blocked(i, last) \/ last \notin world.bars[i]
      THEN {0}
      ELSE {k \in 0 .. Abs(pending[i].qty) : k = Abs(pending[i].qty) \/ k % Lot = 0}

\* The signed quantity of an order that trades.
Signed(i, k) == IF pending[i] # NoOrder /\ pending[i].qty < 0 THEN -k ELSE k

\* Mutant: every key of the order takes the whole fill.
Allocated_each(k, n) == Smaller(remaining[k], n)

\* What the keys before k leave of a fill of n.
Left(k, n) ==
    Larger(n - SumFunctionOnSet(remaining, {m \in pending[world.recalls[k].iid].keys : m < k}), 0)

\* Mutant: a fill beyond the recall is taken off it.
Allocated_all(k, n) == Left(k, n)

\* What key k takes of a fill of n, the keys before it first.
Allocated(k, n) == Smaller(remaining[k], Left(k, n))

\* An order beyond the validity of the impact law, or a status nobody covers.
RefuseFill ==
    /\ step = "fill"
    /\ \E i \in Instruments : pending[i] # NoOrder
    /\ Halt

FillOrders ==
    /\ step = "fill"
    /\ \E take \in [Instruments -> 0 .. Max({0} \cup {Abs(pending[i].qty) :
                      i \in {j \in Instruments : pending[j] # NoOrder}})] :
         /\ \A i \in Instruments : take[i] \in Tradable(i)
         /\ qty' = [i \in Instruments |-> qty[i] + Signed(i, take[i])]
         /\ basis' = [i \in Instruments |->
                        IF qty[i] = 0 /\ take[i] # 0 THEN pending[i].basis ELSE basis[i]]
         /\ remaining' = [k \in Keys |->
              LET i == world.recalls[k].iid
              IN  IF pending[i] # NoOrder /\ k \in pending[i].keys
                    THEN remaining[k] - Allocated(k, take[i]) ELSE remaining[k]]
         /\ over' = [i \in Instruments |-> [s \in Slots |->
                       IF last <= s /\ s < now THEN qty[i] + Signed(i, take[i])
                                               ELSE over[i][s]]]
    /\ pending' = [i \in Instruments |-> NoOrder]
    /\ step' = "funding"
    /\ UNCHANGED <<world, now, last, quoted, seen, applied, kept, paid, settled>>

-----------------------------------------------------------------------------
(* (1) to (3) Funding, marks and dead instruments                          *)

\* Mutant: an event of the close itself waits for the next bar.
FundingDue_strict(i) == {c \in world.funding[i] : c < now /\ settled[i][c] = <<>>}

\* The events before the pointer are the ones already settled.
FundingDue(i) == {c \in world.funding[i] : c <= now /\ last < c}

SettleFunding ==
    /\ step = "funding"
    /\ settled' = [i \in Instruments |-> [c \in Closes |->
                     IF /\ c \in FundingDue(i)
                        /\ i \in seen \/ now - 1 \in world.bars[i]
                       THEN Append(settled[i][c], qty[i]) ELSE settled[i][c]]]
    /\ step' = "mark"
    /\ UNCHANGED <<world, now, last, qty, basis, quoted, seen, pending, applied,
                   remaining, over, kept, paid>>

\* The positions whose instrument has traded its last bar while others go on.
Ended(i) == ~FinalClose(now) /\ qty[i] # 0 /\ LastBarOf(i, now)

\* A history that ends for an instrument whose record says it is active.
RefuseExit ==
    /\ step = "mark"
    /\ \E i \in Instruments : Ended(i) /\ i \notin world.delisted
    /\ Halt

MarkBook ==
    /\ step = "mark"
    /\ \A i \in Instruments : Ended(i) => i \in world.delisted
    /\ seen' = seen \cup {i \in Instruments : now - 1 \in world.bars[i]}
    /\ quoted' = [i \in Instruments |->
                    IF now - 1 \in world.bars[i] THEN Splits(i, now - 1) ELSE quoted[i]]
    /\ qty' = [i \in Instruments |-> IF Ended(i) THEN 0 ELSE qty[i]]
    /\ kept' = [i \in Instruments |-> [c \in Slots |->
                  IF c < now THEN kept[i][c]
                  ELSE [qty |-> IF Ended(i) THEN 0 ELSE qty[i], basis |-> basis[i]]]]
    /\ step' = "decide"
    /\ UNCHANGED <<world, now, last, basis, pending, applied, remaining, over, paid,
                   settled>>

-----------------------------------------------------------------------------
(* (4) and (5) The strategy's orders and the recalls of lent shares        *)

\* Only an instrument with a bar at this close can be traded.
Decidable(i) == now - 1 \in world.bars[i]

\* The order that changes the position of i by d: the bands and a locate that
\* grants only part of a short may leave any smaller number of lots.
Target(i, d) ==
    IF d = 0 THEN NoOrder
    ELSE [qty |-> d, reduce |-> qty[i] # 0 /\ (d > 0) # (qty[i] > 0),
          basis |-> Splits(i, now - 1), keys |-> {}]

\* The lots that flatten the position, but for what is less than a lot.
Flatten(i) == IF qty[i] < 0 THEN Lots(-qty[i]) ELSE -Lots(qty[i])

\* What may be asked for in i: nothing, the flat position, or a change.
Changes(i) ==
    IF Decidable(i)
      THEN {0, Flatten(i)} \cup
             {d \in {n * Lot : n \in Deltas[i]} :
                Abs(qty[i] + d) <= Larger(MaxLots * Lot, Abs(qty[i]))}
      ELSE {0}

Decide ==
    /\ step = "decide"
    /\ \E d \in [Instruments -> UNION {Changes(i) : i \in Instruments}] :
         /\ \A i \in Instruments : d[i] \in Changes(i)
         /\ pending' = [i \in Instruments |-> Target(i, d[i])]
    /\ step' = "recalls"
    /\ UNCHANGED <<world, now, last, qty, basis, quoted, seen, applied, remaining,
                   over, kept, paid, settled>>

\* The notices of i that are known and whose key is not covered yet.
OpenRecalls(i) ==
    {n \in NoticesOf(i) : world.recalls[n].known <= now /\ remaining[KeyOf(n)] > 0}

\* The sum over the notices: a remainder that two of them share counts twice.
Recalled(i) == SumFunctionOnSet([n \in Notices |-> remaining[KeyOf(n)]], OpenRecalls(i))

\* The lots to buy: what is recalled of the short, or the strategy's larger purchase.
CoverQty(i) ==
    Lots(Larger(Smaller(Recalled(i), Short(qty[i])),
                IF pending[i] = NoOrder THEN 0 ELSE pending[i].qty))

\* The order that replaces the strategy's.
Cover(i) ==
    [qty |-> CoverQty(i), reduce |-> TRUE, basis |-> basis[i],
     keys |-> {KeyOf(n) : n \in OpenRecalls(i)}]

\* A recall lapses once nothing is short.
Lapses(k) ==
    k \in OpenRecalls(world.recalls[k].iid) /\ Short(qty[world.recalls[k].iid]) = 0

QueueRecalls ==
    /\ step = "recalls"
    /\ remaining' = [k \in Keys |-> IF Lapses(k) THEN 0 ELSE remaining[k]]
    /\ pending' = [i \in Instruments |->
                     IF OpenRecalls(i) # {} /\ Short(qty[i]) > 0 /\ CoverQty(i) > 0
                       THEN Cover(i) ELSE pending[i]]
    /\ step' = "bar"
    /\ UNCHANGED <<world, now, last, qty, basis, quoted, seen, applied, over, kept,
                   paid, settled>>

-----------------------------------------------------------------------------
BacktestNext ==
    \/ NextBar
    \/ MissingQuote
    \/ EndRun
    \/ RefuseActions
    \/ CorporateActions
    \/ RefuseFill
    \/ FillOrders
    \/ SettleFunding
    \/ RefuseExit
    \/ MarkBook
    \/ Decide
    \/ QueueRecalls

BacktestSpec == BacktestInit /\ [][BacktestNext]_btVars

-----------------------------------------------------------------------------
(* Properties                                                              *)

\* Every variable keeps the shape of the run's data.
BacktestTypeOK ==
    /\ world \in Worlds
    /\ now \in 0 .. Horizon
    /\ last \in 0 .. Horizon
    /\ step \in Steps
    /\ qty \in [Instruments -> Int]
    /\ basis \in [Instruments -> SUBSET Slots]
    /\ quoted \in [Instruments -> SUBSET Slots]
    /\ seen \subseteq Instruments
    /\ pending \in [Instruments -> Order \cup {NoOrder}]
    /\ applied \in [Instruments -> Slots]
    /\ remaining \in [Keys -> Nat]
    /\ over \in [Instruments -> [Slots -> Int]]
    /\ kept \in [Instruments -> [Slots -> [qty : Int, basis : SUBSET Slots]]]
    /\ paid \in [Instruments -> [Slots -> Seq([qty : Int, basis : SUBSET Slots])]]
    /\ settled \in [Instruments -> [Closes -> Seq(Int)]]

\* Pre-split shares never meet post-split ones: a position is valued at a close
\* quoted in its own basis, and an order trades on a bar of its own and of the
\* position's basis (the marking fix that the splits of engine.py are for).
CommonBasis ==
    \A i \in Instruments :
      /\ qty[i] # 0 => basis[i] = quoted[i]
      /\ step = "fill" /\ pending[i] # NoOrder /\ last \in world.bars[i] =>
           /\ pending[i].basis = Splits(i, last)
           /\ qty[i] # 0 => basis[i] = Splits(i, last)

\* No position is left behind by its market: whenever the loop goes on after the
\* marks, an open position has a later bar to trade on, or the run is over
\* (section (3) of the loop: a dead instrument is closed, or refused).
NeverStranded ==
    \A i \in Instruments :
      step \in {"decide", "recalls", "bar"} /\ qty[i] # 0 =>
        FinalClose(now) \/ \E s \in world.bars[i] : s >= now

\* Every dividend the run has passed is paid once, on the position held before
\* the ex date, counted in the shares the dividend is declared for; and nothing
\* is paid to a position opened at the ex date's open.
DividendsFollowHoldings ==
    \A i \in Instruments : \A e \in world.dividends[i] \ {0} :
      LET held == kept[i][e]
      IN  e <= applied[i] =>
            IF held.qty = 0 THEN paid[i][e] = <<>>
            ELSE /\ Len(paid[i][e]) = 1
                 /\ paid[i][e][1].basis = Splits(i, e)
                 /\ paid[i][e][1].qty * world.units[i][Max({0} \cup held.basis)] =
                      held.qty * world.units[i][e]

\* Every funding event the run has passed is settled once, on the position that
\* was held over the slot the event ends.
FundingFollowsHoldings ==
    \A i \in Instruments : \A c \in world.funding[i] :
      /\ \/ c <= last /\ step \in {"actions", "fill", "funding", "mark"}
         \/ c <= now /\ step \in {"mark", "decide", "recalls", "bar", "done"}
      /\ over[i][c - 1] # 0
      => settled[i][c] = <<over[i][c - 1]>>

\* What is recorded as recalled of an instrument shrinks by no more than what is
\* bought, unless nothing is short.
ShrinksByPurchases(i) ==
    LET owed == SumFunctionOnSet(remaining, KeysOf(i))
        left == SumFunctionOnSet(remaining', KeysOf(i))
    IN  left < owed => Short(qty[i]) = 0 \/ owed - left <= qty'[i] - qty[i]

\* What the engine has recorded as recalled is owed until it is bought back: a
\* purchase covers no more of the remainders than it buys, so notices of different
\* keys never share one lot, however the order covering them was replaced, converted,
\* capped or dropped (notices of one key are one to recall_remaining).
ObligationsShrinkByPurchases ==
    [][\A i \in Instruments : ShrinksByPurchases(i)]_btVars

=============================================================================
