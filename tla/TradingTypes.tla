--------------------------- MODULE TradingTypes ---------------------------
(***************************************************************************)
(* What the paper trading store, the paper broker, the order manager, the  *)
(* reconciler and the live loop share: time, bars, order identities and    *)
(* the status vocabularies.  Quantities are signed integers of lots (the   *)
(* side and the quantity of the code in one number); prices, fees and      *)
(* marks are left out.                                                     *)
(***************************************************************************)
EXTENDS Integers, Sequences, FiniteSetsExt, Functions

CONSTANTS
    Instruments,    \* tradable instruments
    Horizon,        \* bound: the last instant of the model
    BarMs           \* length of one bar, in instants

ASSUME TypesAssumption ==
    /\ Horizon \in Nat
    /\ BarMs \in Nat \ {0}

Time == 0 .. Horizon

\* The open of the bar that contains instant t, and of the one after it.
floor_bar(t) == t - (t % BarMs)
next_bar_open(t) == floor_bar(t) + BarMs

\* A cycle is named by the open of its bar.
Bars == {t \in Time : t % BarMs = 0}

\* The legs weights_to_orders gives an instrument in one cycle: one order for
\* an adjustment in the same direction, or a close and an open for a flip.
Legs == {"rb", "close", "open"}

\* The deterministic client_order_id rb-{cycle_ts}-{iid}[-close|-open].
Coid == [cycle : Bars, iid : Instruments, leg : Legs]

\* An OrderRequest: its id and its signed quantity in lots.
OrderRequest == [coid : Coid, qty : Int]

CycleStatus == {"absent", "running", "ok", "skipped", "failed", "halted"}
TerminalCycle == {"ok", "skipped", "failed", "halted"}

OrderStatus == {"absent", "NEW", "SUBMITTED", "PARTIAL", "FILLED", "REJECTED"}
TERMINAL == {"FILLED", "REJECTED"}
NON_TERMINAL == {"NEW", "SUBMITTED", "PARTIAL"}

AckStatus == {"none", "accepted", "rejected"}

Abs(n) == IF n < 0 THEN -n ELSE n
SameSign(m, n) == (m > 0) <=> (n > 0)

\* The signed lots a per-order fill log nets to in one instrument.
Lots(rows) == SumFunction(rows)
Net(log, i) ==
    SumFunctionOnSet([c \in Coid |-> Lots(log[c])], {c \in Coid : c.iid = i})

NoFills == [c \in Coid |-> <<>>]
NoAcks == [c \in Coid |-> "none"]
Flat == [i \in Instruments |-> 0]

=============================================================================
