--------------------------- MODULE TradingStore ---------------------------
(***************************************************************************)
(* live/store.py: the durable SQLite record of the paper loop.  Every      *)
(* method below is one transaction of the code, so one atomic step here.   *)
(* Rows that the loop never reads back (ladder_state, last_targets, audits,*)
(* the blobs older than the latest) are left out.                          *)
(***************************************************************************)
EXTENDS TradingTypes

VARIABLES
    cycles,               \* cycles table: status per bar ("absent": no row)
    orders,               \* orders table: one row per client_order_id
    fills,                \* fills table: the signed quantities booked per order
    positions_snapshots,  \* positions_snapshots table: positions per key
    equity_curve,         \* keys of the equity_curve table
    paper_state           \* latest row of the paper_state table

storeVars == <<cycles, orders, fills, positions_snapshots, equity_curve,
               paper_state>>

\* No paper_state row yet.
NoBlob == -1

OrderRow == [status : OrderStatus, qty : Int, filled : Int]
NoOrderRow == [status |-> "absent", qty |-> 0, filled |-> 0]

PaperState == [cycle_ts : Bars \cup {NoBlob},
               acks : [Coid -> AckStatus],
               fills : [Coid -> Seq(Int)],
               positions : [Instruments -> Int]]

StoreTypeOK ==
    /\ cycles \in [Bars -> CycleStatus]
    /\ orders \in [Coid -> OrderRow]
    /\ fills \in [Coid -> Seq(Int)]
    /\ positions_snapshots \in [Time -> [Instruments -> Int]]
    /\ equity_curve \subseteq Time
    /\ paper_state \in PaperState

StoreInit ==
    /\ cycles = [b \in Bars |-> "absent"]
    /\ orders = [c \in Coid |-> NoOrderRow]
    /\ fills = NoFills
    /\ positions_snapshots = [t \in Time |-> Flat]
    /\ equity_curve = {}
    /\ paper_state = [cycle_ts |-> NoBlob, acks |-> NoAcks, fills |-> NoFills,
                      positions |-> Flat]

-----------------------------------------------------------------------------
(* Cycles                                                                  *)

\* Mutant: a bar that did not end 'ok' may be tried again.
MayProceed_retries(b) == cycles[b] # "ok"

\* What start_cycle returns: the row is new, or it is still 'running'.
MayProceed(b) == cycles[b] \in {"absent", "running"}

\* INSERT ... ON CONFLICT DO NOTHING.
start_cycle(b) ==
    /\ cycles' = [cycles EXCEPT ![b] = IF @ = "absent" THEN "running" ELSE @]
    /\ UNCHANGED <<orders, fills, positions_snapshots, equity_curve, paper_state>>

\* An unconditional UPDATE of an existing row.
finish_cycle(b, status) ==
    /\ cycles[b] # "absent"
    /\ cycles' = [cycles EXCEPT ![b] = status]
    /\ UNCHANGED <<orders, fills, positions_snapshots, equity_curve, paper_state>>

running_cycles == {b \in Bars : cycles[b] = "running"}

-----------------------------------------------------------------------------
(* Orders and fills                                                        *)

\* INSERT status NEW ... ON CONFLICT DO NOTHING.
record_intent(o) ==
    /\ orders' = [orders EXCEPT ![o.coid] =
                    IF @.status = "absent"
                    THEN [status |-> "NEW", qty |-> o.qty, filled |-> 0]
                    ELSE @]
    /\ UNCHANGED <<cycles, fills, positions_snapshots, equity_curve, paper_state>>

\* _set_order_status: raises when there is no row.
set_order_status(c, status) ==
    /\ orders[c].status # "absent"
    /\ orders' = [orders EXCEPT ![c].status = status]
    /\ UNCHANGED <<cycles, fills, positions_snapshots, equity_curve, paper_state>>

\* Mutant: the broker's own word for a reject is stored.
mark_rejected_verbatim(c) == set_order_status(c, "rejected")

mark_submitted(c) == set_order_status(c, "SUBMITTED")
mark_rejected(c) == set_order_status(c, "REJECTED")

\* Mutant: the fill row drops the side of the order.
mark_filled_unsigned(c, q) ==
    /\ orders[c].status # "absent"
    /\ fills' = [fills EXCEPT ![c] = Append(@, Abs(q))]
    /\ orders' = [orders EXCEPT ![c].filled = @ + Abs(q),
                               ![c].status = "FILLED"]
    /\ UNCHANGED <<cycles, positions_snapshots, equity_curve, paper_state>>

\* One transaction: the fill row and the order's running quantity and status.
mark_filled(c, q) ==
    /\ orders[c].status # "absent"
    /\ fills' = [fills EXCEPT ![c] = Append(@, q)]
    /\ LET total == orders[c].filled + Abs(q)
       IN  orders' = [orders EXCEPT ![c] =
                        [status |-> IF total >= Abs(@.qty) THEN "FILLED" ELSE "PARTIAL",
                         qty |-> @.qty,
                         filled |-> total]]
    /\ UNCHANGED <<cycles, positions_snapshots, equity_curve, paper_state>>

open_intents == {c \in Coid : orders[c].status \in NON_TERMINAL}

\* The orders with a recorded fill of time ts or later; a fill carries its
\* cycle's bar open.
fills_since(ts) == {c \in Coid : c.cycle >= ts /\ fills[c] # <<>>}

-----------------------------------------------------------------------------
(* Snapshots                                                               *)

\* DELETE then INSERT under one key.
snapshot_positions(ts, held) ==
    /\ positions_snapshots' = [positions_snapshots EXCEPT ![ts] = held]
    /\ UNCHANGED <<cycles, orders, fills, equity_curve, paper_state>>

\* An upsert under one key.
snapshot_equity(ts) ==
    /\ equity_curve' = equity_curve \cup {ts}
    /\ UNCHANGED <<cycles, orders, fills, positions_snapshots, paper_state>>

\* An upsert; only the row of the greatest cycle_ts is ever read back.
save_paper_state(ts, blob) ==
    /\ paper_state' = IF ts >= paper_state.cycle_ts THEN blob ELSE paper_state
    /\ UNCHANGED <<cycles, orders, fills, positions_snapshots, equity_curve>>

=============================================================================
