---------------------------- MODULE PaperBroker ----------------------------
(***************************************************************************)
(* execution/paper.py: the paper account.  It lives in the memory of the   *)
(* trading process and survives only as the blob the loop saves.  A MARKET *)
(* order is filled inside submit by walking the order book: not at all,    *)
(* partly or completely, so an order has at most one fill.                 *)
(***************************************************************************)
EXTENDS TradingTypes

VARIABLES
    acks,           \* PaperState.acks: the idempotency key of submit
    broker_fills,   \* PaperState.fills, grouped by client_order_id
    positions       \* PaperState.positions, in signed lots

brokerVars == <<acks, broker_fills, positions>>

BrokerTypeOK ==
    /\ acks \in [Coid -> AckStatus]
    /\ broker_fills \in [Coid -> Seq(Int)]
    /\ positions \in [Instruments -> Int]

\* A broker constructed without a state, as paper_cmds builds it.
Untouched ==
    /\ acks = NoAcks
    /\ broker_fills = NoFills
    /\ positions = Flat

Reset ==
    /\ acks' = NoAcks
    /\ broker_fills' = NoFills
    /\ positions' = Flat

\* _restore_paper_state: the whole book is replaced by the blob.
restore(blob) ==
    /\ acks' = blob.acks
    /\ broker_fills' = blob.fills
    /\ positions' = blob.positions

\* The blob snapshot_state gives the store.
snapshot_state(ts) ==
    [cycle_ts |-> ts, acks |-> acks, fills |-> broker_fills, positions |-> positions]

\* Book one execution of q signed lots: ack first, then fill and position.
book_fill(c, q) ==
    /\ acks' = [acks EXCEPT ![c] = "accepted"]
    /\ broker_fills' = [broker_fills EXCEPT ![c] = Append(@, q)]
    /\ positions' = [positions EXCEPT ![c.iid] = @ + q]

\* What walk_book can fill of an order of qty signed lots.
Fillable(qty) == {q \in -Abs(qty) .. Abs(qty) : q # 0 /\ SameSign(q, qty)}

\* Mutant: a known id executes once more.
submit_known_refills(c) == acks[c] = "accepted" /\ book_fill(c, broker_fills[c][1])

\* submit of a known id: the prior ack, and no second fill.
submit_known(c) == acks[c] # "none" /\ UNCHANGED brokerVars

\* submit against an empty or exhausted ladder.
submit_rejected(c) ==
    /\ acks[c] = "none"
    /\ acks' = [acks EXCEPT ![c] = "rejected"]
    /\ UNCHANGED <<broker_fills, positions>>

\* submit that executes q of the order.
submit_filled(o, q) ==
    /\ acks[o.coid] = "none"
    /\ q \in Fillable(o.qty)
    /\ book_fill(o.coid, q)

\* apply_recorded_fill: returns True.  A known id is a no-op.
apply_recorded_fill(c, q) == acks[c] = "none" /\ book_fill(c, q)

=============================================================================
