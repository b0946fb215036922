------------------------- MODULE LiveLoopInvariant -------------------------
(***************************************************************************)
(* The inductive invariant behind the safety properties of the live loop.  *)
(***************************************************************************)
EXTENDS LiveLoopProperties

\* The store alone: at most one fill per order, within the order, and the row
\* shows it.
StoreInv ==
    \A c \in Coid :
        /\ Len(fills[c]) <= 1
        /\ orders[c].filled = IF fills[c] = <<>> THEN 0 ELSE Abs(fills[c][1])
        /\ fills[c] # <<>> =>
             /\ orders[c].status \in {"SUBMITTED", "PARTIAL", "FILLED"}
             /\ fills[c][1] \in Fillable(orders[c].qty)
        /\ orders[c].status \in {"PARTIAL", "FILLED"} => fills[c] # <<>>

\* One order in a broker book (the live one, or the saved one) against its
\* order row and its recorded fills.
BookOk(ack, lots, row, recorded) ==
    /\ ack = "accepted" <=> lots # <<>>
    /\ Len(lots) <= 1
    /\ lots # <<>> => lots[1] \in Fillable(row.qty)
    /\ ack # "none" => row.status # "absent"
    /\ ack = "rejected" => recorded = <<>>
    /\ lots # <<>> => row.status # "REJECTED"
    /\ lots # <<>> /\ recorded # <<>> => lots = recorded

BookInv(a, f) == \A c \in Coid : BookOk(a[c], f[c], orders[c], fills[c])

\* What memory holds: the blob at least; during boot nothing that is not in
\* the blob or the store; after the replay every recorded fill.
MemoryInv ==
    \A c \in Coid :
        /\ pc # "down" /\ paper_state.acks[c] # "none" =>
             acks[c] = paper_state.acks[c] /\ broker_fills[c] = paper_state.fills[c]
        /\ pc \in Booting /\ acks[c] # "none" =>
             paper_state.acks[c] # "none" \/ fills[c] # <<>>
        /\ pc \notin {"down", "replay"} /\ fills[c] # <<>> => acks[c] = "accepted"

\* The watermark is safe: a fill of the blob's bar or an earlier one is in it.
WatermarkInv ==
    \A c \in Coid :
        fills[c] # <<>> /\ c.cycle <= paper_state.cycle_ts
            => paper_state.acks[c] = "accepted"

Opened(b) == cycles[b] # "absent"

\* Bars and the clock: no bar is opened early, a cycle is the latest bar, its
\* row stays 'running' and the blob older until the cycle persists, and the
\* deadline lies beyond every opened bar.
ClockInv ==
    /\ \A b \in Bars : Opened(b) => b <= now
    /\ paper_state.cycle_ts # NoBlob => Opened(paper_state.cycle_ts)
    /\ \A c \in Coid : orders[c].status # "absent" => Opened(c.cycle)
    /\ pc \in InCycle =>
         cycle_ts <= now /\ \A b \in Bars : Opened(b) => b <= cycle_ts
    /\ pc = "start" => cycles[cycle_ts] # "running"
    /\ pc \in InCycle \ {"start"} => cycles[cycle_ts] = "running"
    /\ pc \in {"gate", "body", "place", "persist_positions", "persist_equity",
               "persist_blob"} => paper_state.cycle_ts < cycle_ts
    /\ pc \in {"probe", "sync_positions", "resolve"} => running_cycles = {}
    /\ pc = "idle" => \A b \in Bars : Opened(b) => b + BarMs <= deadline

\* place(): the orders of the batch are new and distinct, and the order in
\* hand is where om_step says.
PlaceInv ==
    /\ pc \in {"gate", "body"} =>
         \A c \in Coid : c.cycle = cycle_ts => orders[c].status = "absent"
    /\ pc = "place" =>
         /\ \A o \in batch : /\ o.coid.cycle = cycle_ts
                             /\ o.qty # 0
                             /\ orders[o.coid].status = "absent"
                             /\ \A p \in batch : o.coid = p.coid => o = p
         /\ om_step # "next" =>
              /\ order \in OrderRequest
              /\ order.coid.cycle = cycle_ts
              /\ order.qty # 0
              /\ orders[order.coid].qty = order.qty
              /\ orders[order.coid].status \in {"NEW", "SUBMITTED"}
              /\ fills[order.coid] = <<>>
         /\ om_step = "submit" =>
              booked = 0 /\ acks[order.coid] = "none"
         /\ om_step = "mark_rejected" => acks[order.coid] = "rejected"
         /\ om_step \in {"mark_submitted", "mark_filled"} =>
              booked # 0 /\ broker_fills[order.coid] = <<booked>>

\* What makes an 'ok' cycle durable, step by step: the batch settles, then the
\* equity row and the blob follow, and only that path ends with outcome 'ok'.
DurableInv ==
    /\ OkCycleIsDurable
    /\ pc = "place" =>
         \A c \in Coid :
            c.cycle = cycle_ts /\ orders[c].status \in {"NEW", "SUBMITTED"}
                => om_step # "next" /\ c = order.coid
    /\ pc \in {"persist_positions", "persist_equity", "persist_blob"} => Settled(cycle_ts)
    /\ pc = "persist_blob" => cycle_ts \in equity_curve
    /\ pc = "finish" /\ outcome = "ok" => DurableAt(cycle_ts)
    /\ pc = "finish_outside" => outcome # "ok"

LoopInv ==
    /\ StoreInv
    /\ BookInv(acks, broker_fills)
    /\ BookInv(paper_state.acks, paper_state.fills)
    /\ MemoryInv
    /\ WatermarkInv
    /\ ClockInv
    /\ PlaceInv
    /\ DurableInv

IInv == TypeOK /\ LoopInv

\* A broker book, the live one and the saved one, holds what its fills add up
\* to: book_fill moves the two together, and a restore replaces both.
NetInv ==
    \A i \in Instruments :
        /\ positions[i] = Net(broker_fills, i)
        /\ paper_state.positions[i] = Net(paper_state.fills, i)

=============================================================================
