------------------------- MODULE LiveLoopProperties -------------------------
(***************************************************************************)
(* What makes the recoverable paper loop correct.  Each property names the *)
(* behaviour of the code it is about.                                      *)
(***************************************************************************)
EXTENDS LiveLoop

-----------------------------------------------------------------------------
(* Invariants                                                              *)

\* Whatever the broker, or a saved broker blob, knows of was recorded in the
\* store first: order_manager.place writes the intent before the submit, so
\* recovery can look every broker order up (place, steps 2 and 3).
PersistBeforeSubmit ==
    \A c \in Coid :
        (acks[c] # "none" \/ paper_state.acks[c] # "none")
            => orders[c].status # "absent"

\* No order executes twice, in the store or at the broker, across crashes,
\* replays, retries and in-flight resolution; and the order row's filled
\* quantity is that of its fill row and never beyond the order.
ExecutedOnce ==
    \A c \in Coid :
        /\ Len(fills[c]) <= 1
        /\ Len(broker_fills[c]) <= 1
        /\ orders[c].filled = IF fills[c] = <<>> THEN 0 ELSE Abs(fills[c][1])
        /\ orders[c].filled <= Abs(orders[c].qty)

\* The store and the broker never disagree on what an order executed
\* (apply_recorded_fill on boot, mark_filled after a submit).
LogsAgree ==
    \A c \in Coid :
        fills[c] # <<>> /\ broker_fills[c] # <<>> => fills[c] = broker_fills[c]

\* An order with an execution, recorded or held by a broker that recovery can
\* restore, is never REJECTED (reconcile.resolve_in_flight, "never downgraded").
NeverRejectAFill ==
    \A c \in Coid :
        orders[c].status = "REJECTED" =>
            /\ fills[c] = <<>>
            /\ broker_fills[c] = <<>>
            /\ paper_state.fills[c] = <<>>

\* No order of the bar waits for its result.
Settled(b) ==
    \A c \in Coid : c.cycle = b => orders[c].status \notin {"NEW", "SUBMITTED"}

DurableAt(b) == paper_state.cycle_ts >= b /\ b \in equity_curve /\ Settled(b)

\* A cycle is stamped 'ok' only when its book survives the process: the blob
\* and the equity row of that bar are durable, and none of its orders is left
\* without a result (_run_cycle_body step 7, before finish_cycle).
OkCycleIsDurable == \A b \in Bars : cycles[b] = "ok" => DurableAt(b)

-----------------------------------------------------------------------------
(* Action properties                                                       *)

\* A cycle that reached a terminal status keeps it: finish_cycle is an
\* unconditional UPDATE, and only the start_cycle gate, the deadline and the
\* order of recovery keep a later process from stamping a finished bar again.
TerminalStays ==
    \A b \in Bars : cycles[b] \in TerminalCycle => cycles'[b] = cycles[b]

TerminalCycleSticks == [][TerminalStays]_vars

\* A bar is never traded late: an order is first recorded under its own bar's
\* running cycle, and while no cycle of a later bar exists ("missed cycles are
\* not back-filled", run_forever and recover_on_boot).
RecordedInTime ==
    \A c \in Coid :
        orders[c].status = "absent" /\ orders'[c].status # "absent" =>
            /\ cycles[c.cycle] = "running"
            /\ \A b \in Bars : b > c.cycle => cycles[b] = "absent"

NeverBackfilled == [][RecordedInTime]_vars

\* When recovery lets the loop trade, the rebuilt broker is the store: every
\* recorded fill is at the broker and every broker fill is recorded, once, and
\* the positions are their net (recover_on_boot steps 1, 2 and 5).
BootEnds == pc \in Booting /\ pc' \in {"start", "idle"}

FillsAreRebuilt == BootEnds => broker_fills = fills

ReadyMeansRebuilt ==
    /\ FillsAreRebuilt
    /\ BootEnds => \A i \in Instruments : positions[i] = Net(fills, i)

RecoveredBookIsStoreBook == [][ReadyMeansRebuilt]_vars

-----------------------------------------------------------------------------
(* Refinement                                                              *)

\* The outcome of an order as the durable tables show it.
RecordedOutcome ==
    [c \in Coid |->
        [state |-> IF orders[c].status = "absent" THEN "none"
                   ELSE IF fills[c] # <<>> THEN "executed"
                   ELSE IF orders[c].status = "REJECTED" THEN "void"
                   ELSE "open",
         qty |-> orders[c].qty,
         lots |-> fills[c]]]

Outcomes == INSTANCE OrderOutcomes WITH Orders <- Coid, outcome <- RecordedOutcome

\* The store keeps the promise of OrderOutcomes through every crash, replay,
\* resolution and PARTIAL-to-SUBMITTED rewrite of an order row.
KeepsItsPromises == Outcomes!Spec

-----------------------------------------------------------------------------
(* Liveness                                                                *)

\* The supervisor (launchd KeepAlive, or the hourly trade.sh) restarts the
\* process, and a process that can take a step takes it.  Crashes, exceptions,
\* the operator and the clock are under no obligation.
FairSpec == Spec /\ WF_vars(BootStep) /\ WF_vars(CycleStep)

\* Under --once no cycle stays 'running': the process that opened it stamps
\* it, or the next boot does (_fail_running_cycles).
CycleIsStamped ==
    \A b \in Bars : cycles[b] = "running" ~> cycles[b] \in TerminalCycle

\* Under --once an intent is not left in doubt: the batch or the next boot's
\* resolve_in_flight gives it a result, a partial fill being one.
IntentIsResolved ==
    \A c \in Coid :
        orders[c].status \in {"NEW", "SUBMITTED"}
            ~> orders[c].status \in TERMINAL \cup {"PARTIAL"}

\* Recovery does not halt for ever: whatever state a crash left, some later
\* boot opens the gate.
RecoveryCompletes == pc = "replay" ~> pc \in {"start", "idle"}

=============================================================================
