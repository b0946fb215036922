------------------------------ MODULE LiveLoop ------------------------------
(***************************************************************************)
(* live/loop.py with cli/paper_cmds.py: the trading process.  It boots     *)
(* (restore, replay, fail what was running, reconcile), then runs cycles:  *)
(* one and exit (--once) or one per bar (--forever).  The store outlives   *)
(* the process; the broker, the batch and the program counter do not.      *)
(***************************************************************************)
EXTENDS OrderManager, Reconciler

CONSTANTS
    Once,           \* TRUE: af paper run --once, FALSE: --forever
    Grace,          \* cycle_grace_s, in instants
    Targets,        \* the signed lots the strategy may want in an instrument
    MaxCrashes,     \* bound: how many times the process dies
    MaxErrors       \* bound: how many times a call raises an exception

ASSUME LoopAssumption ==
    /\ Once \in BOOLEAN
    /\ Grace \in Nat
    /\ Targets \subseteq Int
    /\ MaxCrashes \in Nat
    /\ MaxErrors \in Nat

VARIABLES
    pc,             \* where the process stands
    cycle_ts,       \* the bar of the current cycle
    outcome,        \* the status finish_cycle is about to stamp
    equity_drift,   \* the equity tier this boot's comparisons read
    deadline,       \* run_forever's deadline
    kill,           \* the KILL sentinel file exists
    now,            \* the wall clock
    crashes,        \* deaths so far
    errors          \* exceptions so far

procVars == <<pc, cycle_ts, outcome, equity_drift, deadline>>
envVars == <<kill, now, crashes, errors>>
vars == <<storeVars, brokerVars, omVars, procVars, envVars>>

Booting == {"replay", "fail_running", "probe", "sync_positions", "resolve"}
InCycle == {"start", "gate", "body", "place", "persist_positions",
            "persist_equity", "persist_blob", "finish", "finish_outside"}
Pcs == {"down", "idle"} \cup Booting \cup InCycle

LoopTypeOK ==
    /\ pc \in Pcs
    /\ cycle_ts \in Bars
    /\ outcome \in TerminalCycle
    /\ equity_drift \in EquityStatus
    /\ deadline \in Nat
    /\ kill \in BOOLEAN
    /\ now \in Time
    /\ crashes \in 0 .. MaxCrashes
    /\ errors \in 0 .. MaxErrors

TypeOK == StoreTypeOK /\ BrokerTypeOK /\ OmTypeOK /\ LoopTypeOK

Init ==
    /\ StoreInit
    /\ Untouched
    /\ OmIdle
    /\ pc = "down"
    /\ cycle_ts = 0
    /\ outcome = "ok"
    /\ equity_drift = "ok"
    /\ deadline = 0
    /\ kill = FALSE
    /\ now = 0
    /\ crashes = 0
    /\ errors = 0

next_deadline(t) == next_bar_open(t) + Grace

\* The process is gone and its memory with it.
Die ==
    /\ pc' = "down"
    /\ cycle_ts' = 0
    /\ outcome' = "ok"
    /\ equity_drift' = "ok"
    /\ deadline' = 0
    /\ Reset
    /\ OmReset

Goto(there) ==
    pc' = there /\ UNCHANGED <<cycle_ts, outcome, equity_drift, deadline>>

-----------------------------------------------------------------------------
(* recover_on_boot                                                         *)

Boot ==
    /\ pc = "down"
    /\ restore(paper_state)
    /\ Goto("replay")
    /\ UNCHANGED <<storeVars, omVars, envVars>>

\* Fills newer than the restored blob that the broker has not acknowledged.
ToReplay ==
    {c \in fills_since(paper_state.cycle_ts + 1) : acks[c] = "none"}

\* _replay_recorded_fills: a later row of an order finds its id acknowledged.
ReplayFill(c) ==
    /\ pc = "replay"
    /\ c \in ToReplay
    /\ apply_recorded_fill(c, fills[c][1])
    /\ UNCHANGED <<storeVars, omVars, procVars, envVars>>

\* The replay is over; _recover_submitted_via_fetch_order finds nothing,
\* PaperBroker.fetch_order being None.
ReplayDone ==
    /\ pc = "replay"
    /\ ToReplay = {}
    /\ Goto("fail_running")
    /\ UNCHANGED <<storeVars, brokerVars, omVars, envVars>>

FailRunningCycle(b) ==
    /\ pc = "fail_running"
    /\ b \in running_cycles
    /\ finish_cycle(b, "failed")
    /\ UNCHANGED <<brokerVars, omVars, procVars, envVars>>

\* Mutant: the loop over the running cycles may stop early.
FailRunningDone_early ==
    /\ pc = "fail_running"
    /\ Goto("probe")
    /\ UNCHANGED <<storeVars, brokerVars, omVars, envVars>>

FailRunningDone ==
    /\ pc = "fail_running"
    /\ running_cycles = {}
    /\ Goto("probe")
    /\ UNCHANGED <<storeVars, brokerVars, omVars, envVars>>

\* _is_fresh_boot.  A restored blob, a replayed fill or a position all show
\* in the broker or in paper_state.
FreshBoot ==
    /\ paper_state.cycle_ts = NoBlob
    /\ equity_curve = {}
    /\ open_intents = {}
    /\ broker_fills = NoFills
    /\ positions = Flat

\* Mutant: the stored book is compared instead of the broker's.
Backed_book == \A i \in Adoptions : Net(fills, i) = BookPositions[i]

\* _adoptions_backed_by_store_fills.
Backed == \A i \in Adoptions : Net(fills, i) = positions[i]

\* Boot is over: --once runs the cycle of the current bar at once, run_forever
\* waits for the next one.
BecomeReady ==
    /\ pc' = IF Once THEN "start" ELSE "idle"
    /\ \E b \in Bars : b = floor_bar(now) /\ cycle_ts' = b
    /\ deadline' = next_deadline(now)
    /\ UNCHANGED <<outcome, equity_drift>>

ReadyFresh ==
    /\ pc = "probe"
    /\ FreshBoot
    /\ BecomeReady
    /\ UNCHANGED <<storeVars, brokerVars, omVars, envVars>>

\* classify says ok, or the adoption is refused: nothing is written.
ProbeOnly ==
    /\ pc = "probe"
    /\ ~FreshBoot
    /\ equity_drift' \in PossibleDrift
    /\ ReportOk(equity_drift') \/ ~Backed
    /\ pc' = "resolve"
    /\ UNCHANGED <<cycle_ts, outcome, deadline>>
    /\ UNCHANGED <<storeVars, brokerVars, omVars, envVars>>

\* _sync_book_snapshot_after_recovery adopts the broker's book, keyed at now:
\* first the equity row ...
SyncEquity ==
    /\ pc = "probe"
    /\ ~FreshBoot
    /\ equity_drift' \in PossibleDrift
    /\ ~ReportOk(equity_drift') /\ Backed
    /\ snapshot_equity(now)
    /\ pc' = "sync_positions"
    /\ UNCHANGED <<cycle_ts, outcome, deadline>>
    /\ UNCHANGED <<brokerVars, omVars, envVars>>

\* ... then the positions.  The row carries the mark of this very instant.
SyncPositions ==
    /\ pc = "sync_positions"
    /\ snapshot_positions(now, positions)
    /\ equity_drift' = "ok"
    /\ pc' = "resolve"
    /\ UNCHANGED <<cycle_ts, outcome, deadline>>
    /\ UNCHANGED <<brokerVars, omVars, envVars>>

ResolveIntent(c) ==
    /\ pc = "resolve"
    /\ IngestFill(c) \/ RejectIntent(c)
    /\ UNCHANGED <<brokerVars, omVars, procVars, envVars>>

\* The gate: reconcile raises ReconciliationError unless the report is ok.
GateOpens ==
    /\ pc = "resolve"
    /\ AllResolved
    /\ ReportOk(equity_drift)
    /\ BecomeReady
    /\ UNCHANGED <<storeVars, brokerVars, omVars, envVars>>

GateHalts ==
    /\ pc = "resolve"
    /\ AllResolved
    /\ ~ReportOk(equity_drift)
    /\ Die
    /\ UNCHANGED <<storeVars, envVars>>

-----------------------------------------------------------------------------
(* run_forever and run_cycle                                               *)

\* Mutant: the bars slept through are made up for.
Wake_backfills ==
    /\ pc = "idle"
    /\ now >= deadline
    /\ ~kill
    /\ \E b \in Bars : b <= now /\ MayProceed(b) /\ cycle_ts' = b
    /\ pc' = "start"
    /\ UNCHANGED <<outcome, equity_drift, deadline>>
    /\ UNCHANGED <<storeVars, brokerVars, omVars, envVars>>

\* The deadline passed and the sentinel is absent: the current bar's cycle.
Wake ==
    /\ pc = "idle"
    /\ now >= deadline
    /\ ~kill
    /\ \E b \in Bars : b = floor_bar(now) /\ cycle_ts' = b
    /\ pc' = "start"
    /\ UNCHANGED <<outcome, equity_drift, deadline>>
    /\ UNCHANGED <<storeVars, brokerVars, omVars, envVars>>

\* With the sentinel present the loop only ticks, and the deadline moves on.
WaitKilled ==
    /\ pc = "idle"
    /\ kill
    /\ deadline # next_deadline(now)
    /\ deadline' = next_deadline(now)
    /\ UNCHANGED <<pc, cycle_ts, outcome, equity_drift>>
    /\ UNCHANGED <<storeVars, brokerVars, omVars, envVars>>

\* run_cycle returns, or an exception escapes it: --once exits, run_forever
\* goes on to the next deadline.
EndCycle ==
    IF Once THEN Die
    ELSE /\ pc' = "idle"
         /\ deadline' = next_deadline(now)
         /\ OmReset
         /\ UNCHANGED <<cycle_ts, outcome, equity_drift, brokerVars>>

\* Step 0: the idempotency gate.
StartCycle ==
    /\ pc = "start"
    /\ MayProceed(cycle_ts)
    /\ start_cycle(cycle_ts)
    /\ Goto("gate")
    /\ UNCHANGED <<brokerVars, omVars, envVars>>

SkipTerminal ==
    /\ pc = "start"
    /\ ~MayProceed(cycle_ts)
    /\ EndCycle
    /\ UNCHANGED <<storeVars, envVars>>

\* The only look at the sentinel inside a cycle; it precedes the try block.
KillGate ==
    /\ pc = "gate"
    /\ IF kill
       THEN pc' = "finish_outside" /\ outcome' = "skipped"
       ELSE pc' = "body" /\ UNCHANGED outcome
    /\ UNCHANGED <<cycle_ts, equity_drift, deadline>>
    /\ UNCHANGED <<storeVars, brokerVars, omVars, envVars>>

\* Stale data or an empty universe.
BodySkips ==
    /\ pc = "body"
    /\ pc' = "finish"
    /\ outcome' = "skipped"
    /\ UNCHANGED <<cycle_ts, equity_drift, deadline>>
    /\ UNCHANGED <<storeVars, brokerVars, omVars, envVars>>

\* RiskLimitError out of the pre-trade check.
RiskHalts ==
    /\ pc = "body"
    /\ pc' = "finish_outside"
    /\ outcome' = "halted"
    /\ UNCHANGED <<cycle_ts, equity_drift, deadline>>
    /\ UNCHANGED <<storeVars, brokerVars, omVars, envVars>>

\* weights_to_orders for one instrument held at h and wanted at w.
OrdersFor(i, w) ==
    LET h == positions[i]
        O(leg, q) == [coid |-> [cycle |-> cycle_ts, iid |-> i, leg |-> leg], qty |-> q]
    IN  IF w = h THEN {}
        ELSE IF h # 0 /\ w # 0 /\ ~SameSign(h, w)
        THEN {O("close", -h), O("open", w)}
        ELSE {O("rb", w - h)}

\* The pre-trade check drops any opening order, and a reducing one only with
\* everything else of its instrument.
PreTradeAccepts(wanted, accepted) ==
    \A o \in accepted : o.coid.leg = "open" =>
        \A p \in wanted : p.coid.iid = o.coid.iid => p \in accepted

\* Steps 3-5: targets for some instruments, none for a hold.
Decide ==
    /\ pc = "body"
    /\ \E held \in SUBSET Instruments :
       \E w \in [held -> Targets] :
          LET wanted == UNION {OrdersFor(i, w[i]) : i \in held} IN
          \E accepted \in SUBSET wanted :
             /\ PreTradeAccepts(wanted, accepted)
             /\ batch' = accepted
    /\ om_step' = "next"
    /\ Goto("place")
    /\ UNCHANGED <<order, booked, storeVars, brokerVars, envVars>>

\* Step 6: OrderManager.place.
Place ==
    /\ pc = "place"
    /\ PlaceStep
    /\ UNCHANGED <<procVars, envVars>>

PlaceReturns ==
    /\ pc = "place"
    /\ PlaceDone
    /\ Goto("persist_positions")
    /\ UNCHANGED <<storeVars, brokerVars, omVars, envVars>>

\* Step 7, _persist_book: three transactions, then finish_cycle 'ok'.
PersistPositions ==
    /\ pc = "persist_positions"
    /\ snapshot_positions(cycle_ts, positions)
    /\ Goto("persist_equity")
    /\ UNCHANGED <<brokerVars, omVars, envVars>>

PersistEquity ==
    /\ pc = "persist_equity"
    /\ snapshot_equity(cycle_ts)
    /\ Goto("persist_blob")
    /\ UNCHANGED <<brokerVars, omVars, envVars>>

PersistBlob ==
    /\ pc = "persist_blob"
    /\ save_paper_state(cycle_ts, snapshot_state(cycle_ts))
    /\ pc' = "finish"
    /\ outcome' = "ok"
    /\ UNCHANGED <<cycle_ts, equity_drift, deadline>>
    /\ UNCHANGED <<brokerVars, omVars, envVars>>

Finish ==
    /\ pc \in {"finish", "finish_outside"}
    /\ finish_cycle(cycle_ts, outcome)
    /\ EndCycle
    /\ UNCHANGED envVars

-----------------------------------------------------------------------------
(* Exceptions, crashes and the environment                                 *)

\* Mutant: the handler keeps the outcome it finds.
CycleRaises_keepsOutcome ==
    /\ pc \in {"body", "place", "persist_positions", "persist_equity",
               "persist_blob", "finish"}
    /\ errors < MaxErrors
    /\ errors' = errors + 1
    /\ pc' = "finish_outside"
    /\ OmReset
    /\ UNCHANGED <<cycle_ts, outcome, equity_drift, deadline>>
    /\ UNCHANGED <<storeVars, brokerVars, kill, now, crashes>>

\* A store write, the broker's order book or a data source raises inside the
\* try block of run_cycle: the step has no effect and the cycle is 'failed'.
CycleRaises ==
    /\ pc \in {"body", "place", "persist_positions", "persist_equity",
               "persist_blob", "finish"}
    /\ errors < MaxErrors
    /\ errors' = errors + 1
    /\ pc' = "finish_outside"
    /\ outcome' = "failed"
    /\ OmReset
    /\ UNCHANGED <<cycle_ts, equity_drift, deadline>>
    /\ UNCHANGED <<storeVars, brokerVars, kill, now, crashes>>

\* start_cycle or the last finish_cycle raises: nothing catches it inside
\* run_cycle, and the cycle's row stays as it is.
EscapesRunCycle ==
    /\ pc \in {"start", "finish_outside"}
    /\ errors < MaxErrors
    /\ errors' = errors + 1
    /\ EndCycle
    /\ UNCHANGED <<storeVars, kill, now, crashes>>

\* SIGKILL, a timeout of the caller, or a write that raises during boot.
Crash ==
    /\ pc # "down"
    /\ crashes < MaxCrashes
    /\ crashes' = crashes + 1
    /\ Die
    /\ UNCHANGED <<storeVars, kill, now, errors>>

\* Time is read at boot (for the sync rows, then for the bar of the cycle), at
\* the deadline and after a cycle; it may pass before each of these reads.
Tick ==
    /\ pc \in {"down", "idle", "resolve", "finish", "finish_outside"}
    /\ now < Horizon
    /\ now' = now + 1
    /\ UNCHANGED <<storeVars, brokerVars, omVars, procVars, kill, crashes, errors>>

\* touch var/KILL, and its removal: at any time.
EngageKill == ~kill /\ kill' = TRUE
Disengage == kill /\ kill' = FALSE

Operator ==
    /\ EngageKill \/ Disengage
    /\ UNCHANGED <<storeVars, brokerVars, omVars, procVars, now, crashes, errors>>

-----------------------------------------------------------------------------
BootStep ==
    \/ Boot
    \/ \E c \in Coid : ReplayFill(c)
    \/ ReplayDone
    \/ \E b \in Bars : FailRunningCycle(b)
    \/ FailRunningDone
    \/ ReadyFresh
    \/ ProbeOnly
    \/ SyncEquity
    \/ SyncPositions
    \/ \E c \in Coid : ResolveIntent(c)
    \/ GateOpens
    \/ GateHalts

CycleStep ==
    \/ Wake
    \/ WaitKilled
    \/ StartCycle
    \/ SkipTerminal
    \/ KillGate
    \/ BodySkips
    \/ RiskHalts
    \/ Decide
    \/ Place
    \/ PlaceReturns
    \/ PersistPositions
    \/ PersistEquity
    \/ PersistBlob
    \/ Finish

Next ==
    \/ BootStep
    \/ CycleStep
    \/ CycleRaises
    \/ EscapesRunCycle
    \/ Crash
    \/ Tick
    \/ Operator

Spec == Init /\ [][Next]_vars

=============================================================================
