--------------------------- MODULE LiveLoopProofs ---------------------------
(***************************************************************************)
(* Safety of the live loop for every set of instruments, every horizon,    *)
(* bar length, grace, target set and number of crashes and errors.         *)
(***************************************************************************)
EXTENDS LiveLoopInvariant, SumTheorems, TLAPS

-----------------------------------------------------------------------------
(* Bars                                                                    *)

LEMMA DivMod ==
    ASSUME NEW M \in Nat \ {0}, NEW t \in Nat
    PROVE  /\ t \div M \in Int
           /\ t = M * (t \div M) + (t % M)
           /\ t % M \in 0 .. (M - 1)
           /\ t % M <= t
BY SMT

\* The bar of an instant is a bar, and the instant lies inside it.
LEMMA FloorIsABar ==
    ASSUME NEW t \in Nat
    PROVE  /\ floor_bar(t) \in Nat
           /\ floor_bar(t) <= t
           /\ floor_bar(t) % BarMs = 0
           /\ t < next_bar_open(t)
<1>1. BarMs \in Nat \ {0} BY TypesAssumption
<1>2. /\ t \div BarMs \in Int
      /\ t = BarMs * (t \div BarMs) + (t % BarMs)
      /\ t % BarMs \in 0 .. (BarMs - 1)
      /\ t % BarMs <= t
  BY <1>1, DivMod
<1>3. t - (t % BarMs) = BarMs * (t \div BarMs) BY <1>1, <1>2
<1>4. \A k \in Int : (BarMs * k) % BarMs = 0 BY <1>1, SMT
<1>5. (t - (t % BarMs)) % BarMs = 0 BY <1>2, <1>3, <1>4
<1> QED BY <1>1, <1>2, <1>5 DEF floor_bar, next_bar_open

\* No bar lies between the bar of an instant and that instant.
LEMMA FloorIsTheLatest ==
    ASSUME NEW t \in Nat, NEW b \in Nat, b % BarMs = 0, b <= t
    PROVE  b <= floor_bar(t)
<1>1. BarMs \in Nat \ {0} BY TypesAssumption
<1>2. b = BarMs * (b \div BarMs) + (b % BarMs) /\ b \div BarMs \in Int
  BY <1>1, DivMod
<1>3. /\ t = BarMs * (t \div BarMs) + (t % BarMs) /\ t \div BarMs \in Int
      /\ t % BarMs \in 0 .. (BarMs - 1)
  BY <1>1, DivMod
<1>4. CASE b \div BarMs <= t \div BarMs
  <2>1. BarMs * (b \div BarMs) <= BarMs * (t \div BarMs) BY <1>1, <1>2, <1>3, <1>4
  <2> QED BY <2>1, <1>1, <1>2, <1>3 DEF floor_bar
<1>5. CASE b \div BarMs >= t \div BarMs + 1
  <2>1. BarMs * (b \div BarMs) >= BarMs * (t \div BarMs + 1) BY <1>1, <1>2, <1>3, <1>5
  <2>2. BarMs * (t \div BarMs + 1) = BarMs * (t \div BarMs) + BarMs BY <1>1, <1>3
  <2> QED BY <2>1, <2>2, <1>1, <1>2, <1>3
<1> QED BY <1>2, <1>3, <1>4, <1>5

\* The open after a bar is a multiple of the bar length as well.
LEMMA NextBarIsABar ==
    ASSUME NEW b \in Nat, b % BarMs = 0
    PROVE  (b + BarMs) % BarMs = 0
<1>1. BarMs \in Nat \ {0} BY TypesAssumption
<1>2. b = BarMs * (b \div BarMs) /\ b \div BarMs \in Int BY <1>1, DivMod
<1>3. b + BarMs = BarMs * (b \div BarMs + 1) BY <1>1, <1>2
<1>4. \A k \in Int : (BarMs * k) % BarMs = 0 BY <1>1, SMT
<1> QED BY <1>2, <1>3, <1>4

LEMMA DeadlineIsBeyondTheBar ==
    ASSUME NEW t \in Nat
    PROVE  /\ next_deadline(t) \in Nat
           /\ t < next_deadline(t)
           /\ \A b \in Nat : b % BarMs = 0 /\ b <= t => b + BarMs <= next_deadline(t)
<1>1. BarMs \in Nat \ {0} /\ Grace \in Nat BY TypesAssumption, LoopAssumption
<1>2. /\ floor_bar(t) \in Nat
      /\ t < next_bar_open(t)
  BY FloorIsABar
<1>3. next_bar_open(t) = floor_bar(t) + BarMs BY DEF next_bar_open
<1>4. next_deadline(t) = next_bar_open(t) + Grace BY DEF next_deadline
<1>5. next_deadline(t) \in Nat /\ t < next_deadline(t)
  BY <1>1, <1>2, <1>3, <1>4
<1>6. ASSUME NEW b \in Nat, b % BarMs = 0, b <= t
      PROVE  b + BarMs <= next_deadline(t)
  <2>1. b <= floor_bar(t) BY <1>6, FloorIsTheLatest
  <2> QED BY <2>1, <1>1, <1>2, <1>3, <1>4
<1> QED BY <1>5, <1>6

-----------------------------------------------------------------------------
(* Types                                                                   *)

LEMMA BarsAreInstants == Bars \subseteq Time /\ Time \subseteq Nat /\ 0 \in Bars
<1>1. BarMs \in Nat \ {0} /\ Horizon \in Nat BY TypesAssumption
<1>2. 0 % BarMs = 0 BY <1>1, SMT
<1> QED BY <1>1, <1>2 DEF Bars, Time

\* What the clock, the bars and the bars inside ids and blobs are as numbers.
LEMMA Instants ==
    ASSUME TypeOK
    PROVE  /\ cycle_ts \in Nat /\ now \in Nat /\ deadline \in Nat
           /\ paper_state.cycle_ts \in Int
           /\ \A c \in Coid : c.cycle \in Bars /\ c.cycle \in Nat
           /\ \A b \in Bars : b \in Nat /\ b % BarMs = 0
<1>1. \A b \in Bars : b \in Nat /\ b % BarMs = 0
  BY BarsAreInstants DEF Bars
<1>2. \A c \in Coid : c.cycle \in Bars BY DEF Coid
<1>3. cycle_ts \in Bars /\ now \in Nat /\ deadline \in Nat
  BY BarsAreInstants DEF TypeOK, LoopTypeOK
<1>4. paper_state.cycle_ts \in Bars \cup {NoBlob}
  BY DEF TypeOK, StoreTypeOK, PaperState
<1>5. NoBlob \in Int BY DEF NoBlob
<1> QED BY <1>1, <1>2, <1>3, <1>4, <1>5

\* Every order that weights_to_orders makes is for this cycle, this instrument
\* and a quantity other than zero, and no two share an id.
LEMMA OrdersForType ==
    ASSUME positions \in [Instruments -> Int], cycle_ts \in Bars,
           NEW i \in Instruments, NEW w \in Int
    PROVE  \A o \in OrdersFor(i, w) :
               /\ o \in OrderRequest
               /\ o.coid.cycle = cycle_ts
               /\ o.coid.iid = i
               /\ o.qty # 0
               /\ \A p \in OrdersFor(i, w) : o.coid = p.coid => o = p
<1> DEFINE O(leg, q) == [coid |-> [cycle |-> cycle_ts, iid |-> i, leg |-> leg], qty |-> q]
<1>1. \A leg \in Legs, q \in Int : O(leg, q) \in OrderRequest
  BY DEF OrderRequest, Coid
<1>2. positions[i] \in Int OBVIOUS
<1>3. CASE w = positions[i]
  BY <1>3 DEF OrdersFor
<1>4. CASE w # positions[i] /\ positions[i] # 0 /\ w # 0 /\ ~SameSign(positions[i], w)
  <2>1. OrdersFor(i, w) = {O("close", -positions[i]), O("open", w)}
    BY <1>4 DEF OrdersFor
  <2>2. -positions[i] \in Int \ {0} /\ w \in Int \ {0} BY <1>2, <1>4
  <2>3. O("close", -positions[i]) \in OrderRequest /\ O("open", w) \in OrderRequest
    BY <1>1, <2>2 DEF Legs
  <2>4. O("close", -positions[i]).coid # O("open", w).coid OBVIOUS
  <2> QED BY <2>1, <2>2, <2>3, <2>4
<1>5. CASE w # positions[i] /\ ~(positions[i] # 0 /\ w # 0 /\ ~SameSign(positions[i], w))
  <2>1. OrdersFor(i, w) = {O("rb", w - positions[i])}
    BY <1>5 DEF OrdersFor
  <2>2. w - positions[i] \in Int \ {0} BY <1>2, <1>5
  <2>3. O("rb", w - positions[i]) \in OrderRequest
    BY <1>1, <2>2 DEF Legs
  <2> QED BY <2>1, <2>2, <2>3
<1> QED BY <1>3, <1>4, <1>5

\* A batch that Decide makes: requests of this cycle, no two with one id.
LEMMA BatchType ==
    ASSUME TypeOK, Decide
    PROVE  /\ batch' \subseteq OrderRequest
           /\ \A o \in batch' : /\ o.coid.cycle = cycle_ts
                                /\ o.qty # 0
                                /\ \A p \in batch' : o.coid = p.coid => o = p
<1>1. PICK held \in SUBSET Instruments :
         \E w \in [held -> Targets] :
           batch' \subseteq UNION {OrdersFor(i, w[i]) : i \in held}
  BY DEF Decide
<1>2. PICK w \in [held -> Targets] :
         batch' \subseteq UNION {OrdersFor(i, w[i]) : i \in held}
  BY <1>1
<1>3. positions \in [Instruments -> Int] /\ cycle_ts \in Bars
  BY DEF TypeOK, BrokerTypeOK, LoopTypeOK
<1>4. \A i \in held : i \in Instruments /\ w[i] \in Int
  BY LoopAssumption
<1>5. \A i \in held : \A o \in OrdersFor(i, w[i]) :
         /\ o \in OrderRequest
         /\ o.coid.cycle = cycle_ts
         /\ o.coid.iid = i
         /\ o.qty # 0
         /\ \A p \in OrdersFor(i, w[i]) : o.coid = p.coid => o = p
  BY <1>3, <1>4, OrdersForType
<1>6. \A o \in batch' : \E i \in held : o \in OrdersFor(i, w[i])
  BY <1>2
<1>7. ASSUME NEW o \in batch', NEW p \in batch', o.coid = p.coid PROVE o = p
  <2>1. PICK i \in held : o \in OrdersFor(i, w[i]) BY <1>6
  <2>2. PICK j \in held : p \in OrdersFor(j, w[j]) BY <1>6
  <2>3. i = j BY <1>5, <1>7, <2>1, <2>2
  <2> QED BY <1>5, <1>7, <2>1, <2>2, <2>3
<1>8. \A o \in batch' : o \in OrderRequest /\ o.coid.cycle = cycle_ts /\ o.qty # 0
  BY <1>5, <1>6
<1> QED BY <1>7, <1>8

LEMMA TypeInit == Init => TypeOK
<1> SUFFICES ASSUME Init PROVE TypeOK OBVIOUS
<1> USE BarsAreInstants DEF Init
<1>1. StoreTypeOK
  BY DEF StoreInit, StoreTypeOK, NoOrderRow, OrderRow, OrderStatus, CycleStatus,
         NoFills, NoAcks, Flat, PaperState, AckStatus
<1>2. BrokerTypeOK
  BY DEF Untouched, BrokerTypeOK, NoFills, NoAcks, Flat, AckStatus
<1>3. OmTypeOK BY DEF OmIdle, OmTypeOK, OmSteps
<1>4. LoopTypeOK
  <2>1. 0 \in Time /\ 0 \in 0 .. MaxCrashes /\ 0 \in 0 .. MaxErrors
    BY TypesAssumption, LoopAssumption DEF Time
  <2> QED BY <2>1 DEF LoopTypeOK, Pcs, TerminalCycle, EquityStatus
<1> QED BY <1>1, <1>2, <1>3, <1>4 DEF TypeOK

\* The memory of a dead process, and of a process whose cycle is over.
LEMMA DieType == Die => BrokerTypeOK' /\ OmTypeOK'
BY DEF Die, Reset, OmReset, BrokerTypeOK, OmTypeOK, OmSteps, NoFills, NoAcks, Flat,
       AckStatus

LEMMA EndCycleType == TypeOK /\ EndCycle => BrokerTypeOK' /\ OmTypeOK'
<1>1. CASE Once BY <1>1, DieType DEF EndCycle
<1>2. CASE ~Once
  BY <1>2 DEF EndCycle, OmReset, TypeOK, BrokerTypeOK, OmTypeOK, OmSteps, brokerVars
<1> QED BY <1>1, <1>2

LEMMA MarkFilledType ==
    ASSUME StoreTypeOK, NEW c, NEW q \in Int, mark_filled(c, q)
    PROVE  StoreTypeOK'
<1> USE DEF StoreTypeOK, mark_filled
<1>1. fills' \in [Coid -> Seq(Int)]
  <2>1. c \in Coid => Append(fills[c], q) \in Seq(Int) OBVIOUS
  <2>2. fills' = [fills EXCEPT ![c] = Append(fills[c], q)] OBVIOUS
  <2> QED BY <2>1, <2>2
<1>2. orders' \in [Coid -> OrderRow]
  <2>1. c \in Coid => orders[c].filled + Abs(q) \in Int /\ orders[c].qty \in Int
    BY DEF OrderRow, Abs
  <2> QED BY <2>1 DEF OrderRow, OrderStatus
<1> QED BY <1>1, <1>2

LEMMA StoreTypeNext == TypeOK /\ [Next]_vars => StoreTypeOK'
<1> SUFFICES ASSUME TypeOK, [Next]_vars PROVE StoreTypeOK' OBVIOUS
<1> USE DEF TypeOK, StoreTypeOK, BrokerTypeOK, OmTypeOK, LoopTypeOK
<1>1. CASE UNCHANGED storeVars BY <1>1 DEF storeVars
<1>2. CASE \E b \in Bars : FailRunningCycle(b)
  BY <1>2 DEF FailRunningCycle, finish_cycle, CycleStatus
<1>3. CASE SyncEquity
  BY <1>3 DEF SyncEquity, snapshot_equity
<1>4. CASE SyncPositions
  BY <1>4 DEF SyncPositions, snapshot_positions
<1>5. CASE \E c \in Coid : ResolveIntent(c)
  <2> PICK c \in Coid : ResolveIntent(c) BY <1>5
  <2>1. CASE IngestFill(c)
    <3>1. broker_fills[c][Len(fills[c]) + 1] \in Int
      BY <2>1 DEF IngestFill, MissingFill
    <3>2. PICK q \in Int : mark_filled(c, q)
      BY <2>1, <3>1 DEF IngestFill
    <3> QED BY <3>2, MarkFilledType
  <2>2. CASE RejectIntent(c)
    BY <2>2 DEF RejectIntent, mark_rejected, set_order_status, OrderRow, OrderStatus
  <2> QED BY <2>1, <2>2 DEF ResolveIntent
<1>6. CASE StartCycle
  BY <1>6 DEF StartCycle, start_cycle, CycleStatus
<1>7. CASE Place
  <2>1. CASE \E o \in batch : SkipReplay(o)
    BY <2>1 DEF SkipReplay, storeVars
  <2>2. CASE \E o \in batch : PersistIntent(o)
    <3> PICK o \in batch : PersistIntent(o) BY <2>2
    <3>1. o.coid \in Coid /\ o.qty \in Int BY DEF OrderRequest
    <3> QED BY <3>1 DEF PersistIntent, record_intent, OrderRow, OrderStatus
  <2>3. CASE Submit BY <2>3 DEF Submit, storeVars
  <2>4. CASE PersistReject
    BY <2>4 DEF PersistReject, mark_rejected, set_order_status, OrderRow, OrderStatus
  <2>5. CASE PersistSubmitted
    BY <2>5 DEF PersistSubmitted, mark_submitted, set_order_status, OrderRow, OrderStatus
  <2>6. CASE PersistFill
    BY <2>6, MarkFilledType DEF PersistFill
  <2> QED BY <1>7, <2>1, <2>2, <2>3, <2>4, <2>5, <2>6 DEF Place, PlaceStep
<1>8. CASE PersistPositions
  BY <1>8, BarsAreInstants DEF PersistPositions, snapshot_positions
<1>9. CASE PersistEquity
  BY <1>9, BarsAreInstants DEF PersistEquity, snapshot_equity
<1>10. CASE PersistBlob
  BY <1>10 DEF PersistBlob, save_paper_state, snapshot_state, PaperState
<1>11. CASE Finish
  BY <1>11 DEF Finish, finish_cycle, CycleStatus, TerminalCycle
<1>12. UNCHANGED storeVars \/ (\E b \in Bars : FailRunningCycle(b)) \/ SyncEquity
       \/ SyncPositions \/ (\E c \in Coid : ResolveIntent(c)) \/ StartCycle \/ Place
       \/ PersistPositions \/ PersistEquity \/ PersistBlob \/ Finish
  BY DEF Next, BootStep, CycleStep, Boot, ReplayFill, ReplayDone, FailRunningDone,
         ReadyFresh, ProbeOnly, GateOpens, GateHalts, Wake, WaitKilled, SkipTerminal,
         KillGate, BodySkips, RiskHalts, Decide, PlaceReturns, CycleRaises,
         EscapesRunCycle, Crash, Tick, Operator, vars
<1> QED BY <1>1, <1>2, <1>3, <1>4, <1>5, <1>6, <1>7, <1>8, <1>9, <1>10, <1>11, <1>12

LEMMA MemoryTypeNext == TypeOK /\ [Next]_vars => BrokerTypeOK' /\ OmTypeOK'
<1> SUFFICES ASSUME TypeOK, [Next]_vars PROVE BrokerTypeOK' /\ OmTypeOK' OBVIOUS
<1> USE DEF TypeOK, StoreTypeOK, BrokerTypeOK, OmTypeOK, LoopTypeOK
<1>1. CASE UNCHANGED <<brokerVars, omVars>> BY <1>1 DEF brokerVars, omVars
<1>2. CASE Boot
  BY <1>2 DEF Boot, restore, omVars, PaperState
<1>3. CASE \E c \in Coid : ReplayFill(c)
  <2> PICK c \in Coid : ReplayFill(c) BY <1>3
  <2>1. fills[c] # <<>> BY DEF ReplayFill, ToReplay, fills_since
  <2>2. fills[c][1] \in Int BY <2>1
  <2>3. PICK q \in Int : book_fill(c, q)
    BY <2>2 DEF ReplayFill, apply_recorded_fill
  <2>4. c.iid \in Instruments BY DEF Coid
  <2> QED BY <2>3, <2>4 DEF ReplayFill, book_fill, omVars, AckStatus
<1>4. CASE GateHalts BY <1>4, DieType DEF GateHalts
<1>5. CASE SkipTerminal BY <1>5, EndCycleType DEF SkipTerminal
<1>6. CASE Decide
  BY <1>6, BatchType DEF Decide, brokerVars, OmSteps
<1>7. CASE Place
  <2>1. CASE \E o \in batch : SkipReplay(o) \/ PersistIntent(o)
    BY <2>1 DEF SkipReplay, PersistIntent, OmSteps, brokerVars
  <2>2. CASE Submit
    <3>1. OmTypeOK'
      <4>1. booked' \in Int BY <2>2 DEF Submit, Fillable
      <4> QED BY <2>2, <4>1 DEF Submit, OmSteps
    <3>2. CASE submit_known(order.coid) BY <3>1, <3>2 DEF submit_known, brokerVars
    <3>3. CASE submit_rejected(order.coid) BY <3>1, <3>3 DEF submit_rejected, AckStatus
    <3>4. CASE \E q \in Fillable(order.qty) : submit_filled(order, q)
      <4> PICK q \in Int : book_fill(order.coid, q)
        BY <3>4 DEF submit_filled, Fillable
      <4>1. order.coid \in Coid => Append(broker_fills[order.coid], q) \in Seq(Int)
        OBVIOUS
      <4>2. order.coid.iid \in Instruments => positions[order.coid.iid] + q \in Int
        OBVIOUS
      <4> QED BY <3>1, <4>1, <4>2 DEF book_fill, AckStatus
    <3> QED BY <2>2, <3>1, <3>2, <3>3, <3>4 DEF Submit
  <2>3. CASE PersistReject \/ PersistSubmitted \/ PersistFill
    BY <2>3 DEF PersistReject, PersistSubmitted, PersistFill, OmSteps, brokerVars
  <2> QED BY <1>7, <2>1, <2>2, <2>3 DEF Place, PlaceStep
<1>8. CASE Finish BY <1>8, EndCycleType DEF Finish
<1>9. CASE CycleRaises
  BY <1>9 DEF CycleRaises, OmReset, OmSteps, brokerVars
<1>10. CASE EscapesRunCycle BY <1>10, EndCycleType DEF EscapesRunCycle
<1>11. CASE Crash BY <1>11, DieType DEF Crash
<1>12. UNCHANGED <<brokerVars, omVars>> \/ Boot \/ (\E c \in Coid : ReplayFill(c))
       \/ GateHalts \/ SkipTerminal \/ Decide \/ Place \/ Finish \/ CycleRaises
       \/ EscapesRunCycle \/ Crash
  BY DEF Next, BootStep, CycleStep, ReplayDone, FailRunningCycle, FailRunningDone,
         ReadyFresh, ProbeOnly, SyncEquity, SyncPositions, ResolveIntent, GateOpens,
         Wake, WaitKilled, StartCycle, KillGate, BodySkips, RiskHalts, PlaceReturns,
         PersistPositions, PersistEquity, PersistBlob, Tick, Operator, vars
<1> QED BY <1>1, <1>2, <1>3, <1>4, <1>5, <1>6, <1>7, <1>8, <1>9, <1>10, <1>11, <1>12

LEMMA NextDeadlineType == TypeOK => next_deadline(now) \in Nat
BY DeadlineIsBeyondTheBar, BarsAreInstants DEF TypeOK, LoopTypeOK

LEMMA LoopTypeNext == TypeOK /\ [Next]_vars => LoopTypeOK'
<1> SUFFICES ASSUME TypeOK, [Next]_vars PROVE LoopTypeOK' OBVIOUS
<1> USE DEF TypeOK, LoopTypeOK, Pcs, Booting, InCycle
<1>1. BarMs \in Nat \ {0} /\ 0 \in Bars /\ next_deadline(now) \in Nat
  BY TypesAssumption, BarsAreInstants, NextDeadlineType
<1>2. CASE BecomeReady /\ UNCHANGED envVars
  BY <1>1, <1>2 DEF BecomeReady, envVars
<1>3. ASSUME EndCycle, UNCHANGED <<kill, now, crashes>>, errors' \in 0 .. MaxErrors
      PROVE  LoopTypeOK'
  BY <1>1, <1>3 DEF EndCycle, Die, TerminalCycle, EquityStatus
<1>4. ASSUME Die, UNCHANGED <<kill, now, errors>>, crashes' \in 0 .. MaxCrashes
      PROVE  LoopTypeOK'
  BY <1>1, <1>4 DEF Die, TerminalCycle, EquityStatus
<1>5. CASE BootStep
  <2>1. CASE ProbeOnly \/ SyncEquity
    <3>1. PossibleDrift \subseteq EquityStatus
      BY DEF PossibleDrift, EquityStatus
    <3> QED BY <2>1, <3>1 DEF ProbeOnly, SyncEquity, envVars
  <2>2. CASE SyncPositions BY <2>2 DEF SyncPositions, envVars, EquityStatus
  <2>3. CASE GateHalts BY <2>3, <1>4 DEF GateHalts, envVars
  <2>4. CASE ReadyFresh \/ GateOpens BY <2>4, <1>2 DEF ReadyFresh, GateOpens
  <2>5. CASE Boot \/ ReplayDone \/ FailRunningDone
    BY <2>5 DEF Boot, ReplayDone, FailRunningDone, Goto, envVars
  <2>6. CASE \/ \E c \in Coid : ReplayFill(c) \/ ResolveIntent(c)
             \/ \E b \in Bars : FailRunningCycle(b)
    BY <2>6 DEF ReplayFill, ResolveIntent, FailRunningCycle, procVars, envVars
  <2> QED BY <1>5, <2>1, <2>2, <2>3, <2>4, <2>5, <2>6 DEF BootStep
<1>6. CASE CycleStep
  <2>1. CASE Wake BY <2>1 DEF Wake, envVars
  <2>2. CASE WaitKilled BY <1>1, <2>2 DEF WaitKilled, envVars
  <2>3. CASE SkipTerminal \/ Finish
    BY <2>3, <1>3 DEF SkipTerminal, Finish, envVars
  <2>4. CASE KillGate \/ BodySkips \/ RiskHalts \/ PersistBlob
    BY <2>4 DEF KillGate, BodySkips, RiskHalts, PersistBlob, envVars, TerminalCycle
  <2>5. CASE StartCycle \/ Decide \/ PlaceReturns \/ PersistPositions \/ PersistEquity
    BY <2>5 DEF StartCycle, Decide, PlaceReturns, PersistPositions, PersistEquity,
                Goto, envVars
  <2>6. CASE Place BY <2>6 DEF Place, procVars, envVars
  <2> QED BY <1>6, <2>1, <2>2, <2>3, <2>4, <2>5, <2>6 DEF CycleStep
<1>7. CASE CycleRaises
  BY <1>7, LoopAssumption DEF CycleRaises, TerminalCycle
<1>8. CASE EscapesRunCycle
  BY <1>8, <1>3, LoopAssumption DEF EscapesRunCycle
<1>9. CASE Crash BY <1>9, <1>4, LoopAssumption DEF Crash
<1>10. CASE Tick BY <1>10, TypesAssumption DEF Tick, procVars, Time
<1>11. CASE Operator BY <1>11 DEF Operator, EngageKill, Disengage, procVars
<1>12. CASE UNCHANGED vars BY <1>12 DEF vars, procVars, envVars
<1> QED BY <1>5, <1>6, <1>7, <1>8, <1>9, <1>10, <1>11, <1>12 DEF Next

LEMMA TypeCorrectStep == TypeOK /\ [Next]_vars => TypeOK'
BY StoreTypeNext, MemoryTypeNext, LoopTypeNext DEF TypeOK

\* Every variable keeps its type: in particular no store row, broker book or
\* program counter leaves the vocabulary of the code.
THEOREM TypeCorrect == Spec => []TypeOK
BY TypeInit, TypeCorrectStep, PTL DEF Spec

-----------------------------------------------------------------------------
(* What a step does to the rows of one order                               *)

Kept(c) == orders'[c] = orders[c] /\ fills'[c] = fills[c]

\* place() records the intent of a new order.
Intended(c) ==
    /\ pc = "place" /\ c.cycle = cycle_ts
    /\ orders[c].status = "absent"
    /\ \E qty \in Int \ {0} :
         orders'[c] = [status |-> "NEW", qty |-> qty, filled |-> 0]
    /\ fills'[c] = fills[c]
    /\ UNCHANGED <<acks, broker_fills, paper_state, cycles>>

\* The order is void: nothing of it executed, as the broker knows.
Rejected(c) ==
    /\ pc \in {"place", "resolve"}
    /\ orders[c].status # "absent"
    /\ orders'[c] = [orders[c] EXCEPT !.status = "REJECTED"]
    /\ fills[c] = <<>> /\ fills'[c] = <<>>
    /\ acks[c] # "accepted"
    /\ UNCHANGED <<acks, broker_fills, paper_state, cycles>>

Submitted(c) ==
    /\ pc = "place"
    /\ orders[c].status \in {"NEW", "SUBMITTED"}
    /\ orders'[c] = [orders[c] EXCEPT !.status = "SUBMITTED"]
    /\ fills'[c] = fills[c]
    /\ UNCHANGED <<acks, broker_fills, paper_state, cycles>>

\* The first fill of the order is recorded, and it is the one the broker holds.
Filled(c) ==
    /\ pc = "resolve" \/ (pc = "place" /\ c.cycle = cycle_ts)
    /\ orders[c].status # "absent"
    /\ fills[c] = <<>>
    /\ \E q \in Fillable(orders[c].qty) :
         /\ broker_fills[c] = <<q>>
         /\ fills'[c] = <<q>>
         /\ \E st \in {"FILLED", "PARTIAL"} :
              orders'[c] = [status |-> st, qty |-> orders[c].qty, filled |-> Abs(q)]
    /\ UNCHANGED <<acks, broker_fills, paper_state, cycles>>

OrderStep(c) == Kept(c) \/ Intended(c) \/ Rejected(c) \/ Submitted(c) \/ Filled(c)

LEMMA FillableIsNotZero ==
    ASSUME NEW qty \in Int, NEW q \in Fillable(qty)
    PROVE  q \in Int /\ q # 0 /\ Abs(q) \in Nat \ {0} /\ Abs(q) <= Abs(qty)
BY DEF Fillable, Abs

\* A fill is booked on an order that has none.
LEMMA FirstFill ==
    ASSUME IInv, NEW c \in Coid, NEW q \in Fillable(orders[c].qty),
           fills[c] = <<>>, mark_filled(c, q)
    PROVE  /\ fills'[c] = <<q>>
           /\ \E st \in {"FILLED", "PARTIAL"} :
                orders'[c] = [status |-> st, qty |-> orders[c].qty, filled |-> Abs(q)]
           /\ \A d \in Coid \ {c} : Kept(d)
<1> USE DEF IInv, TypeOK, StoreTypeOK
<1>1. orders[c].qty \in Int /\ orders[c].filled = 0
  BY DEF OrderRow, LoopInv, StoreInv
<1>2. q \in Int /\ Abs(q) \in Int BY <1>1, FillableIsNotZero
<1>3. fills'[c] = <<q>> BY <1>2 DEF mark_filled
<1>4. orders[c].filled + Abs(q) = Abs(q) BY <1>1, <1>2
<1>5. \E st \in {"FILLED", "PARTIAL"} :
        orders'[c] = [status |-> st, qty |-> orders[c].qty, filled |-> Abs(q)]
  BY <1>4 DEF mark_filled
<1>6. \A d \in Coid \ {c} : Kept(d) BY DEF mark_filled, Kept
<1> QED BY <1>3, <1>5, <1>6

\* A step touches at most one order, and in one of these ways.
LEMMA OneOrderStep ==
    ASSUME IInv, [Next]_vars
    PROVE  \/ \A c \in Coid : Kept(c)
           \/ \E c \in Coid : OrderStep(c) /\ \A d \in Coid \ {c} : Kept(d)
<1> USE DEF IInv, TypeOK, StoreTypeOK, OmTypeOK
<1>1. CASE UNCHANGED <<orders, fills>> BY <1>1 DEF OrderStep, Kept
<1>2. CASE \E c \in Coid : ResolveIntent(c)
  <2> PICK c \in Coid : ResolveIntent(c) BY <1>2
  <2>0. pc = "resolve" /\ UNCHANGED brokerVars BY DEF ResolveIntent
  <2>1. CASE IngestFill(c)
    <3>1. broker_fills[c] # <<>> /\ fills[c] = <<>>
      BY <2>1 DEF IngestFill, MissingFill, LoopInv, BookInv, BookOk, BrokerTypeOK
    <3>2. PICK q : broker_fills[c] = <<q>>
      BY <3>1 DEF LoopInv, BookInv, BookOk, BrokerTypeOK
    <3>3. q \in Fillable(orders[c].qty) /\ orders[c].status # "absent"
      <4>1. /\ broker_fills[c][1] \in Fillable(orders[c].qty)
            /\ acks[c] = "accepted"
            /\ orders[c].status # "absent"
        BY <3>1 DEF LoopInv, BookInv, BookOk
      <4>2. broker_fills[c][1] = q BY <3>2
      <4> QED BY <4>1, <4>2
    <3>4. mark_filled(c, q) BY <2>1, <3>1, <3>2 DEF IngestFill
    <3>5. Filled(c)
      BY <2>0, <3>1, <3>2, <3>3, <3>4, FirstFill DEF Filled, mark_filled, brokerVars
    <3>6. \A d \in Coid \ {c} : Kept(d) BY <3>1, <3>3, <3>4, FirstFill
    <3> QED BY <3>5, <3>6 DEF OrderStep
  <2>2. CASE RejectIntent(c)
    <3>1. fills[c] = <<>>
      <4>1. orders[c].filled = 0 BY <2>2 DEF RejectIntent, NeverLanded
      <4> QED BY <4>1, FillableIsNotZero DEF LoopInv, StoreInv, OrderRow
    <3>2. acks[c] # "accepted"
      BY <2>2, <3>1 DEF RejectIntent, NeverLanded, LoopInv, BookInv, BookOk, BrokerTypeOK
    <3>3. Rejected(c)
      BY <2>0, <2>2, <3>1, <3>2
         DEF Rejected, RejectIntent, mark_rejected, set_order_status, brokerVars
    <3>4. \A d \in Coid \ {c} : Kept(d)
      BY <2>2 DEF RejectIntent, mark_rejected, set_order_status, Kept
    <3> QED BY <3>3, <3>4 DEF OrderStep
  <2> QED BY <2>1, <2>2 DEF ResolveIntent
<1>3. CASE Place
  <2>0. pc = "place" BY <1>3 DEF Place
  <2> DEFINE c == order.coid
  <2>1. CASE Submit \/ \E o \in batch : SkipReplay(o)
    BY <2>1 DEF Submit, SkipReplay, storeVars, OrderStep, Kept
  <2>2. CASE \E o \in batch : PersistIntent(o)
    <3> PICK o \in batch : PersistIntent(o) BY <2>2
    <3>1. o.coid \in Coid /\ o.qty \in Int BY DEF OrderRequest
    <3>2. orders[o.coid].status = "absent" /\ o.qty # 0 /\ o.coid.cycle = cycle_ts
      BY <2>0 DEF LoopInv, PlaceInv
    <3>3. Intended(o.coid)
      BY <2>0, <3>1, <3>2 DEF Intended, PersistIntent, record_intent, brokerVars
    <3>4. \A d \in Coid \ {o.coid} : Kept(d)
      BY DEF PersistIntent, record_intent, Kept
    <3> QED BY <3>3, <3>4 DEF OrderStep
  <2>3. ASSUME om_step # "next"
        PROVE  /\ c \in Coid /\ c.cycle = cycle_ts
               /\ orders[c].status \in {"NEW", "SUBMITTED"} /\ fills[c] = <<>>
    BY <2>0, <2>3 DEF LoopInv, PlaceInv, OrderRequest
  <2>4. CASE PersistReject
    <3>1. acks[c] = "rejected" /\ om_step # "next"
      BY <2>0, <2>4 DEF PersistReject, LoopInv, PlaceInv
    <3>2. Rejected(c)
      BY <2>0, <2>3, <2>4, <3>1
         DEF Rejected, PersistReject, mark_rejected, set_order_status, brokerVars
    <3>3. \A d \in Coid \ {c} : Kept(d)
      BY <2>4 DEF PersistReject, mark_rejected, set_order_status, Kept
    <3> QED BY <3>2, <3>3 DEF OrderStep
  <2>5. CASE PersistSubmitted
    <3>1. om_step # "next" BY <2>5 DEF PersistSubmitted
    <3>2. Submitted(c)
      BY <2>0, <2>3, <2>5, <3>1
         DEF Submitted, PersistSubmitted, mark_submitted, set_order_status, brokerVars
    <3>3. \A d \in Coid \ {c} : Kept(d)
      BY <2>5 DEF PersistSubmitted, mark_submitted, set_order_status, Kept
    <3> QED BY <3>2, <3>3 DEF OrderStep
  <2>6. CASE PersistFill
    <3>1. om_step = "mark_filled" /\ mark_filled(c, booked) /\ UNCHANGED brokerVars
      BY <2>6 DEF PersistFill
    <3>2. broker_fills[c] = <<booked>> BY <2>0, <3>1 DEF LoopInv, PlaceInv
    <3>3. booked \in Fillable(orders[c].qty)
      <4>1. broker_fills[c] # <<>> /\ broker_fills[c][1] = booked BY <3>2
      <4>2. broker_fills[c][1] \in Fillable(orders[c].qty)
        BY <2>3, <3>1, <4>1 DEF LoopInv, BookInv, BookOk
      <4> QED BY <4>1, <4>2
    <3>4. Filled(c)
      BY <2>0, <2>3, <3>1, <3>2, <3>3, FirstFill DEF Filled, mark_filled, brokerVars
    <3>5. \A d \in Coid \ {c} : Kept(d) BY <2>3, <3>1, <3>3, FirstFill
    <3> QED BY <3>4, <3>5 DEF OrderStep
  <2> QED BY <1>3, <2>1, <2>2, <2>4, <2>5, <2>6 DEF Place, PlaceStep
<1>4. UNCHANGED <<orders, fills>> \/ (\E c \in Coid : ResolveIntent(c)) \/ Place
  BY DEF Next, BootStep, CycleStep, Boot, ReplayFill, ReplayDone, FailRunningCycle,
         finish_cycle, FailRunningDone, ReadyFresh, ProbeOnly, SyncEquity,
         snapshot_equity, SyncPositions, snapshot_positions, GateOpens, GateHalts,
         Wake, WaitKilled, StartCycle, start_cycle, SkipTerminal, KillGate, BodySkips,
         RiskHalts, Decide, PlaceReturns, PersistPositions, PersistEquity, PersistBlob,
         save_paper_state, Finish, CycleRaises, EscapesRunCycle, Crash, Tick, Operator,
         vars, storeVars
<1> QED BY <1>1, <1>2, <1>3, <1>4

LEMMA OrderSteps ==
    ASSUME IInv, [Next]_vars
    PROVE  \A c \in Coid : OrderStep(c)
BY OneOrderStep DEF OrderStep

-----------------------------------------------------------------------------
(* The store and the books                                                 *)

LEMMA StoreInvNext ==
    ASSUME IInv, [Next]_vars
    PROVE  StoreInv'
<1> SUFFICES ASSUME NEW c \in Coid
             PROVE  /\ Len(fills'[c]) <= 1
                    /\ orders'[c].filled = IF fills'[c] = <<>> THEN 0 ELSE Abs(fills'[c][1])
                    /\ fills'[c] # <<>> =>
                         /\ orders'[c].status \in {"SUBMITTED", "PARTIAL", "FILLED"}
                         /\ fills'[c][1] \in Fillable(orders'[c].qty)
                    /\ orders'[c].status \in {"PARTIAL", "FILLED"} => fills'[c] # <<>>
  BY DEF StoreInv
<1>1. /\ Len(fills[c]) <= 1
      /\ orders[c].filled = IF fills[c] = <<>> THEN 0 ELSE Abs(fills[c][1])
      /\ fills[c] # <<>> =>
           /\ orders[c].status \in {"SUBMITTED", "PARTIAL", "FILLED"}
           /\ fills[c][1] \in Fillable(orders[c].qty)
      /\ orders[c].status \in {"PARTIAL", "FILLED"} => fills[c] # <<>>
  BY DEF IInv, LoopInv, StoreInv
<1>2. orders[c] \in OrderRow BY DEF IInv, TypeOK, StoreTypeOK
<1>3. CASE Kept(c) BY <1>1, <1>3 DEF Kept
<1>4. CASE Intended(c) BY <1>1, <1>4 DEF Intended
<1>5. CASE Rejected(c) BY <1>1, <1>2, <1>5 DEF Rejected, OrderRow
<1>6. CASE Submitted(c) BY <1>1, <1>2, <1>6 DEF Submitted, OrderRow
<1>7. CASE Filled(c) BY <1>7 DEF Filled
<1> QED BY OrderSteps, <1>3, <1>4, <1>5, <1>6, <1>7 DEF OrderStep

\* A book whose own entry stays as it is stays in line with the store, provided
\* that a fill being recorded is the one it holds, if it knows the order.
LEMMA BookFrame ==
    ASSUME IInv, [Next]_vars, NEW c \in Coid, NEW ack, NEW lots \in Seq(Int),
           BookOk(ack, lots, orders[c], fills[c]),
           ack \in {"none", acks[c]},
           lots # <<>> => lots = broker_fills[c]
    PROVE  BookOk(ack, lots, orders'[c], fills'[c])
<1>1. orders[c] \in OrderRow BY DEF IInv, TypeOK, StoreTypeOK
<1>2. CASE Kept(c) BY <1>2 DEF Kept
<1>3. CASE Intended(c) BY <1>3 DEF Intended, BookOk
<1>4. CASE Rejected(c) BY <1>1, <1>4 DEF Rejected, BookOk, OrderRow
<1>5. CASE Submitted(c) BY <1>1, <1>5 DEF Submitted, BookOk, OrderRow
<1>6. CASE Filled(c)
  <2>1. PICK q \in Fillable(orders[c].qty) : broker_fills[c] = <<q>> /\ fills'[c] = <<q>>
    BY <1>6 DEF Filled
  <2>2. acks[c] = "accepted"
    BY <2>1 DEF IInv, LoopInv, BookInv, BookOk
  <2>3. orders'[c].status \in {"FILLED", "PARTIAL"} /\ orders'[c].qty = orders[c].qty
    BY <1>6 DEF Filled
  <2> QED BY <2>1, <2>2, <2>3 DEF BookOk
<1> QED BY OrderSteps, <1>2, <1>3, <1>4, <1>5, <1>6 DEF OrderStep

\* The blob's part of memory, while the process is up.
LEMMA BlobInMemory ==
    ASSUME IInv, pc # "down", NEW c \in Coid
    PROVE  /\ paper_state.acks[c] \in {"none", acks[c]}
           /\ paper_state.fills[c] # <<>> => paper_state.fills[c] = broker_fills[c]
BY DEF IInv, LoopInv, MemoryInv, BookInv, BookOk

LEMMA BlobFrame ==
    ASSUME [Next]_vars
    PROVE  UNCHANGED paper_state \/ PersistBlob
BY DEF Next, BootStep, CycleStep, Boot, ReplayFill, ReplayDone, FailRunningCycle,
       finish_cycle, FailRunningDone, ReadyFresh, ProbeOnly, SyncEquity,
       snapshot_equity, SyncPositions, snapshot_positions, ResolveIntent, IngestFill,
       RejectIntent, mark_filled, mark_rejected, set_order_status, GateOpens,
       GateHalts, Wake, WaitKilled, StartCycle, start_cycle, SkipTerminal, KillGate,
       BodySkips, RiskHalts, Decide, Place, PlaceStep, SkipReplay, PersistIntent,
       record_intent, Submit, PersistReject, PersistSubmitted, mark_submitted,
       PersistFill, PlaceReturns, PersistPositions, PersistEquity, Finish,
       CycleRaises, EscapesRunCycle, Crash, Tick, Operator, vars, storeVars

LEMMA BlobInvNext ==
    ASSUME IInv, [Next]_vars
    PROVE  BookInv(paper_state.acks, paper_state.fills)'
<1> USE DEF IInv, TypeOK, StoreTypeOK, BrokerTypeOK
<1> SUFFICES ASSUME NEW c \in Coid
             PROVE  BookOk(paper_state'.acks[c], paper_state'.fills[c],
                           orders'[c], fills'[c])
  BY DEF BookInv
<1>1. CASE UNCHANGED paper_state
  <2>1. BookOk(paper_state.acks[c], paper_state.fills[c], orders[c], fills[c])
    BY DEF LoopInv, BookInv
  <2>2. CASE UNCHANGED <<orders, fills>> BY <1>1, <2>1, <2>2
  <2>3. CASE pc # "down"
    <3>1. paper_state.fills[c] \in Seq(Int) BY DEF PaperState
    <3> QED BY <1>1, <2>1, <2>3, <3>1, BlobInMemory, BookFrame
  <2>4. pc = "down" => UNCHANGED <<orders, fills>>
    BY OrderSteps DEF Next, BootStep, CycleStep, Boot, ReplayFill, ReplayDone,
       FailRunningCycle, FailRunningDone, ReadyFresh, ProbeOnly, SyncEquity,
       SyncPositions, ResolveIntent, GateOpens, GateHalts, Wake, WaitKilled, StartCycle,
       SkipTerminal, KillGate, BodySkips, RiskHalts, Decide, Place, PlaceReturns,
       PersistPositions, PersistEquity, PersistBlob, Finish, CycleRaises,
       EscapesRunCycle, Crash, Tick, Operator, vars, storeVars
  <2> QED BY <2>2, <2>3, <2>4
<1>2. CASE PersistBlob /\ paper_state' # paper_state
  <2>1. paper_state'.acks = acks /\ paper_state'.fills = broker_fills
    BY <1>2 DEF PersistBlob, save_paper_state, snapshot_state
  <2>2. UNCHANGED <<orders, fills>> BY <1>2 DEF PersistBlob, save_paper_state
  <2> QED BY <2>1, <2>2 DEF LoopInv, BookInv
<1> QED BY <1>1, <1>2, BlobFrame

\* Every step but these leaves the broker's book in memory as it is.
LEMMA BrokerFrame ==
    ASSUME [Next]_vars
    PROVE  \/ UNCHANGED brokerVars
           \/ Boot
           \/ \E c \in Coid : ReplayFill(c)
           \/ Place /\ Submit
           \/ /\ acks' = NoAcks /\ broker_fills' = NoFills /\ positions' = Flat
              /\ pc' = "down" /\ UNCHANGED <<orders, fills, paper_state>>
<1>1. Die => acks' = NoAcks /\ broker_fills' = NoFills /\ positions' = Flat /\ pc' = "down"
  BY DEF Die, Reset
<1>2. EndCycle =>
        \/ UNCHANGED brokerVars
        \/ acks' = NoAcks /\ broker_fills' = NoFills /\ positions' = Flat /\ pc' = "down"
  BY <1>1 DEF EndCycle
<1>3. CASE SkipTerminal \/ Finish \/ EscapesRunCycle
  BY <1>2, <1>3 DEF SkipTerminal, Finish, finish_cycle, EscapesRunCycle, storeVars
<1>4. CASE GateHalts \/ Crash
  BY <1>1, <1>4 DEF GateHalts, Crash, storeVars
<1>5. CASE Place
  BY <1>5 DEF Place, PlaceStep, SkipReplay, PersistIntent, PersistReject,
              PersistSubmitted, PersistFill
<1>6. CASE ~(SkipTerminal \/ Finish \/ EscapesRunCycle \/ GateHalts \/ Crash \/ Place)
  BY <1>6 DEF Next, BootStep, CycleStep, ReplayDone, FailRunningCycle, FailRunningDone,
       ReadyFresh, ProbeOnly, SyncEquity, SyncPositions, ResolveIntent, GateOpens, Wake,
       WaitKilled, StartCycle, KillGate, BodySkips, RiskHalts, Decide, PlaceReturns,
       PersistPositions, PersistEquity, PersistBlob, CycleRaises, Tick, Operator, vars
<1> QED BY <1>3, <1>4, <1>5, <1>6

\* What a replayed fill and an executing submit do to the broker's book.
LEMMA ReplayEffect ==
    ASSUME IInv, NEW c \in Coid, ReplayFill(c)
    PROVE  /\ acks[c] = "none" /\ broker_fills[c] = <<>>
           /\ fills[c] # <<>> /\ fills[c] = <<fills[c][1]>>
           /\ acks'[c] = "accepted" /\ broker_fills'[c] = fills[c]
           /\ \A d \in Coid \ {c} : acks'[d] = acks[d] /\ broker_fills'[d] = broker_fills[d]
           /\ UNCHANGED <<orders, fills, paper_state, pc>>
<1> USE DEF IInv, TypeOK, StoreTypeOK, BrokerTypeOK
<1>1. acks[c] = "none" /\ fills[c] # <<>>
  BY DEF ReplayFill, ToReplay, fills_since
<1>2. broker_fills[c] = <<>> BY <1>1 DEF LoopInv, BookInv, BookOk
<1>3. fills[c] = <<fills[c][1]>> /\ fills[c][1] \in Int
  BY <1>1 DEF LoopInv, StoreInv
<1>4. book_fill(c, fills[c][1]) BY DEF ReplayFill, apply_recorded_fill
<1>5. acks'[c] = "accepted" /\ broker_fills'[c] = <<fills[c][1]>>
  BY <1>2, <1>3, <1>4 DEF book_fill
<1>6. \A d \in Coid \ {c} : acks'[d] = acks[d] /\ broker_fills'[d] = broker_fills[d]
  BY <1>4 DEF book_fill
<1> QED BY <1>1, <1>2, <1>3, <1>5, <1>6 DEF ReplayFill, storeVars, procVars

LEMMA SubmitEffect ==
    ASSUME IInv, Place, Submit
    PROVE  /\ pc = "place" /\ pc' = pc /\ om_step = "submit"
           /\ order.coid \in Coid /\ order.coid.cycle = cycle_ts
           /\ acks[order.coid] = "none"
           /\ orders[order.coid].qty = order.qty
           /\ orders[order.coid].status \in {"NEW", "SUBMITTED"}
           /\ fills[order.coid] = <<>>
           /\ \/ /\ acks'[order.coid] = "rejected" /\ broker_fills'[order.coid] = <<>>
                 /\ om_step' = "mark_rejected"
              \/ \E q \in Fillable(order.qty) :
                   /\ acks'[order.coid] = "accepted"
                   /\ broker_fills'[order.coid] = <<q>>
                   /\ booked' = q
                   /\ om_step' = "mark_submitted"
           /\ \A d \in Coid \ {order.coid} :
                acks'[d] = acks[d] /\ broker_fills'[d] = broker_fills[d]
           /\ UNCHANGED <<orders, fills, paper_state, order, batch, cycle_ts>>
<1> USE DEF IInv, TypeOK, StoreTypeOK, BrokerTypeOK
<1> DEFINE c == order.coid
<1>1. pc = "place" /\ pc' = pc /\ om_step = "submit"
  BY DEF Place, Submit, procVars
<1>2. /\ order \in OrderRequest /\ c.cycle = cycle_ts
      /\ orders[c].qty = order.qty /\ orders[c].status \in {"NEW", "SUBMITTED"}
      /\ fills[c] = <<>> /\ acks[c] = "none"
  BY <1>1 DEF LoopInv, PlaceInv
<1>3. c \in Coid /\ order.qty \in Int BY <1>2 DEF OrderRequest
<1>4. broker_fills[c] = <<>> BY <1>2, <1>3 DEF LoopInv, BookInv, BookOk
<1>5. UNCHANGED <<orders, fills, paper_state, order, batch, cycle_ts>>
  BY DEF Place, Submit, storeVars, procVars
<1>6. CASE submit_rejected(c)
  <2>1. acks' = [acks EXCEPT ![c] = "rejected"] /\ UNCHANGED broker_fills
    BY <1>6 DEF submit_rejected
  <2>2. om_step' = "mark_rejected" BY <2>1, <1>3 DEF Submit
  <2> QED BY <1>1, <1>2, <1>3, <1>4, <1>5, <2>1, <2>2
<1>7. CASE \E q \in Fillable(order.qty) : submit_filled(order, q) /\ booked' = q
  <2>1. PICK q \in Fillable(order.qty) : submit_filled(order, q) /\ booked' = q
    BY <1>7
  <2>2. q \in Int BY <1>3, FillableIsNotZero
  <2>3. /\ acks' = [acks EXCEPT ![c] = "accepted"]
        /\ broker_fills' = [broker_fills EXCEPT ![c] = Append(broker_fills[c], q)]
    BY <2>1 DEF submit_filled, book_fill
  <2>4. Append(broker_fills[c], q) = <<q>> BY <1>4, <2>2
  <2>5. om_step' = "mark_submitted" BY <2>3, <1>3 DEF Submit
  <2> QED BY <1>1, <1>2, <1>3, <1>5, <2>1, <2>3, <2>4, <2>5
<1>8. CASE submit_known(c) BY <1>2, <1>8 DEF submit_known
<1> QED BY <1>6, <1>7, <1>8 DEF Submit

LEMMA BrokerInvNext ==
    ASSUME IInv, [Next]_vars
    PROVE  BookInv(acks, broker_fills)'
<1> USE DEF IInv, TypeOK, StoreTypeOK, BrokerTypeOK
<1> SUFFICES ASSUME NEW c \in Coid
             PROVE  BookOk(acks'[c], broker_fills'[c], orders'[c], fills'[c])
  BY DEF BookInv
<1>1. BookOk(acks[c], broker_fills[c], orders[c], fills[c])
  BY DEF LoopInv, BookInv
<1>2. CASE UNCHANGED brokerVars
  <2>1. BookOk(acks[c], broker_fills[c], orders'[c], fills'[c])
    BY <1>1, BookFrame
  <2> QED BY <1>2, <2>1 DEF brokerVars
<1>3. CASE Boot
  BY <1>3 DEF Boot, restore, storeVars, LoopInv, BookInv
<1>4. CASE \E d \in Coid : ReplayFill(d)
  <2> PICK d \in Coid : ReplayFill(d) BY <1>4
  <2>1. CASE c # d BY <2>1, <1>1, ReplayEffect
  <2>2. CASE c = d
    <3>1. /\ fills[c] # <<>> /\ Len(fills[c]) <= 1
          /\ fills[c][1] \in Fillable(orders[c].qty)
          /\ orders[c].status \in {"SUBMITTED", "PARTIAL", "FILLED"}
      BY <2>2, ReplayEffect DEF LoopInv, StoreInv
    <3> QED BY <2>2, <3>1, ReplayEffect DEF BookOk
  <2> QED BY <2>1, <2>2
<1>5. CASE Place /\ Submit
  <2>1. CASE c # order.coid BY <2>1, <1>1, <1>5, SubmitEffect
  <2>2. CASE c = order.coid
    <3>1. /\ orders'[c].status \in {"NEW", "SUBMITTED"} /\ fills'[c] = <<>>
          /\ orders'[c].qty = order.qty
      BY <2>2, <1>5, SubmitEffect
    <3>2. CASE acks'[c] = "rejected" /\ broker_fills'[c] = <<>>
      BY <3>1, <3>2 DEF BookOk
    <3>3. ASSUME NEW q \in Fillable(order.qty),
                 acks'[c] = "accepted", broker_fills'[c] = <<q>>
          PROVE  BookOk(acks'[c], broker_fills'[c], orders'[c], fills'[c])
      BY <3>1, <3>3 DEF BookOk
    <3> QED BY <2>2, <1>5, <3>2, <3>3, SubmitEffect
  <2> QED BY <2>1, <2>2
<1>6. CASE /\ acks' = NoAcks /\ broker_fills' = NoFills
           /\ UNCHANGED <<orders, fills, paper_state>>
  BY <1>6 DEF NoAcks, NoFills, BookOk
<1> QED BY <1>2, <1>3, <1>4, <1>5, <1>6, BrokerFrame

-----------------------------------------------------------------------------
(* Memory and the watermark                                                *)

\* Apart from Boot and ReplayDone no step enters a later phase of recovery.
LEMMA PhaseFrame ==
    ASSUME TypeOK, [Next]_vars
    PROVE  \/ pc' = "down"
           \/ Boot
           \/ ReplayDone
           \/ /\ pc # "down"
              /\ pc' \in Booting => pc \in Booting
              /\ pc' # "replay" => pc # "replay"
<1> USE DEF Booting
<1>1. CASE UNCHANGED pc BY <1>1 DEF TypeOK, LoopTypeOK
<1>2. CASE BootStep
  BY <1>2 DEF BootStep, ReplayFill, FailRunningCycle, FailRunningDone, Goto, ReadyFresh,
       BecomeReady, ProbeOnly, SyncEquity, SyncPositions, ResolveIntent, procVars,
       GateOpens, GateHalts, Die
<1>3. CASE CycleStep
  BY <1>3 DEF CycleStep, Wake, WaitKilled, StartCycle, SkipTerminal, EndCycle, Die,
       KillGate, BodySkips, RiskHalts, Decide, Place, procVars, Goto, PlaceReturns,
       PersistPositions, PersistEquity, PersistBlob, Finish
<1>4. CASE CycleRaises \/ EscapesRunCycle \/ Crash
  BY <1>4 DEF CycleRaises, EscapesRunCycle, EndCycle, Crash, Die
<1>5. CASE Tick \/ Operator BY <1>1, <1>5 DEF Tick, Operator, procVars
<1> QED BY <1>1, <1>2, <1>3, <1>4, <1>5 DEF Next, vars, procVars

\* The blob that a cycle saves is the book in memory, and it becomes the latest.
LEMMA BlobEffect ==
    ASSUME IInv, PersistBlob
    PROVE  /\ paper_state'.acks = acks /\ paper_state'.fills = broker_fills
           /\ paper_state'.cycle_ts = cycle_ts /\ paper_state.cycle_ts < cycle_ts
           /\ pc = "persist_blob" /\ pc' = "finish"
           /\ UNCHANGED <<orders, fills, acks, broker_fills, cycles, cycle_ts, now>>
<1>1. pc = "persist_blob" /\ pc' = "finish" BY DEF PersistBlob
<1>2. paper_state.cycle_ts < cycle_ts BY <1>1 DEF IInv, LoopInv, ClockInv
<1>3. cycle_ts \in Int /\ paper_state.cycle_ts \in Int
  BY Instants DEF IInv
<1>4. paper_state' = snapshot_state(cycle_ts)
  BY <1>2, <1>3 DEF PersistBlob, save_paper_state
<1> QED BY <1>1, <1>2, <1>4
        DEF snapshot_state, PersistBlob, save_paper_state, brokerVars, envVars

LEMMA FillsOnlyGrow ==
    ASSUME IInv, [Next]_vars, NEW c \in Coid
    PROVE  \/ fills'[c] = fills[c]
           \/ Filled(c) /\ fills[c] = <<>> /\ fills'[c] # <<>>
BY OrderSteps DEF OrderStep, Kept, Intended, Rejected, Submitted, Filled

LEMMA MemoryInvNext ==
    ASSUME IInv, [Next]_vars
    PROVE  MemoryInv'
<1> USE DEF IInv, TypeOK, StoreTypeOK, BrokerTypeOK, LoopTypeOK
<1> SUFFICES ASSUME NEW c \in Coid
      PROVE /\ pc' # "down" /\ paper_state'.acks[c] # "none" =>
                 acks'[c] = paper_state'.acks[c] /\ broker_fills'[c] = paper_state'.fills[c]
            /\ pc' \in Booting /\ acks'[c] # "none" =>
                 paper_state'.acks[c] # "none" \/ fills'[c] # <<>>
            /\ pc' \notin {"down", "replay"} /\ fills'[c] # <<>> => acks'[c] = "accepted"
  BY DEF MemoryInv
<1>0. /\ pc # "down" /\ paper_state.acks[c] # "none" =>
            acks[c] = paper_state.acks[c] /\ broker_fills[c] = paper_state.fills[c]
      /\ pc \in Booting /\ acks[c] # "none" =>
            paper_state.acks[c] # "none" \/ fills[c] # <<>>
      /\ pc \notin {"down", "replay"} /\ fills[c] # <<>> => acks[c] = "accepted"
  BY DEF LoopInv, MemoryInv
<1>1. CASE pc' = "down" BY <1>1 DEF Booting
<1>2. CASE Boot
  <2>1. /\ acks' = paper_state.acks /\ broker_fills' = paper_state.fills
        /\ pc' = "replay" /\ UNCHANGED <<fills, paper_state>>
    BY <1>2 DEF Boot, restore, Goto, storeVars
  <2> QED BY <2>1
<1>3. CASE ReplayDone
  <2>1. /\ pc = "replay" /\ pc' = "fail_running"
        /\ UNCHANGED <<acks, broker_fills, fills, paper_state>>
    BY <1>3 DEF ReplayDone, Goto, storeVars, brokerVars
  <2>2. ASSUME fills[c] # <<>> PROVE acks[c] = "accepted"
    <3>1. acks[c] # "rejected"
      BY <2>2 DEF LoopInv, BookInv, BookOk
    <3>2. c.cycle \in Int /\ paper_state.cycle_ts \in Int
      BY Instants
    <3>3. CASE c.cycle >= paper_state.cycle_ts + 1
      <4>1. acks[c] # "none"
        BY <1>3, <2>2, <3>3 DEF ReplayDone, ToReplay, fills_since
      <4> QED BY <3>1, <4>1 DEF AckStatus
    <3>4. CASE c.cycle <= paper_state.cycle_ts
      <4>1. paper_state.acks[c] = "accepted"
        BY <2>2, <3>4 DEF LoopInv, WatermarkInv
      <4> QED BY <4>1, <2>1, <1>0
    <3> QED BY <3>2, <3>3, <3>4
  <2> QED BY <1>0, <2>1, <2>2 DEF Booting
<1>4. CASE /\ pc # "down"
           /\ pc' \in Booting => pc \in Booting
           /\ pc' # "replay" => pc # "replay"
  <2>1. CASE UNCHANGED brokerVars
    <3>1. CASE UNCHANGED paper_state
      BY <1>0, <1>4, <2>1, <3>1, FillsOnlyGrow
         DEF brokerVars, Filled, LoopInv, BookInv, BookOk
    <3>2. CASE PersistBlob
      BY <1>0, <3>2, BlobEffect DEF Booting
    <3> QED BY <3>1, <3>2, BlobFrame
  <2>2. CASE \E d \in Coid : ReplayFill(d)
    <3> PICK d \in Coid : ReplayFill(d) BY <2>2
    <3>1. pc' = pc /\ UNCHANGED <<fills, paper_state>> BY ReplayEffect
    <3>2. CASE d = c BY <1>0, <1>4, <3>1, <3>2, ReplayEffect
    <3>3. CASE d # c BY <1>0, <3>1, <3>3, ReplayEffect
    <3> QED BY <3>2, <3>3
  <2>3. CASE Place /\ Submit
    <3>1. pc = "place" /\ pc' = pc /\ UNCHANGED <<fills, paper_state>>
      BY <2>3, SubmitEffect
    <3>2. CASE c = order.coid
      BY <1>0, <2>3, <3>1, <3>2, SubmitEffect DEF Booting
    <3>3. CASE c # order.coid
      BY <1>0, <2>3, <3>1, <3>3, SubmitEffect DEF Booting
    <3> QED BY <3>2, <3>3
  <2>4. CASE Boot BY <1>2, <2>4
  <2>5. CASE pc' = "down" BY <1>1, <2>5
  <2> QED BY <2>1, <2>2, <2>3, <2>4, <2>5, BrokerFrame
<1> QED BY <1>1, <1>2, <1>3, <1>4, PhaseFrame

LEMMA WatermarkInvNext ==
    ASSUME IInv, [Next]_vars
    PROVE  WatermarkInv'
<1> USE DEF IInv, TypeOK, StoreTypeOK, BrokerTypeOK, LoopTypeOK
<1> SUFFICES ASSUME NEW c \in Coid, fills'[c] # <<>>, c.cycle <= paper_state'.cycle_ts
             PROVE  paper_state'.acks[c] = "accepted"
  BY DEF WatermarkInv
<1>1. CASE PersistBlob
  <2>1. fills[c] # <<>> /\ paper_state'.acks = acks /\ pc = "persist_blob"
    BY <1>1, BlobEffect
  <2> QED BY <2>1 DEF LoopInv, MemoryInv
<1>2. CASE UNCHANGED paper_state
  <2>1. CASE fills'[c] = fills[c] BY <1>2, <2>1 DEF LoopInv, WatermarkInv
  <2>2. CASE Filled(c) /\ fills[c] = <<>>
    <3>1. acks[c] = "accepted" BY <2>2 DEF Filled, LoopInv, BookInv, BookOk
    <3>2. CASE pc = "resolve"
      <4>1. paper_state.acks[c] # "none"
        BY <2>2, <3>1, <3>2 DEF LoopInv, MemoryInv, Booting
      <4> QED BY <1>2, <3>1, <3>2, <4>1 DEF LoopInv, MemoryInv
    <3>3. CASE pc = "place" /\ c.cycle = cycle_ts
      <4>1. paper_state.cycle_ts < c.cycle BY <3>3 DEF LoopInv, ClockInv
      <4>2. c.cycle \in Int /\ paper_state.cycle_ts \in Int
        BY Instants
      <4> QED BY <1>2, <4>1, <4>2
    <3> QED BY <2>2, <3>2, <3>3 DEF Filled
  <2> QED BY <2>1, <2>2, FillsOnlyGrow
<1> QED BY <1>1, <1>2, BlobFrame

-----------------------------------------------------------------------------
(* Bars and the clock                                                      *)

\* Three steps write the cycles table.
LEMMA CyclesFrame ==
    ASSUME [Next]_vars
    PROVE  \/ UNCHANGED cycles
           \/ StartCycle \/ Finish
           \/ \E b \in Bars : FailRunningCycle(b)
BY DEF Next, BootStep, CycleStep, Boot, ReplayFill, ReplayDone, FailRunningDone,
       ReadyFresh, ProbeOnly, SyncEquity, snapshot_equity, SyncPositions,
       snapshot_positions, ResolveIntent, IngestFill, RejectIntent, mark_filled,
       mark_rejected, set_order_status, GateOpens, GateHalts, Wake, WaitKilled,
       SkipTerminal, KillGate, BodySkips, RiskHalts, Decide, Place, PlaceStep,
       SkipReplay, PersistIntent, record_intent, Submit, PersistReject,
       PersistSubmitted, mark_submitted, PersistFill, PlaceReturns, PersistPositions,
       PersistEquity, PersistBlob, save_paper_state, CycleRaises, EscapesRunCycle,
       Crash, Tick, Operator, vars, storeVars

\* A bar once opened stays opened, and only start_cycle opens one.
LEMMA OpenedFrame ==
    ASSUME IInv, [Next]_vars
    PROVE  /\ \A b \in Bars : Opened(b) => Opened(b)'
           /\ \/ \A b \in Bars : Opened(b)' => Opened(b)
              \/ /\ StartCycle
                 /\ \A b \in Bars : Opened(b)' => Opened(b) \/ b = cycle_ts
           /\ now' >= now
<1> USE DEF Opened
<1>0. cycles \in [Bars -> CycleStatus] /\ outcome \in TerminalCycle /\ now \in Nat
  BY Instants DEF IInv, TypeOK, StoreTypeOK, LoopTypeOK
<1>1. CASE StartCycle
  BY <1>0, <1>1 DEF StartCycle, start_cycle, envVars
<1>2. CASE \E b \in Bars : FailRunningCycle(b)
  BY <1>0, <1>2 DEF FailRunningCycle, finish_cycle, envVars
<1>3. CASE Finish
  BY <1>0, <1>3 DEF Finish, finish_cycle, envVars, TerminalCycle
<1>4. CASE UNCHANGED cycles /\ now' \in {now, now + 1}
  BY <1>0, <1>4
<1>5. UNCHANGED cycles
      \/ StartCycle \/ (\E b \in Bars : FailRunningCycle(b)) \/ Finish
  BY CyclesFrame
<1>6. now' \in {now, now + 1}
  BY DEF Next, BootStep, CycleStep, Boot, ReplayFill, ReplayDone, FailRunningCycle,
         FailRunningDone, ReadyFresh, ProbeOnly, SyncEquity, SyncPositions,
         ResolveIntent, GateOpens, GateHalts, Wake, WaitKilled, StartCycle,
         SkipTerminal, KillGate, BodySkips, RiskHalts, Decide, Place, PlaceReturns,
         PersistPositions, PersistEquity, PersistBlob, Finish, CycleRaises,
         EscapesRunCycle, Crash, Tick, Operator, vars, envVars
<1> QED BY <1>1, <1>2, <1>3, <1>4, <1>5, <1>6

\* The part of ClockInv that is about the store and the clock alone.
LEMMA OpenedNext ==
    ASSUME IInv, [Next]_vars
    PROVE  /\ \A b \in Bars : Opened(b)' => b <= now'
           /\ paper_state'.cycle_ts # NoBlob => Opened(paper_state.cycle_ts)'
           /\ \A c \in Coid : orders'[c].status # "absent" => Opened(c.cycle)'
<1>0. TypeOK /\ ClockInv BY DEF IInv, LoopInv
<1>1. ASSUME NEW b \in Bars, Opened(b)'
      PROVE  b <= now'
  <2>1. now' \in Nat BY LoopTypeNext, BarsAreInstants DEF IInv, LoopTypeOK
  <2>2. now' >= now BY OpenedFrame
  <2>3. now \in Nat /\ b \in Nat BY <1>0, Instants
  <2>4. CASE Opened(b)
    <3>1. b <= now BY <1>0, <2>4 DEF ClockInv
    <3> QED BY <2>1, <2>2, <2>3, <3>1
  <2>5. CASE StartCycle /\ b = cycle_ts
    <3>1. b <= now BY <1>0, <2>5 DEF ClockInv, StartCycle, InCycle
    <3> QED BY <2>1, <2>2, <2>3, <3>1
  <2> QED BY <1>1, <2>4, <2>5, OpenedFrame
<1>2. ASSUME paper_state'.cycle_ts # NoBlob
      PROVE  Opened(paper_state.cycle_ts)'
  <2>1. CASE UNCHANGED paper_state
    <3>1. paper_state.cycle_ts \in Bars /\ Opened(paper_state.cycle_ts)
      BY <1>0, <1>2, <2>1 DEF TypeOK, StoreTypeOK, PaperState, ClockInv
    <3> QED BY <2>1, <3>1, OpenedFrame DEF Opened
  <2>2. CASE PersistBlob
    <3>1. cycles[cycle_ts] = "running"
      BY <1>0, <2>2 DEF PersistBlob, ClockInv, InCycle
    <3> QED BY <2>2, <3>1, BlobEffect DEF Opened
  <2> QED BY <2>1, <2>2, BlobFrame
<1>3. ASSUME NEW c \in Coid, orders'[c].status # "absent"
      PROVE  Opened(c.cycle)'
  <2>1. c.cycle \in Bars BY <1>0, Instants
  <2>2. CASE orders[c].status # "absent"
    <3>1. Opened(c.cycle) BY <1>0, <2>2 DEF ClockInv
    <3> QED BY <2>1, <3>1, OpenedFrame DEF Opened
  <2>3. CASE pc = "place" /\ c.cycle = cycle_ts
    <3>1. cycles[c.cycle] = "running" BY <1>0, <2>3 DEF ClockInv, InCycle
    <3>2. Opened(c.cycle) BY <3>1 DEF Opened
    <3> QED BY <2>1, <3>2, OpenedFrame DEF Opened
  <2> QED BY <1>3, <2>2, <2>3, OrderSteps
          DEF OrderStep, Kept, Intended, Rejected, Submitted, Filled
<1> QED BY <1>1, <1>2, <1>3

\* Boot is over, or the loop wakes up: no opened bar is later than the new one.
LEMMA ReadyEffect ==
    ASSUME IInv, BecomeReady, UNCHANGED <<cycles, paper_state, now>>, running_cycles = {}
    PROVE  /\ pc' \in {"start", "idle"}
           /\ cycle_ts' <= now'
           /\ \A b \in Bars : Opened(b)' => b <= cycle_ts' /\ b + BarMs <= deadline'
           /\ cycles'[cycle_ts'] # "running"
<1>0. TypeOK /\ ClockInv BY DEF IInv, LoopInv
<1>1. now \in Nat BY <1>0, Instants
<1>2. /\ cycle_ts' = floor_bar(now) /\ cycle_ts' \in Bars /\ now' = now
      /\ cycles' = cycles /\ deadline' = next_deadline(now)
      /\ pc' \in {"start", "idle"}
  BY DEF BecomeReady
<1>3. cycle_ts' <= now' BY <1>1, <1>2, FloorIsABar
<1>4. cycles'[cycle_ts'] # "running" BY <1>2 DEF running_cycles
<1>5. ASSUME NEW b \in Bars, Opened(b)'
      PROVE  b <= cycle_ts' /\ b + BarMs <= deadline'
  <2>1. b \in Nat /\ b % BarMs = 0 /\ b <= now
    BY <1>0, <1>2, <1>5, Instants DEF ClockInv, Opened
  <2> QED BY <1>1, <1>2, <2>1, FloorIsTheLatest, DeadlineIsBeyondTheBar
<1> QED BY <1>2, <1>3, <1>4, <1>5

LEMMA WakeEffect ==
    ASSUME IInv, Wake
    PROVE  /\ pc' = "start" /\ cycle_ts' <= now'
           /\ \A b \in Bars : Opened(b)' => b <= cycle_ts'
           /\ cycles'[cycle_ts'] # "running"
<1>0. TypeOK /\ ClockInv BY DEF IInv, LoopInv
<1>1. now \in Nat /\ deadline \in Nat /\ BarMs \in Nat \ {0}
  BY <1>0, Instants, TypesAssumption
<1>2. /\ pc = "idle" /\ now >= deadline /\ pc' = "start"
      /\ cycle_ts' = floor_bar(now) /\ cycle_ts' \in Bars /\ now' = now /\ cycles' = cycles
  BY DEF Wake, storeVars, envVars
<1>3. cycle_ts' <= now' BY <1>1, <1>2, FloorIsABar
<1>4. ASSUME NEW b \in Bars, Opened(b)
      PROVE  b < cycle_ts'
  <2>1. b \in Nat /\ b % BarMs = 0 /\ b + BarMs <= deadline
    BY <1>0, <1>2, <1>4, Instants DEF ClockInv
  <2>2. b + BarMs \in Nat /\ b + BarMs <= now BY <1>1, <1>2, <2>1
  <2>3. (b + BarMs) % BarMs = 0 BY <2>1, NextBarIsABar
  <2>4. b + BarMs <= floor_bar(now) BY <1>1, <2>2, <2>3, FloorIsTheLatest
  <2> QED BY <1>1, <1>2, <2>1, <2>4, FloorIsABar
<1>5. ~Opened(cycle_ts')
  <2>1. cycle_ts' \in Nat BY <1>2, <1>0, Instants
  <2> QED BY <1>2, <1>4, <2>1
<1>6. \A b \in Bars : Opened(b)' => b <= cycle_ts'
  <2>1. \A b \in Bars : Opened(b)' <=> Opened(b) BY <1>2 DEF Opened
  <2>2. cycle_ts' \in Nat BY <1>2, <1>0, Instants
  <2> QED BY <1>0, <1>4, <2>1, <2>2, Instants
<1> QED BY <1>2, <1>3, <1>5, <1>6 DEF Opened

\* A cycle starts on a bar without a row, so nothing of it exists yet.
LEMMA StartEffect ==
    ASSUME IInv, StartCycle
    PROVE  /\ pc' = "gate" /\ cycle_ts' = cycle_ts /\ now' = now
           /\ cycles[cycle_ts] = "absent" /\ cycles'[cycle_ts] = "running"
           /\ paper_state'.cycle_ts < cycle_ts
           /\ \A c \in Coid : c.cycle = cycle_ts => orders'[c].status = "absent"
<1>0. TypeOK /\ ClockInv BY DEF IInv, LoopInv
<1>1. /\ pc = "start" /\ pc' = "gate" /\ cycle_ts' = cycle_ts /\ now' = now
      /\ cycle_ts \in Bars /\ UNCHANGED <<orders, paper_state>>
      /\ cycles' = [cycles EXCEPT ![cycle_ts] = IF @ = "absent" THEN "running" ELSE @]
  BY <1>0 DEF StartCycle, start_cycle, Goto, envVars, TypeOK, LoopTypeOK
<1>2. cycles[cycle_ts] = "absent"
  BY <1>0, <1>1 DEF StartCycle, MayProceed, ClockInv
<1>3. cycles'[cycle_ts] = "running"
  BY <1>0, <1>1, <1>2 DEF TypeOK, StoreTypeOK
<1>4. paper_state.cycle_ts < cycle_ts
  <2>1. CASE paper_state.cycle_ts = NoBlob BY <1>0, <2>1, Instants DEF NoBlob
  <2>2. CASE paper_state.cycle_ts # NoBlob
    <3>1. paper_state.cycle_ts \in Bars /\ Opened(paper_state.cycle_ts)
      BY <1>0, <2>2 DEF TypeOK, StoreTypeOK, PaperState, ClockInv
    <3>2. paper_state.cycle_ts <= cycle_ts BY <1>0, <1>1, <3>1 DEF ClockInv, InCycle
    <3>3. paper_state.cycle_ts # cycle_ts BY <1>2, <3>1 DEF Opened
    <3> QED BY <1>0, <3>2, <3>3, Instants
  <2> QED BY <2>1, <2>2
<1>5. \A c \in Coid : c.cycle = cycle_ts => orders[c].status = "absent"
  BY <1>0, <1>2 DEF ClockInv, Opened
<1> QED BY <1>1, <1>2, <1>3, <1>4, <1>5

\* The steps that move a cycle on between its start and its end.
CycleMoves == \/ KillGate \/ BodySkips \/ RiskHalts \/ Decide \/ Place \/ PlaceReturns
              \/ PersistPositions \/ PersistEquity \/ PersistBlob \/ CycleRaises

LEMMA CycleMovesEffect ==
    ASSUME CycleMoves
    PROVE  /\ pc \in InCycle \ {"start"} /\ pc' \in InCycle \ {"start"}
           /\ UNCHANGED <<cycles, cycle_ts, now>>
           /\ PersistBlob \/ UNCHANGED paper_state
           /\ PersistBlob => pc' = "finish"
           /\ pc' \in {"gate", "body", "place", "persist_positions", "persist_equity",
                       "persist_blob"} =>
                pc \in {"gate", "body", "place", "persist_positions", "persist_equity"}
<1> USE DEF InCycle, storeVars, procVars, envVars, Goto
<1>1. CASE KillGate \/ BodySkips \/ RiskHalts \/ Decide \/ PlaceReturns \/ CycleRaises
  BY <1>1 DEF KillGate, BodySkips, RiskHalts, Decide, PlaceReturns, CycleRaises,
              PersistBlob
<1>2. CASE PersistPositions \/ PersistEquity \/ PersistBlob
  BY <1>2 DEF PersistPositions, snapshot_positions, PersistEquity, snapshot_equity,
              PersistBlob, save_paper_state
<1>3. CASE Place
  BY <1>3 DEF Place, PlaceStep, SkipReplay, PersistIntent, record_intent, Submit,
              PersistReject, mark_rejected, set_order_status, PersistSubmitted,
              mark_submitted, PersistFill, mark_filled, PersistBlob
<1> QED BY <1>1, <1>2, <1>3 DEF CycleMoves

\* run_cycle ends: the process is gone, or idle with a deadline beyond every bar.
LEMMA EndEffect ==
    ASSUME IInv, EndCycle, pc \in InCycle, UNCHANGED now,
           \A b \in Bars : Opened(b)' => Opened(b)
    PROVE  \/ pc' = "down"
           \/ pc' = "idle" /\ \A b \in Bars : Opened(b)' => b + BarMs <= deadline'
<1>0. TypeOK /\ ClockInv BY DEF IInv, LoopInv
<1>1. CASE Once BY <1>1 DEF EndCycle, Die
<1>2. CASE ~Once
  <2>1. pc' = "idle" /\ deadline' = next_deadline(now) BY <1>2 DEF EndCycle
  <2>2. \A b \in Bars : Opened(b)' => b \in Nat /\ b % BarMs = 0 /\ b <= now
    BY <1>0, Instants DEF ClockInv
  <2>3. now \in Nat BY <1>0, Instants
  <2> QED BY <2>1, <2>2, <2>3, DeadlineIsBeyondTheBar
<1> QED BY <1>1, <1>2

LEMMA ClockInvNext ==
    ASSUME IInv, [Next]_vars
    PROVE  ClockInv'
<1>0. TypeOK /\ ClockInv /\ TypeOK'
  BY TypeCorrectStep DEF IInv, LoopInv
<1> DEFINE
      A == pc \in InCycle =>
             cycle_ts <= now /\ \A b \in Bars : Opened(b) => b <= cycle_ts
      B == /\ pc = "start" => cycles[cycle_ts] # "running"
           /\ pc \in InCycle \ {"start"} => cycles[cycle_ts] = "running"
      C == pc \in {"gate", "body", "place", "persist_positions", "persist_equity",
                   "persist_blob"} => paper_state.cycle_ts < cycle_ts
      D == pc \in {"probe", "sync_positions", "resolve"} => running_cycles = {}
      E == pc = "idle" => \A b \in Bars : Opened(b) => b + BarMs <= deadline
<1>1. A /\ B /\ C /\ D /\ E BY <1>0 DEF ClockInv
<1> SUFFICES A' /\ B' /\ C' /\ D' /\ E' BY OpenedNext DEF ClockInv
<1> USE DEF InCycle
<1>2. CASE pc' \in {"down", "replay", "fail_running"} BY <1>2
<1>3. CASE \/ FailRunningDone \/ ProbeOnly \/ SyncEquity \/ SyncPositions
           \/ \E c \in Coid : ResolveIntent(c)
  <2>1. /\ pc' \in {"probe", "sync_positions", "resolve"}
        /\ UNCHANGED cycles /\ running_cycles = {}
    BY <1>1, <1>3 DEF FailRunningDone, Goto, storeVars, ProbeOnly, SyncEquity,
       snapshot_equity, SyncPositions, snapshot_positions, ResolveIntent, IngestFill,
       RejectIntent, mark_filled, mark_rejected, set_order_status, procVars
  <2> QED BY <2>1 DEF running_cycles
<1>4. CASE ReadyFresh \/ GateOpens
  <2>1. /\ BecomeReady /\ UNCHANGED <<cycles, paper_state, now>>
        /\ pc \in {"probe", "resolve"}
    BY <1>4 DEF ReadyFresh, GateOpens, storeVars, envVars
  <2> QED BY <1>1, <2>1, ReadyEffect
<1>5. CASE Wake BY <1>5, WakeEffect
<1>6. CASE WaitKilled
  <2>1. /\ pc' = "idle" /\ deadline' = next_deadline(now)
        /\ \A b \in Bars : Opened(b)' <=> Opened(b)
    BY <1>6 DEF WaitKilled, storeVars, Opened
  <2>2. \A b \in Bars : Opened(b) => b \in Nat /\ b % BarMs = 0 /\ b <= now
    BY <1>0, Instants DEF ClockInv
  <2>3. now \in Nat BY <1>0, Instants
  <2> QED BY <2>1, <2>2, <2>3, DeadlineIsBeyondTheBar
<1>7. CASE SkipTerminal \/ Finish \/ EscapesRunCycle
  <2>1. EndCycle /\ pc \in InCycle /\ UNCHANGED now
    BY <1>7 DEF SkipTerminal, Finish, EscapesRunCycle, envVars
  <2>2. \A b \in Bars : Opened(b)' => Opened(b)
    <3>1. CASE Finish BY <3>1, OpenedFrame DEF Finish, StartCycle
    <3>2. CASE SkipTerminal \/ EscapesRunCycle
      BY <3>2 DEF SkipTerminal, EscapesRunCycle, storeVars, Opened
    <3> QED BY <1>7, <3>1, <3>2
  <2> QED BY <2>1, <2>2, EndEffect
<1>8. CASE StartCycle
  <2>1. \A b \in Bars : Opened(b)' => b <= cycle_ts
    <3>1. \A b \in Bars : Opened(b) => b <= cycle_ts BY <1>1, <1>8 DEF StartCycle
    <3>2. cycle_ts <= cycle_ts BY <1>0, Instants
    <3> QED BY <1>8, <3>1, <3>2, OpenedFrame
  <2>2. cycle_ts <= now BY <1>1, <1>8 DEF StartCycle
  <2> QED BY <1>8, <2>1, <2>2, StartEffect
<1>9. CASE CycleMoves
  <2>1. \A b \in Bars : Opened(b)' <=> Opened(b)
    BY <1>9, CycleMovesEffect DEF Opened
  <2> QED BY <1>1, <1>9, <2>1, CycleMovesEffect
<1>10. CASE Tick \/ Operator \/ UNCHANGED vars
  <2>1. UNCHANGED <<cycles, paper_state, pc, cycle_ts, deadline>>
    BY <1>10 DEF Tick, Operator, vars, storeVars, procVars
  <2>2. cycle_ts <= now => cycle_ts <= now'
    <3>1. cycle_ts \in Nat /\ now \in Nat BY <1>0, Instants
    <3>2. now' \in Nat
      BY <1>0, BarsAreInstants DEF TypeOK, LoopTypeOK
    <3> QED BY <3>1, <3>2, OpenedFrame
  <2> QED BY <1>1, <2>1, <2>2 DEF Opened, running_cycles
<1>11. CASE \/ Boot \/ ReplayDone \/ GateHalts \/ Crash
            \/ \E c \in Coid : ReplayFill(c)
            \/ \E b \in Bars : FailRunningCycle(b)
  <2>1. pc' \in {"down", "replay", "fail_running"}
    BY <1>11 DEF Boot, Goto, ReplayDone, GateHalts, Crash, Die, ReplayFill, procVars,
                 FailRunningCycle
  <2> QED BY <2>1
<1> QED BY <1>3, <1>4, <1>5, <1>6, <1>7, <1>8, <1>9, <1>10, <1>11
        DEF Next, BootStep, CycleStep, CycleMoves

-----------------------------------------------------------------------------
(* place()                                                                 *)

\* The orders still to come, as PlaceInv states it.
BatchIsNew ==
    \A o \in batch : /\ o.coid.cycle = cycle_ts
                     /\ o.qty # 0
                     /\ orders[o.coid].status = "absent"
                     /\ \A p \in batch : o.coid = p.coid => o = p

\* The order in hand, as PlaceInv states it.
OrderInHand ==
    /\ om_step # "next" =>
         /\ order \in OrderRequest
         /\ order.coid.cycle = cycle_ts
         /\ order.qty # 0
         /\ orders[order.coid].qty = order.qty
         /\ orders[order.coid].status \in {"NEW", "SUBMITTED"}
         /\ fills[order.coid] = <<>>
    /\ om_step = "submit" =>
         booked = 0 /\ acks[order.coid] = "none"
    /\ om_step = "mark_rejected" => acks[order.coid] = "rejected"
    /\ om_step \in {"mark_submitted", "mark_filled"} =>
         booked # 0 /\ broker_fills[order.coid] = <<booked>>

\* Writing the row of the order in hand leaves the batch new.
LEMMA BatchFrame ==
    ASSUME IInv, BatchIsNew, UNCHANGED <<batch, cycle_ts>>, NEW c \in Coid,
           orders[c].status # "absent", NEW row, orders' = [orders EXCEPT ![c] = row]
    PROVE  BatchIsNew'
<1>1. \A o \in batch : o.coid \in Coid /\ o.coid # c
  BY DEF IInv, TypeOK, OmTypeOK, OrderRequest, BatchIsNew
<1>2. \A o \in batch : orders'[o.coid] = orders[o.coid]
  BY <1>1 DEF IInv, TypeOK, StoreTypeOK
<1> QED BY <1>2 DEF BatchIsNew

LEMMA PlaceStepInv ==
    ASSUME IInv, Place
    PROVE  BatchIsNew' /\ OrderInHand'
<1> USE DEF IInv, TypeOK, StoreTypeOK, OmTypeOK, BrokerTypeOK
<1> DEFINE c == order.coid
<1>1. BatchIsNew /\ OrderInHand /\ UNCHANGED <<pc, cycle_ts>>
  BY DEF Place, procVars, LoopInv, PlaceInv, BatchIsNew, OrderInHand
<1>2. \A o \in batch : o \in OrderRequest /\ o.coid \in Coid /\ o.qty \in Int
  BY DEF OrderRequest
<1>3. om_step # "next" =>
        /\ c \in Coid /\ order.qty \in Int
        /\ orders[c].status \in {"NEW", "SUBMITTED"} /\ orders[c].status # "absent"
  BY <1>1 DEF OrderInHand, OrderRequest
<1>4. CASE \E o \in batch : SkipReplay(o)
  BY <1>1, <1>4 DEF SkipReplay, TERMINAL, BatchIsNew
<1>5. CASE \E o \in batch : PersistIntent(o)
  <2> PICK o \in batch : PersistIntent(o) BY <1>5
  <2>1. /\ batch' = batch \ {o} /\ order' = o /\ om_step' = "submit" /\ booked' = 0
        /\ UNCHANGED <<acks, broker_fills, fills>>
        /\ orders' = [orders EXCEPT ![o.coid] =
                        [status |-> "NEW", qty |-> o.qty, filled |-> 0]]
    BY <1>1, <1>2 DEF PersistIntent, record_intent, brokerVars, BatchIsNew
  <2>2. orders[o.coid].status = "absent" /\ o.coid.cycle = cycle_ts /\ o.qty # 0
    BY <1>1 DEF BatchIsNew
  <2>3. fills[o.coid] = <<>> /\ acks[o.coid] = "none"
    BY <1>2, <2>2 DEF LoopInv, StoreInv, BookInv, BookOk
  <2>4. OrderInHand' BY <1>1, <1>2, <2>1, <2>2, <2>3 DEF OrderInHand
  <2>5. \A p \in batch \ {o} : p.coid # o.coid BY <1>1 DEF BatchIsNew
  <2>6. \A p \in batch \ {o} : orders'[p.coid] = orders[p.coid]
    BY <1>2, <2>1, <2>5
  <2> QED BY <1>1, <2>1, <2>4, <2>6 DEF BatchIsNew
<1>6. CASE Submit
  <2>1. BatchIsNew' BY <1>1, <1>6, SubmitEffect DEF BatchIsNew
  <2>2. OrderInHand'
    BY <1>1, <1>3, <1>6, SubmitEffect, FillableIsNotZero DEF OrderInHand
  <2> QED BY <2>1, <2>2
<1>7. CASE PersistReject
  <2>1. /\ om_step = "mark_rejected" /\ om_step' = "next" /\ UNCHANGED batch
        /\ orders' = [orders EXCEPT ![c] = [orders[c] EXCEPT !.status = "REJECTED"]]
    BY <1>7 DEF PersistReject, mark_rejected, set_order_status
  <2>2. BatchIsNew' BY <1>1, <1>3, <2>1, BatchFrame
  <2> QED BY <2>1, <2>2 DEF OrderInHand
<1>8. CASE PersistSubmitted
  <2>1. /\ om_step = "mark_submitted" /\ om_step' \in {"next", "mark_filled"}
        /\ UNCHANGED <<batch, order, booked, broker_fills, fills>>
        /\ orders' = [orders EXCEPT ![c] = [orders[c] EXCEPT !.status = "SUBMITTED"]]
    BY <1>8 DEF PersistSubmitted, mark_submitted, set_order_status, brokerVars
  <2>2. BatchIsNew' BY <1>1, <1>3, <2>1, BatchFrame
  <2>3. orders'[c].status = "SUBMITTED" /\ orders'[c].qty = orders[c].qty
    BY <1>3, <2>1 DEF OrderRow
  <2> QED BY <1>1, <2>1, <2>2, <2>3 DEF OrderInHand
<1>9. CASE PersistFill
  <2>1. /\ om_step = "mark_filled" /\ om_step' = "next" /\ UNCHANGED batch
        /\ \E row : orders' = [orders EXCEPT ![c] = row]
    BY <1>9 DEF PersistFill, mark_filled
  <2>2. BatchIsNew' BY <1>1, <1>3, <2>1, BatchFrame
  <2> QED BY <2>1, <2>2 DEF OrderInHand
<1> QED BY <1>4, <1>5, <1>6, <1>7, <1>8, <1>9 DEF Place, PlaceStep

LEMMA PlaceInvNext ==
    ASSUME IInv, [Next]_vars
    PROVE  PlaceInv'
<1> USE DEF IInv, LoopInv
<1>1. CASE pc' \notin {"gate", "body", "place"} BY <1>1 DEF PlaceInv
<1>2. CASE StartCycle
  BY <1>2, StartEffect DEF PlaceInv
<1>3. CASE KillGate
  BY <1>3 DEF KillGate, PlaceInv, storeVars
<1>4. CASE Decide
  <2>1. /\ pc = "body" /\ pc' = "place" /\ om_step' = "next"
        /\ UNCHANGED <<orders, cycle_ts>>
    BY <1>4 DEF Decide, Goto, storeVars
  <2>2. \A o \in batch' : /\ o \in OrderRequest /\ o.coid.cycle = cycle_ts /\ o.qty # 0
                          /\ \A p \in batch' : o.coid = p.coid => o = p
    BY <1>4, BatchType
  <2>3. \A o \in batch' : orders[o.coid].status = "absent"
    BY <2>1, <2>2 DEF PlaceInv, OrderRequest
  <2> QED BY <2>1, <2>2, <2>3 DEF PlaceInv
<1>5. CASE Place
  <2>1. pc' = "place" BY <1>5 DEF Place, procVars
  <2> QED BY <1>5, <2>1, PlaceStepInv DEF PlaceInv, BatchIsNew, OrderInHand
<1>6. CASE Operator \/ UNCHANGED vars
  BY <1>6 DEF Operator, vars, storeVars, brokerVars, omVars, procVars, PlaceInv
<1>7. \/ pc' \notin {"gate", "body", "place"}
      \/ StartCycle \/ KillGate \/ Decide \/ Place \/ Operator \/ UNCHANGED vars
  BY DEF Next, BootStep, CycleStep, Boot, ReplayFill, ReplayDone, FailRunningCycle,
         FailRunningDone, ReadyFresh, ProbeOnly, SyncEquity, SyncPositions,
         ResolveIntent, GateOpens, GateHalts, BecomeReady, Wake, WaitKilled,
         SkipTerminal, EndCycle, Die, Goto, BodySkips, RiskHalts, PlaceReturns,
         PersistPositions, PersistEquity, PersistBlob, Finish, CycleRaises,
         EscapesRunCycle, Crash, Tick, procVars
<1> QED BY <1>1, <1>2, <1>3, <1>4, <1>5, <1>6, <1>7

-----------------------------------------------------------------------------
(* Durability                                                              *)

\* Nothing takes an equity row away, and only finish_cycle stamps 'ok'.
LEMMA DurableStoreFrame ==
    ASSUME IInv, [Next]_vars
    PROVE  /\ equity_curve \subseteq equity_curve'
           /\ \A b \in Bars : cycles'[b] = "ok" =>
                \/ cycles[b] = "ok"
                \/ Finish /\ b = cycle_ts /\ outcome = "ok"
<1>0. cycles \in [Bars -> CycleStatus] BY DEF IInv, TypeOK, StoreTypeOK
<1>1. CASE StartCycle BY <1>0, <1>1 DEF StartCycle, start_cycle
<1>2. CASE \E b \in Bars : FailRunningCycle(b)
  BY <1>0, <1>2 DEF FailRunningCycle, finish_cycle
<1>3. CASE Finish BY <1>0, <1>3 DEF Finish, finish_cycle
<1>4. CASE SyncEquity \/ PersistEquity
  BY <1>4 DEF SyncEquity, PersistEquity, snapshot_equity
<1>5. UNCHANGED <<cycles, equity_curve>> \/ SyncEquity \/ PersistEquity
      \/ StartCycle \/ (\E b \in Bars : FailRunningCycle(b)) \/ Finish
  BY DEF Next, BootStep, CycleStep, Boot, ReplayFill, ReplayDone, FailRunningDone,
         ReadyFresh, ProbeOnly, SyncPositions, snapshot_positions, ResolveIntent,
         IngestFill, RejectIntent, mark_filled, mark_rejected, set_order_status,
         GateOpens, GateHalts, Wake, WaitKilled, SkipTerminal, KillGate, BodySkips,
         RiskHalts, Decide, Place, PlaceStep, SkipReplay, PersistIntent, record_intent,
         Submit, PersistReject, PersistSubmitted, mark_submitted, PersistFill,
         PlaceReturns, PersistPositions, PersistBlob, save_paper_state, CycleRaises,
         EscapesRunCycle, Crash, Tick, Operator, vars, storeVars
<1> QED BY <1>1, <1>2, <1>3, <1>4, <1>5

\* A bar that is durable stays so, unless place() is working on that very bar.
LEMMA DurableStays ==
    ASSUME IInv, [Next]_vars, NEW b \in Bars, DurableAt(b),
           pc = "place" => b # cycle_ts
    PROVE  DurableAt(b)'
<1>1. b \in equity_curve' BY DurableStoreFrame DEF DurableAt
<1>2. paper_state'.cycle_ts >= b
  <2>1. CASE UNCHANGED paper_state BY <2>1 DEF DurableAt
  <2>2. CASE PersistBlob
    <3>1. /\ paper_state.cycle_ts \in Int /\ cycle_ts \in Nat /\ b \in Nat
      BY Instants DEF IInv
    <3> QED BY <2>2, <3>1, BlobEffect DEF DurableAt
  <2> QED BY <2>1, <2>2, BlobFrame
<1>3. ASSUME NEW c \in Coid, c.cycle = b
      PROVE  orders'[c].status \notin {"NEW", "SUBMITTED"}
  <2>1. orders[c].status \notin {"NEW", "SUBMITTED"} BY <1>3 DEF DurableAt, Settled
  <2>2. orders[c] \in OrderRow BY DEF IInv, TypeOK, StoreTypeOK
  <2>3. CASE Kept(c) BY <2>1, <2>3 DEF Kept
  <2>4. CASE Intended(c) BY <1>3, <2>4 DEF Intended
  <2>5. CASE Rejected(c) BY <2>2, <2>5 DEF Rejected, OrderRow
  <2>6. CASE Submitted(c) BY <2>1, <2>6 DEF Submitted
  <2>7. CASE Filled(c) BY <2>7 DEF Filled
  <2> QED BY OrderSteps, <2>3, <2>4, <2>5, <2>6, <2>7 DEF OrderStep
<1> QED BY <1>1, <1>2, <1>3 DEF DurableAt, Settled

\* In place(), an order of this cycle without a result is the one in hand.
UnsettledIsInHand ==
    \A c \in Coid :
        c.cycle = cycle_ts /\ orders[c].status \in {"NEW", "SUBMITTED"}
            => om_step # "next" /\ c = order.coid

LEMMA UnsettledNext ==
    ASSUME IInv, Place
    PROVE  UnsettledIsInHand'
<1> USE DEF IInv, TypeOK, StoreTypeOK, OmTypeOK
<1>0. UnsettledIsInHand /\ OrderInHand /\ UNCHANGED cycle_ts
  BY DEF Place, procVars, LoopInv, PlaceInv, DurableInv, UnsettledIsInHand, OrderInHand
<1>1. CASE Submit \/ \E o \in batch : SkipReplay(o)
  <2>1. UNCHANGED <<orders, order>> BY <1>1 DEF Submit, SkipReplay, storeVars
  <2>2. om_step # "next" => om_step' # "next" BY <1>1 DEF Submit, SkipReplay
  <2> QED BY <1>0, <2>1, <2>2 DEF UnsettledIsInHand
<1>2. CASE \E o \in batch : PersistIntent(o)
  <2> PICK o \in batch : PersistIntent(o) BY <1>2
  <2>1. /\ om_step = "next" /\ om_step' = "submit" /\ order' = o
        /\ \A c \in Coid : c # o.coid => orders'[c] = orders[c]
    BY DEF PersistIntent, record_intent
  <2> QED BY <1>0, <2>1 DEF UnsettledIsInHand
<1>3. CASE PersistReject \/ PersistFill
  <2>1. /\ UNCHANGED order
        /\ \A c \in Coid : c # order.coid => orders'[c] = orders[c]
    BY <1>3 DEF PersistReject, PersistFill, mark_rejected, set_order_status, mark_filled
  <2>2. om_step # "next" BY <1>3 DEF PersistReject, PersistFill
  <2>3. order.coid \in Coid BY <1>0, <2>2 DEF OrderInHand, OrderRequest
  <2>4. orders'[order.coid].status \in {"REJECTED", "FILLED", "PARTIAL"}
    <3>1. CASE PersistReject
      BY <2>3, <3>1 DEF PersistReject, mark_rejected, set_order_status, OrderRow
    <3>2. CASE PersistFill BY <2>3, <3>2 DEF PersistFill, mark_filled
    <3> QED BY <1>3, <3>1, <3>2
  <2> QED BY <1>0, <2>1, <2>4 DEF UnsettledIsInHand
<1>4. CASE PersistSubmitted
  <2>1. om_step = "mark_submitted" BY <1>4 DEF PersistSubmitted
  <2>2. booked # 0 BY <1>0, <2>1 DEF OrderInHand
  <2>3. /\ UNCHANGED order /\ om_step' = "mark_filled"
        /\ \A c \in Coid : c # order.coid => orders'[c] = orders[c]
    BY <1>4, <2>2 DEF PersistSubmitted, mark_submitted, set_order_status
  <2> QED BY <1>0, <2>3 DEF UnsettledIsInHand
<1> QED BY <1>1, <1>2, <1>3, <1>4 DEF Place, PlaceStep

LEMMA DurableInvNext ==
    ASSUME IInv, [Next]_vars
    PROVE  DurableInv'
<1>0. TypeOK /\ DurableInv BY DEF IInv, LoopInv
<1>1. OkCycleIsDurable'
  <2> SUFFICES ASSUME NEW b \in Bars, cycles'[b] = "ok" PROVE DurableAt(b)'
    BY DEF OkCycleIsDurable
  <2>1. CASE cycles[b] = "ok"
    <3>1. DurableAt(b) BY <1>0, <2>1 DEF DurableInv, OkCycleIsDurable
    <3>2. pc = "place" => b # cycle_ts BY <2>1 DEF IInv, LoopInv, ClockInv, InCycle
    <3> QED BY <3>1, <3>2, DurableStays
  <2>2. CASE Finish /\ b = cycle_ts /\ outcome = "ok"
    <3>1. pc = "finish" /\ DurableAt(b)
      BY <1>0, <2>2 DEF Finish, DurableInv
    <3> QED BY <3>1, DurableStays
  <2> QED BY <2>1, <2>2, DurableStoreFrame
<1>2. pc' = "place" => UnsettledIsInHand'
  <2>1. CASE Place BY <2>1, UnsettledNext
  <2>2. CASE Decide
    <3>1. pc = "body" /\ UNCHANGED <<orders, cycle_ts>>
      BY <2>2 DEF Decide, Goto, storeVars
    <3> QED BY <3>1 DEF IInv, LoopInv, PlaceInv, UnsettledIsInHand
  <2>3. CASE pc' = "place" /\ UNCHANGED <<pc, orders, cycle_ts, om_step, order>>
    BY <1>0, <2>3 DEF DurableInv, UnsettledIsInHand
  <2>4. \/ pc' # "place" \/ Place \/ Decide
        \/ UNCHANGED <<pc, orders, cycle_ts, om_step, order>>
    BY DEF Next, BootStep, CycleStep, Boot, ReplayFill, ReplayDone, FailRunningCycle,
         FailRunningDone, ReadyFresh, ProbeOnly, SyncEquity, SyncPositions,
         ResolveIntent, GateOpens, GateHalts, BecomeReady, Wake, WaitKilled, StartCycle,
         SkipTerminal, EndCycle, Die, Goto, KillGate, BodySkips, RiskHalts,
         PlaceReturns, PersistPositions, PersistEquity, PersistBlob, Finish,
         CycleRaises, EscapesRunCycle, Crash, Tick, Operator, vars, storeVars, omVars,
         procVars
  <2> QED BY <2>1, <2>2, <2>3, <2>4
<1> DEFINE
      A == pc \in {"persist_positions", "persist_equity", "persist_blob"} =>
             Settled(cycle_ts)
      B == pc = "persist_blob" => cycle_ts \in equity_curve
      C == pc = "finish" /\ outcome = "ok" => DurableAt(cycle_ts)
      D == pc = "finish_outside" => outcome # "ok"
<1>3. A /\ B /\ C /\ D BY <1>0 DEF DurableInv
<1>4. A' /\ B' /\ C' /\ D'
  <2> USE DEF Settled
  <2>1. CASE pc' \notin {"persist_positions", "persist_equity", "persist_blob",
                         "finish", "finish_outside"}
    BY <2>1
  <2>2. CASE PlaceReturns
    <3>1. /\ pc = "place" /\ om_step = "next" /\ pc' = "persist_positions"
          /\ UNCHANGED <<cycle_ts, orders>>
      BY <2>2 DEF PlaceReturns, PlaceDone, Goto, storeVars
    <3> QED BY <1>0, <3>1 DEF DurableInv
  <2>3. CASE PersistPositions \/ PersistEquity
    <3>1. /\ UNCHANGED <<cycle_ts, orders>> /\ A
          /\ pc \in {"persist_positions", "persist_equity"}
          /\ pc' \in {"persist_equity", "persist_blob"}
          /\ pc' = "persist_blob" => cycle_ts \in equity_curve'
      BY <1>3, <2>3 DEF PersistPositions, snapshot_positions, PersistEquity,
                        snapshot_equity, Goto
    <3> QED BY <3>1
  <2>4. CASE PersistBlob
    <3>1. /\ pc = "persist_blob" /\ pc' = "finish" /\ cycle_ts' = cycle_ts
          /\ orders' = orders /\ paper_state'.cycle_ts = cycle_ts
          /\ equity_curve' = equity_curve
      BY <2>4, BlobEffect DEF PersistBlob, save_paper_state
    <3>2. cycle_ts >= cycle_ts BY <1>0, Instants
    <3> QED BY <1>3, <3>1, <3>2 DEF DurableAt
  <2>5. CASE KillGate \/ BodySkips \/ RiskHalts \/ CycleRaises
    BY <2>5 DEF KillGate, BodySkips, RiskHalts, CycleRaises
  <2>6. CASE Tick \/ Operator \/ UNCHANGED vars
    BY <1>3, <2>6 DEF Tick, Operator, vars, storeVars, procVars, DurableAt
  <2>7. \/ pc' \notin {"persist_positions", "persist_equity", "persist_blob",
                       "finish", "finish_outside"}
        \/ PlaceReturns \/ PersistPositions \/ PersistEquity \/ PersistBlob
        \/ KillGate \/ BodySkips \/ RiskHalts \/ CycleRaises
        \/ Tick \/ Operator \/ UNCHANGED vars
    BY DEF Next, BootStep, CycleStep, Boot, ReplayFill, ReplayDone, FailRunningCycle,
         FailRunningDone, ReadyFresh, ProbeOnly, SyncEquity, SyncPositions,
         ResolveIntent, GateOpens, GateHalts, BecomeReady, Wake, WaitKilled, StartCycle,
         SkipTerminal, EndCycle, Die, Goto, Decide, Place, Finish, EscapesRunCycle,
         Crash, procVars
  <2> QED BY <2>1, <2>2, <2>3, <2>4, <2>5, <2>6, <2>7
<1> QED BY <1>1, <1>2, <1>4 DEF DurableInv, UnsettledIsInHand

-----------------------------------------------------------------------------
(* The invariant and what follows from it                                  *)

LEMMA InvariantInit == Init => IInv
<1> SUFFICES ASSUME Init PROVE IInv OBVIOUS
<1>1. TypeOK BY TypeInit
<1> USE DEF Init, StoreInit, Untouched, OmIdle, NoFills, NoAcks, NoOrderRow
<1>2. StoreInv BY DEF StoreInv
<1>3. BookInv(acks, broker_fills) /\ BookInv(paper_state.acks, paper_state.fills)
  BY DEF BookInv, BookOk
<1>4. MemoryInv BY DEF MemoryInv, Booting
<1>5. WatermarkInv BY DEF WatermarkInv
<1>6. ClockInv BY DEF ClockInv, Opened, InCycle
<1>7. PlaceInv BY DEF PlaceInv
<1>8. DurableInv BY DEF DurableInv, OkCycleIsDurable
<1> QED BY <1>1, <1>2, <1>3, <1>4, <1>5, <1>6, <1>7, <1>8 DEF IInv, LoopInv

LEMMA InvariantNext == IInv /\ [Next]_vars => IInv'
<1> SUFFICES ASSUME IInv, [Next]_vars PROVE IInv' OBVIOUS
<1>1. TypeOK' BY TypeCorrectStep DEF IInv
<1> QED BY <1>1, StoreInvNext, BrokerInvNext, BlobInvNext, MemoryInvNext,
           WatermarkInvNext, ClockInvNext, PlaceInvNext, DurableInvNext
        DEF IInv, LoopInv

\* The inductive invariant of the loop: what the store, the saved blob and the
\* broker in memory know of each other at every point of a cycle and of a boot.
THEOREM Invariant == Spec => []IInv
BY InvariantInit, InvariantNext, PTL DEF Spec

\* The named parts of the invariant, which the runs check as well.
THEOREM LoopInvHolds == Spec => []LoopInv
BY Invariant, PTL DEF IInv

\* No order reaches the broker, or a saved blob, before its intent is durable.
THEOREM PersistedBeforeSubmitted == Spec => []PersistBeforeSubmit
<1>1. IInv => PersistBeforeSubmit
  BY DEF IInv, LoopInv, BookInv, BookOk, PersistBeforeSubmit
<1> QED BY <1>1, Invariant, PTL

\* No order executes twice or beyond its quantity, through any number of crashes.
THEOREM AtMostOneExecution == Spec => []ExecutedOnce
<1> SUFFICES ASSUME IInv PROVE ExecutedOnce BY Invariant, PTL
<1> SUFFICES ASSUME NEW c \in Coid
             PROVE  /\ Len(fills[c]) <= 1 /\ Len(broker_fills[c]) <= 1
                    /\ orders[c].filled = IF fills[c] = <<>> THEN 0 ELSE Abs(fills[c][1])
                    /\ orders[c].filled <= Abs(orders[c].qty)
  BY DEF ExecutedOnce
<1>1. /\ Len(fills[c]) <= 1 /\ Len(broker_fills[c]) <= 1
      /\ orders[c].filled = IF fills[c] = <<>> THEN 0 ELSE Abs(fills[c][1])
      /\ fills[c] # <<>> => fills[c][1] \in Fillable(orders[c].qty)
  BY DEF IInv, LoopInv, StoreInv, BookInv, BookOk
<1>2. orders[c].qty \in Int BY DEF IInv, TypeOK, StoreTypeOK, OrderRow
<1>3. 0 <= Abs(orders[c].qty) BY <1>2 DEF Abs
<1>4. \A q \in Fillable(orders[c].qty) : Abs(q) <= Abs(orders[c].qty)
  BY <1>2 DEF Fillable, Abs
<1> QED BY <1>1, <1>3, <1>4

\* What the store and the broker both recorded of an order is the same.
THEOREM StoreAndBrokerAgree == Spec => []LogsAgree
<1>1. IInv => LogsAgree BY DEF IInv, LoopInv, BookInv, BookOk, LogsAgree
<1> QED BY <1>1, Invariant, PTL

\* An executed order is never REJECTED, nor one whose execution a blob restores.
THEOREM ExecutionIsNotRejected == Spec => []NeverRejectAFill
<1>1. IInv => NeverRejectAFill
  BY DEF IInv, LoopInv, StoreInv, BookInv, BookOk, NeverRejectAFill
<1> QED BY <1>1, Invariant, PTL

\* An 'ok' cycle can be restored, and all its orders have a result.
THEOREM OkMeansDurable == Spec => []OkCycleIsDurable
<1>1. IInv => OkCycleIsDurable BY DEF IInv, LoopInv, DurableInv
<1> QED BY <1>1, Invariant, PTL

\* A finished bar is never reopened or stamped again.
THEOREM TerminalIsFinal == Spec => TerminalCycleSticks
<1>1. IInv /\ [Next]_vars => [TerminalStays]_vars
  <2> SUFFICES ASSUME IInv, [Next]_vars, NEW b \in Bars, cycles[b] \in TerminalCycle
               PROVE  cycles'[b] = cycles[b]
    BY DEF TerminalStays
  <2>0. cycles \in [Bars -> CycleStatus] /\ ClockInv
    BY DEF IInv, TypeOK, StoreTypeOK, LoopInv
  <2>1. CASE StartCycle
    BY <2>0, <2>1 DEF StartCycle, start_cycle, MayProceed, TerminalCycle
  <2>2. CASE \E d \in Bars : FailRunningCycle(d)
    BY <2>0, <2>2 DEF FailRunningCycle, finish_cycle, running_cycles, TerminalCycle
  <2>3. CASE Finish
    <3>1. cycles[cycle_ts] = "running" BY <2>0, <2>3 DEF Finish, ClockInv, InCycle
    <3> QED BY <2>0, <2>3, <3>1 DEF Finish, finish_cycle, TerminalCycle
  <2> QED BY <2>1, <2>2, <2>3, CyclesFrame
<1> QED BY <1>1, Invariant, PTL DEF Spec, TerminalCycleSticks

\* No bar is traded late: its orders are intended under its own running cycle,
\* and no later bar has been opened.
THEOREM NoBackfill == Spec => NeverBackfilled
<1>1. IInv /\ [Next]_vars => [RecordedInTime]_vars
  <2> SUFFICES ASSUME IInv, [Next]_vars, NEW c \in Coid,
                      orders[c].status = "absent", orders'[c].status # "absent"
               PROVE  /\ cycles[c.cycle] = "running"
                      /\ \A b \in Bars : b > c.cycle => cycles[b] = "absent"
    BY DEF RecordedInTime
  <2>1. pc = "place" /\ c.cycle = cycle_ts
    BY OrderSteps DEF OrderStep, Kept, Intended, Rejected, Submitted, Filled
  <2>2. /\ cycles[cycle_ts] = "running"
        /\ \A b \in Bars : Opened(b) => b <= cycle_ts
    BY <2>1 DEF IInv, LoopInv, ClockInv, InCycle
  <2>3. cycle_ts \in Nat /\ \A b \in Bars : b \in Nat BY Instants DEF IInv
  <2> QED BY <2>1, <2>2, <2>3 DEF Opened
<1> QED BY <1>1, Invariant, PTL DEF Spec, NeverBackfilled

\* When boot ends every recorded fill is at the broker and every fill of the
\* broker is recorded.
THEOREM RebuiltFromTheStore == Spec => [][FillsAreRebuilt]_vars
<1>1. IInv /\ [Next]_vars => [FillsAreRebuilt]_vars
  <2> SUFFICES ASSUME IInv, [Next]_vars, BootEnds PROVE broker_fills = fills
    BY DEF FillsAreRebuilt
  <2> USE DEF IInv, TypeOK, StoreTypeOK, BrokerTypeOK
  <2>1. pc \in {"probe", "resolve"} /\ (FreshBoot \/ AllResolved)
    BY DEF BootEnds, Booting, Next, BootStep, CycleStep, Boot, ReplayFill, ReplayDone,
       FailRunningCycle, FailRunningDone, ReadyFresh, ProbeOnly, SyncEquity,
       SyncPositions, ResolveIntent, GateOpens, GateHalts, Wake, WaitKilled, StartCycle,
       SkipTerminal, Die, Goto, KillGate, BodySkips, RiskHalts, Decide, Place,
       PlaceReturns, PersistPositions, PersistEquity, PersistBlob, Finish,
       CycleRaises, EscapesRunCycle, Crash, Tick, Operator, vars, procVars
  <2> SUFFICES ASSUME NEW c \in Coid PROVE broker_fills[c] = fills[c] OBVIOUS
  <2>2. BookOk(acks[c], broker_fills[c], orders[c], fills[c]) BY DEF LoopInv, BookInv
  <2>3. CASE fills[c] # <<>>
    <3>1. acks[c] = "accepted" BY <2>1, <2>3 DEF LoopInv, MemoryInv
    <3> QED BY <2>2, <2>3, <3>1 DEF BookOk
  <2>4. CASE fills[c] = <<>> /\ broker_fills[c] # <<>>
    <3>1. AllResolved BY <2>1, <2>4 DEF FreshBoot, NoFills
    <3>2. orders[c].status \in {"NEW", "SUBMITTED"}
      BY <2>2, <2>4 DEF BookOk, LoopInv, StoreInv, OrderRow, OrderStatus
    <3>3. Len(broker_fills[c]) > Len(fills[c]) BY <2>4
    <3> QED BY <3>1, <3>2, <3>3 DEF AllResolved, MissingFill, open_intents, NON_TERMINAL
  <2> QED BY <2>3, <2>4
<1> QED BY <1>1, Invariant, PTL DEF Spec

-----------------------------------------------------------------------------
(* Positions are the net of the fills                                      *)

LEMMA LotsOf ==
    /\ \A rows \in Seq(Int) : Lots(rows) \in Int
    /\ Lots(<<>>) = 0
    /\ \A q \in Int : Lots(<<q>>) = q
<1>1. ASSUME NEW rows \in Seq(Int) PROVE Lots(rows) \in Int
  <2>1. Len(rows) \in Nat /\ DOMAIN rows = 1 .. Len(rows) /\ \A n \in DOMAIN rows : rows[n] \in Int
    OBVIOUS
  <2>2. IsFiniteSet(DOMAIN rows)  BY <2>1, FS_Interval
  <2>3. \A n \in DOMAIN rows : rows[n] \in Int  BY <2>1
  <2> QED  BY <2>2, <2>3, SumInt DEF Lots, SumFunction
<1>2. Lots(<<>>) = 0
  <2>1. DOMAIN <<>> = {}  OBVIOUS
  <2> QED  BY <2>1, SumEmpty DEF Lots, SumFunction
<1>3. ASSUME NEW q \in Int PROVE Lots(<<q>>) = q
  <2> DEFINE rows == <<q>>
             D == DOMAIN rows
  <2>1. D = {1} /\ rows[1] = q  OBVIOUS
  <2>2. IsFiniteSet(D)  BY <2>1, FS_Singleton
  <2>3. \A n \in D : rows[n] \in Int  BY <2>1
  <2>4. 1 \in D /\ D \ {1} = {}  BY <2>1
  <2> HIDE DEF rows, D
  <2>5. SumFunctionOnSet(rows, D) = rows[1] + SumFunctionOnSet(rows, {})
    BY ONLY <2>2, <2>3, <2>4, SumExtends
  <2>6. SumFunctionOnSet(rows, D) = q  BY <2>1, <2>5, SumEmpty
  <2> QED  BY <2>6 DEF Lots, SumFunction, rows, D
<1> QED  BY <1>1, <1>2, <1>3

OrdersOf(i) == {c \in Coid : c.iid = i}

LEMMA OrdersOfFinite ==
    ASSUME NEW i \in Instruments
    PROVE  IsFiniteSet(OrdersOf(i))
<1> DEFINE Pairs == Bars \X Legs
           f == [p \in Pairs |-> [cycle |-> p[1], iid |-> i, leg |-> p[2]]]
<1>1. IsFiniteSet(Pairs)
  <2>1. IsFiniteSet(Time)  BY FS_Interval, TypesAssumption DEF Time
  <2>2. IsFiniteSet(Bars)  BY <2>1, FS_Subset, BarsAreInstants
  <2>3. IsFiniteSet(Legs)
    <3>1. IsFiniteSet({"rb"})  BY FS_Singleton
    <3>2. IsFiniteSet({"rb"} \cup {"close"})  BY <3>1, FS_AddElement
    <3>3. IsFiniteSet(({"rb"} \cup {"close"}) \cup {"open"})  BY <3>2, FS_AddElement
    <3>4. Legs = ({"rb"} \cup {"close"}) \cup {"open"}  BY DEF Legs
    <3> QED  BY <3>3, <3>4
  <2> QED  BY <2>2, <2>3, FS_Product
<1>2. f \in Surjection(Pairs, OrdersOf(i))
  <2>1. \A p \in Pairs : f[p] \in OrdersOf(i)  BY DEF OrdersOf, Coid
  <2>2. ASSUME NEW c \in OrdersOf(i) PROVE \E p \in Pairs : f[p] = c
    <3>1. c.cycle \in Bars /\ c.leg \in Legs /\ c.iid = i
          /\ c = [cycle |-> c.cycle, iid |-> c.iid, leg |-> c.leg]
      BY DEF OrdersOf, Coid
    <3>2. <<c.cycle, c.leg>> \in Pairs /\ f[<<c.cycle, c.leg>>] = c  BY <3>1
    <3> QED  BY <3>2
  <2> QED  BY <2>1, <2>2 DEF Surjection
<1> QED  BY <1>1, <1>2, FS_Surjection

LEMMA NetOfNothing ==
    ASSUME NEW i \in Instruments
    PROVE  Net(NoFills, i) = 0
<1> DEFINE f == [c \in Coid |-> Lots(NoFills[c])]
           S == OrdersOf(i)
<1>1. \A c \in S : f[c] = 0  BY LotsOf DEF NoFills, OrdersOf
<1>2. IsFiniteSet(S)  BY OrdersOfFinite
<1> HIDE DEF f, S
<1>3. SumFunctionOnSet(f, S) = 0  BY ONLY <1>1, <1>2, SumZero
<1> QED  BY <1>3 DEF Net, f, S, OrdersOf

\* An order that gets its only fill moves the net of its instrument by it.
LEMMA NetMoves ==
    ASSUME NEW old, NEW new, NEW c \in Coid, NEW q \in Int, NEW i \in Instruments,
           \A d \in Coid : old[d] \in Seq(Int),
           old[c] = <<>>, new[c] = <<q>>, \A d \in Coid \ {c} : new[d] = old[d]
    PROVE  /\ Net(old, i) \in Int
           /\ Net(new, i) = Net(old, i) + (IF c.iid = i THEN q ELSE 0)
<1> DEFINE f == [d \in Coid |-> Lots(old[d])]
           g == [d \in Coid |-> Lots(new[d])]
           S == OrdersOf(i)
<1>1. IsFiniteSet(S) /\ S \in SUBSET Coid /\ (c \in S <=> c.iid = i)
  BY OrdersOfFinite DEF OrdersOf
<1>2. f[c] = 0 /\ g[c] = q  BY LotsOf
<1>3. \A d \in Coid \ {c} : g[d] = f[d]  OBVIOUS
<1>4. \A d \in S : f[d] \in Int  BY LotsOf, <1>1
<1>5. Net(old, i) = SumFunctionOnSet(f, S) /\ Net(new, i) = SumFunctionOnSet(g, S)
  BY DEF Net, OrdersOf
<1> HIDE DEF f, g, S
<1>6. SumFunctionOnSet(f, S) \in Int  BY ONLY <1>1, <1>4, SumInt
<1>7. CASE c \notin S
  <2>1. \A d \in S : g[d] = f[d]  BY <1>1, <1>3, <1>7
  <2>2. SumFunctionOnSet(g, S) = SumFunctionOnSet(f, S)  BY ONLY <1>1, <2>1, SumEqual
  <2> QED  BY <1>1, <1>5, <1>6, <1>7, <2>2
<1>8. CASE c \in S
  <2> DEFINE R == S \ {c}
  <2>1. IsFiniteSet(R)  BY ONLY <1>1, FS_Subset
  <2>2. \A d \in R : g[d] = f[d]  BY <1>1, <1>3
  <2>3. \A d \in S : g[d] \in Int  BY <1>2, <1>4, <2>2
  <2>4. S \ {c} = R  OBVIOUS
  <2> HIDE DEF R
  <2>5. SumFunctionOnSet(f, S) = f[c] + SumFunctionOnSet(f, R)
    BY ONLY <1>1, <1>4, <1>8, <2>4, SumExtends
  <2>6. SumFunctionOnSet(g, S) = g[c] + SumFunctionOnSet(g, R)
    BY ONLY <1>1, <2>3, <1>8, <2>4, SumExtends
  <2>7. SumFunctionOnSet(g, R) = SumFunctionOnSet(f, R)  BY ONLY <2>1, <2>2, SumEqual
  <2>8. SumFunctionOnSet(f, R) \in Int
    <3>1. \A d \in R : f[d] \in Int  BY <1>4, <2>4
    <3> QED  BY ONLY <2>1, <3>1, SumInt
  <2> QED  BY <1>1, <1>2, <1>5, <1>8, <2>5, <2>6, <2>7, <2>8
<1> QED  BY <1>7, <1>8

LEMMA NetInit == Init => NetInv
<1> SUFFICES ASSUME Init, NEW i \in Instruments
             PROVE  /\ positions[i] = Net(broker_fills, i)
                    /\ paper_state.positions[i] = Net(paper_state.fills, i)
  BY DEF NetInv
<1> QED  BY NetOfNothing DEF Init, Untouched, StoreInit, Flat

\* An execution moves the fills and the position of its instrument together.
LEMMA BookMoves ==
    ASSUME IInv, NetInv, NEW c \in Coid, NEW q \in Int, broker_fills[c] = <<>>,
           book_fill(c, q), NEW i \in Instruments
    PROVE  positions'[i] = Net(broker_fills', i)
<1>1. broker_fills \in [Coid -> Seq(Int)] /\ positions \in [Instruments -> Int]
  BY DEF IInv, TypeOK, BrokerTypeOK
<1>2. broker_fills'[c] = <<q>> /\ \A d \in Coid \ {c} : broker_fills'[d] = broker_fills[d]
  BY <1>1 DEF book_fill
<1>3. positions'[i] = positions[i] + (IF c.iid = i THEN q ELSE 0)
  BY <1>1 DEF book_fill
<1>4. \A d \in Coid : broker_fills[d] \in Seq(Int)  BY <1>1
<1>5. Net(broker_fills', i) = Net(broker_fills, i) + (IF c.iid = i THEN q ELSE 0)
  BY <1>2, <1>4, NetMoves
<1> QED  BY <1>3, <1>5 DEF NetInv

LEMMA NetNext ==
    ASSUME IInv, NetInv, [Next]_vars
    PROVE  NetInv'
<1> SUFFICES ASSUME NEW i \in Instruments
             PROVE  /\ positions'[i] = Net(broker_fills', i)
                    /\ paper_state'.positions[i] = Net(paper_state'.fills, i)
  BY DEF NetInv
<1> USE DEF IInv, TypeOK, StoreTypeOK, BrokerTypeOK
<1>1. /\ positions[i] = Net(broker_fills, i)
      /\ paper_state.positions[i] = Net(paper_state.fills, i)
  BY DEF NetInv
<1>2. paper_state'.positions[i] = Net(paper_state'.fills, i)
  <2>1. CASE UNCHANGED paper_state  BY <1>1, <2>1
  <2>2. CASE PersistBlob /\ paper_state' # paper_state
    <3>1. paper_state'.positions = positions /\ paper_state'.fills = broker_fills
      BY <2>2 DEF PersistBlob, save_paper_state, snapshot_state
    <3> QED  BY <1>1, <3>1
  <2> QED  BY <2>1, <2>2, BlobFrame
<1>3. positions'[i] = Net(broker_fills', i)
  <2>1. CASE UNCHANGED brokerVars  BY <1>1, <2>1 DEF brokerVars
  <2>2. CASE Boot  BY <1>1, <2>2 DEF Boot, restore
  <2>3. CASE \E c \in Coid : ReplayFill(c)
    <3>1. PICK c \in Coid : ReplayFill(c)  BY <2>3
    <3>2. broker_fills[c] = <<>> /\ fills[c] = <<fills[c][1]>>  BY <3>1, ReplayEffect
    <3>3. fills[c][1] \in Int  BY <3>2
    <3>4. book_fill(c, fills[c][1])  BY <3>1 DEF ReplayFill, apply_recorded_fill
    <3> QED  BY <3>2, <3>3, <3>4, BookMoves
  <2>4. CASE Place /\ Submit
    <3>1. /\ pc = "place" /\ om_step = "submit" /\ order.coid \in Coid
          /\ acks[order.coid] = "none"
      BY <2>4, SubmitEffect DEF Submit
    <3>2. order.qty \in Int  BY <3>1 DEF LoopInv, PlaceInv, OrderRequest
    <3>3. broker_fills[order.coid] = <<>>  BY <3>1 DEF LoopInv, BookInv, BookOk
    <3>4. CASE UNCHANGED <<broker_fills, positions>>  BY <1>1, <3>4
    <3>5. ASSUME NEW q \in Fillable(order.qty), submit_filled(order, q)
          PROVE  positions'[i] = Net(broker_fills', i)
      <4>1. q \in Int  BY <3>2, FillableIsNotZero
      <4>2. book_fill(order.coid, q)  BY <3>5 DEF submit_filled
      <4> QED  BY <3>1, <3>3, <4>1, <4>2, BookMoves
    <3>6. \/ UNCHANGED <<broker_fills, positions>>
          \/ \E q \in Fillable(order.qty) : submit_filled(order, q)
      BY <2>4 DEF Submit, submit_known, submit_rejected, brokerVars
    <3> QED  BY <3>4, <3>5, <3>6
  <2>5. CASE broker_fills' = NoFills /\ positions' = Flat
    BY <2>5, NetOfNothing DEF Flat
  <2> QED  BY <2>1, <2>2, <2>3, <2>4, <2>5, BrokerFrame
<1> QED  BY <1>2, <1>3

\* The positions of every broker book, in memory and in the saved blob, are what
\* its fills add up to (book_fill, _restore_paper_state).
THEOREM PositionsAreNet == Spec => []NetInv
<1>1. IInv /\ NetInv /\ [Next]_vars => NetInv'  BY NetNext
<1> QED  BY <1>1, NetInit, Invariant, PTL DEF Spec

\* When recovery opens the gate the broker holds the fills of the store, each
\* once, and the positions they add up to.
THEOREM RecoveredBook == Spec => RecoveredBookIsStoreBook
<1>1. IInv /\ NetInv /\ [FillsAreRebuilt]_vars => [ReadyMeansRebuilt]_vars
  BY DEF NetInv, ReadyMeansRebuilt, FillsAreRebuilt
<1> QED  BY <1>1, Invariant, PositionsAreNet, RebuiltFromTheStore, PTL
         DEF RecoveredBookIsStoreBook

-----------------------------------------------------------------------------
(* Refinement of OrderOutcomes                                             *)

LEMMA OutcomeInit == Init => Outcomes!Init
BY DEF Init, StoreInit, NoFills, NoOrderRow, RecordedOutcome, Outcomes!Init,
       Outcomes!Unknown

\* Two functions on one set that differ at one point at most.
LEMMA ExceptAtOne ==
    ASSUME NEW S, NEW f, NEW g, NEW c \in S,
           f = [x \in S |-> f[x]], g = [x \in S |-> g[x]],
           \A d \in S \ {c} : g[d] = f[d]
    PROVE  g = [f EXCEPT ![c] = g[c]]
OBVIOUS

\* An order left alone keeps its outcome.
LEMMA OutcomeKept ==
    ASSUME NEW c \in Coid, Kept(c)
    PROVE  RecordedOutcome'[c] = RecordedOutcome[c]
BY DEF Kept, RecordedOutcome

LEMMA OutcomeStep ==
    ASSUME IInv, [Next]_vars, NEW c \in Coid, OrderStep(c),
           \A d \in Coid \ {c} : Kept(d)
    PROVE  [Outcomes!Next]_RecordedOutcome
<1> USE DEF IInv, TypeOK, StoreTypeOK
<1> DEFINE R == RecordedOutcome
<1>1. \A d \in Coid \ {c} : R'[d] = R[d] BY OutcomeKept
<1>2. R' = [R EXCEPT ![c] = R'[c]]
  <2>1. R = [x \in Coid |-> R[x]] /\ R' = [x \in Coid |-> R'[x]]
    BY DEF RecordedOutcome
  <2> HIDE DEF R
  <2> QED BY <1>1, <2>1, ExceptAtOne
<1>3. orders[c] \in OrderRow /\ fills[c] \in Seq(Int) OBVIOUS
<1>4. ASSUME R'[c] = R[c] PROVE R' = R
  BY <1>1, <1>4 DEF RecordedOutcome
<1>5. CASE Kept(c) BY <1>4, <1>5, OutcomeKept
<1>6. CASE Intended(c)
  <2>1. fills[c] = <<>> /\ orders[c].status = "absent"
    BY <1>6 DEF Intended, LoopInv, StoreInv
  <2>2. R[c].state = "none" BY <2>1 DEF RecordedOutcome
  <2>3. /\ R'[c] = [state |-> "open", qty |-> R'[c].qty, lots |-> <<>>]
        /\ R'[c].qty \in Int \ {0}
    BY <1>6, <2>1 DEF Intended, RecordedOutcome
  <2>4. R' = [R EXCEPT ![c] = [state |-> "open", qty |-> R'[c].qty, lots |-> <<>>]]
    BY <1>2, <2>3
  <2> HIDE DEF R
  <2>5. Outcomes!Intend(c) BY <2>2, <2>3, <2>4 DEF Outcomes!Intend, R
  <2> QED BY <2>5 DEF Outcomes!Next
<1>7. CASE Rejected(c)
  <2>1. /\ fills[c] = <<>> /\ fills'[c] = <<>> /\ orders[c].status # "absent"
        /\ orders'[c].status = "REJECTED" /\ orders'[c].qty = orders[c].qty
    BY <1>3, <1>7 DEF Rejected, OrderRow
  <2>2. CASE orders[c].status = "REJECTED"
    <3>1. R'[c] = R[c] BY <2>1, <2>2 DEF RecordedOutcome
    <3> QED BY <1>4, <3>1
  <2>3. CASE orders[c].status # "REJECTED"
    <3>1. /\ R[c] = [state |-> "open", qty |-> orders[c].qty, lots |-> <<>>]
          /\ R'[c] = [state |-> "void", qty |-> orders[c].qty, lots |-> <<>>]
      BY <2>1, <2>3 DEF RecordedOutcome
    <3>2. R' = [R EXCEPT ![c].state = "void"]
      <4> HIDE DEF R
      <4> QED BY <1>2, <3>1
    <3>3. R[c].state = "open" BY <3>1
    <3> HIDE DEF R
    <3>4. Outcomes!Void(c) BY <3>2, <3>3 DEF Outcomes!Void, R
    <3> QED BY <3>4 DEF Outcomes!Next
  <2> QED BY <2>2, <2>3
<1>8. CASE Submitted(c)
  <2>1. /\ fills'[c] = fills[c] /\ orders[c].status \in {"NEW", "SUBMITTED"}
        /\ orders'[c].status = "SUBMITTED" /\ orders'[c].qty = orders[c].qty
    BY <1>3, <1>8 DEF Submitted, OrderRow
  <2>2. R'[c] = R[c] BY <2>1 DEF RecordedOutcome
  <2> QED BY <1>4, <2>2
<1>9. CASE Filled(c)
  <2>1. PICK q \in Fillable(orders[c].qty) :
          /\ broker_fills[c] = <<q>> /\ fills'[c] = <<q>>
          /\ \E st \in {"FILLED", "PARTIAL"} :
               orders'[c] = [status |-> st, qty |-> orders[c].qty, filled |-> Abs(q)]
    BY <1>9 DEF Filled
  <2>2. fills[c] = <<>> /\ orders[c].status \notin {"absent", "REJECTED"}
    <3>1. q \in Int BY <1>3, FillableIsNotZero DEF OrderRow
    <3>2. broker_fills[c] # <<>> BY <2>1, <3>1
    <3>3. orders[c].status # "REJECTED" BY <3>2 DEF LoopInv, BookInv, BookOk
    <3> QED BY <1>9, <3>3 DEF Filled
  <2>3. /\ R[c] = [state |-> "open", qty |-> orders[c].qty, lots |-> <<>>]
        /\ R'[c] = [state |-> "executed", qty |-> orders[c].qty, lots |-> <<q>>]
    <3>1. q \in Int BY <1>3, FillableIsNotZero DEF OrderRow
    <3>2. /\ fills'[c] # <<>> /\ orders'[c].status # "absent"
          /\ orders'[c].qty = orders[c].qty
      BY <2>1, <3>1
    <3> QED BY <2>1, <2>2, <3>2 DEF RecordedOutcome
  <2>4. q \in Outcomes!Executions(R[c].qty)
    <3>1. R[c].qty = orders[c].qty BY <2>3
    <3>2. orders[c].qty \in Int BY <1>3 DEF OrderRow
    <3>3. q \in Fillable(R[c].qty) /\ R[c].qty \in Int BY <2>1, <3>1, <3>2
    <3> QED BY <3>3 DEF Fillable, Abs, SameSign, Outcomes!Executions
  <2>5. R' = [R EXCEPT ![c] = [state |-> "executed", qty |-> @.qty, lots |-> <<q>>]]
    <3> HIDE DEF R
    <3>1. [state |-> "executed", qty |-> R[c].qty, lots |-> <<q>>] = R'[c] BY <2>3
    <3> QED BY <1>2, <3>1
  <2>6. R[c].state = "open" BY <2>3
  <2> HIDE DEF R
  <2>7. Outcomes!Execute(c) BY <2>4, <2>5, <2>6 DEF Outcomes!Execute, R
  <2> QED BY <2>7 DEF Outcomes!Next
<1> QED BY <1>5, <1>6, <1>7, <1>8, <1>9 DEF OrderStep

\* The trading process, with its crashes and recoveries, implements the abstract
\* record of order outcomes: intended once, executed once or void, never undone.
THEOREM Refinement == Spec => KeepsItsPromises
<1>1. IInv /\ [Next]_vars => [Outcomes!Next]_RecordedOutcome
  <2> SUFFICES ASSUME IInv, [Next]_vars PROVE [Outcomes!Next]_RecordedOutcome
    OBVIOUS
  <2>1. CASE \A c \in Coid : Kept(c)
    <3>1. RecordedOutcome' = RecordedOutcome BY <2>1 DEF Kept, RecordedOutcome
    <3> QED BY <3>1
  <2> QED BY <2>1, OneOrderStep, OutcomeStep
<1> QED BY <1>1, OutcomeInit, Invariant, PTL DEF Spec, KeepsItsPromises, Outcomes!Spec

=============================================================================
