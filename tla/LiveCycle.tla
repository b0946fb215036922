----------------------------- MODULE LiveCycle -----------------------------
(***************************************************************************)
(* One sleeve's cycle against the equity broker: scripts/live_cycle.py     *)
(* main() over execution/alpaca_broker.py.  Each cycle is a process of its *)
(* own: it sweeps the orders the previous cycles left open, snapshots the  *)
(* account, sizes the target book, re-checks the kill switch, records what *)
(* became of earlier orders (_reconcile_fills) and submits the deltas.     *)
(* Between and during its calls the venue fills and expires orders, the    *)
(* operator works the kill switch, the process may die, and so much time   *)
(* may pass that old orders leave the lookback of _reconcile_fills.        *)
(*                                                                         *)
(* One process at a time (the lock of the tick scripts).  The number of an *)
(* order is its submission time: one process submits in turn, here the     *)
(* names in any order and the legs of a name in theirs.  The weight of a   *)
(* name, the book multiplier and the concentration cap enter through its   *)
(* raw target; equity, the curve and the audit tables nothing reads back   *)
(* (orders, order_rejects) are left out.                                   *)
(***************************************************************************)
EXTENDS DeltaOrders, FiniteSets, FiniteSetsExt

CONSTANTS
    Names,              \* the instruments of the sleeve
    Raws,               \* raw targets of a name: weight * equity / mid
    Fractionable,       \* names the broker trades in fractions
    Shortable,          \* names the broker lends
    GrossCap, NetCap,   \* _GROSS_HARD_CAP and _NET_HARD_CAP of the equity
    HaltAfter,          \* _FILL_RECONCILE_HALT_AFTER
    FillSteps,          \* bound: what one execution may fill of an order
    MaxLingering,       \* bound: orders that outlive their cancel
    MaxCycles           \* bound: cycles

ASSUME CycleAssumption ==
    /\ IsFiniteSet(Names)
    /\ Raws \subseteq Int
    /\ Fractionable \subseteq Names
    /\ Shortable \subseteq Names
    /\ GrossCap \in Nat /\ NetCap \in Nat
    /\ HaltAfter \in Nat \ {0}
    /\ FillSteps \subseteq Nat \ {0}
    /\ MaxLingering \in Nat /\ MaxCycles \in Nat

VARIABLES
    phase,      \* where the process stands; "down": none runs
    stale,      \* orders it still has to cancel
    snap,       \* the positions it sizes against
    queue,      \* the orders it still has to submit, per name
    kill,       \* the KILL file
    orders,     \* the venue: this sleeve's orders, in order of submission
    pos,        \* the venue: position per name
    floor,      \* the orders up to this one are older than the lookback
    fills,      \* the fills table: recorded quantity per order
    failures,   \* execution_health: consecutive failed reconciliations
    raised,     \* history: reconciliations that failed in a row
    uncounted,  \* history: those of them the table could not count
    excused,    \* history: those of them the operator armed again after
    lingered,   \* history: the orders that outlived a cancel
    hull,       \* history: what the last sized book lets each position be
    cycles      \* cycles started

procVars == <<phase, stale, snap, queue>>
venueVars == <<orders, pos, floor>>
haltVars == <<failures, raised, uncounted, excused>>
recordVars == <<fills, haltVars>>
pastVars == <<lingered, hull, cycles>>
cycleVars == <<procVars, venueVars, recordVars, kill, pastVars>>

Phases == {"down", "list", "cancel", "snapshot", "size", "check", "reconcile", "submit"}
Tags == {"rebalance", "close", "open"}

Legs == Seq([tag : Tags, qty : Int \ {0}])
Orders == [name : Names, tag : Tags, qty : Int \ {0}, filled : Int, open : BOOLEAN]

\* A process that ends, whichever way, forgets what it knew.
Ends == phase' = "down" /\ stale' = {} /\ snap' = [n \in Names |-> 0] /\ queue' = [n \in Names |-> <<>>]

CycleInit ==
    /\ phase = "down" /\ stale = {} /\ snap = [n \in Names |-> 0] /\ queue = [n \in Names |-> <<>>]
    /\ kill = FALSE
    /\ orders = <<>>
    /\ pos = [n \in Names |-> 0]
    /\ floor = 0
    /\ fills = <<>>
    /\ failures = 0 /\ raised = 0 /\ uncounted = 0 /\ excused = 0
    /\ lingered = {}
    /\ hull = [n \in Names |-> [lo |-> 0, hi |-> 0]]
    /\ cycles = 0

-----------------------------------------------------------------------------
(* The venue (external): day orders that fill in parts and close.          *)

OpenOrders == {i \in DOMAIN orders : orders[i].open}

Order(n, leg) == [name |-> n, tag |-> leg.tag, qty |-> leg.qty, filled |-> 0, open |-> TRUE]

Closed(o) == [o EXCEPT !.open = FALSE]
Filled(o, q) == [o EXCEPT !.filled = @ + Sign(o.qty) * q, !.open = Abs(o.filled) + q < Abs(o.qty)]

Fill(i, q) ==
    LET o == orders[i]
    IN  /\ q <= Abs(o.qty) - Abs(o.filled)
        /\ pos' = [pos EXCEPT ![o.name] = @ + Sign(o.qty) * q]
        /\ orders' = [orders EXCEPT ![i] = Filled(@, q)]

VenueFills ==
    /\ \E i \in OpenOrders, q \in FillSteps : Fill(i, q)
    /\ UNCHANGED <<floor, procVars, recordVars, kill, pastVars>>

\* The session ends, or a cancel that lingered takes effect.
VenueExpires ==
    /\ \E i \in OpenOrders : orders' = [orders EXCEPT ![i] = Closed(@)]
    /\ UNCHANGED <<procVars, recordVars, pos, floor, kill, pastVars>>

\* The sleeve is parked for so long that its first orders, all closed by then,
\* leave the lookback of the reconciliation.
TimePasses ==
    /\ phase = "down"
    /\ \E f \in floor + 1 .. Len(orders) :
         /\ \A i \in 1 .. f : ~orders[i].open
         /\ floor' = f
    /\ UNCHANGED <<procVars, orders, pos, recordVars, kill, pastVars>>

\* What orders among S may still trade of a name on one side.
UnfilledOf(S, n, side) ==
    MapThenSumSet(LAMBDA i : orders[i].qty - orders[i].filled,
                  {i \in S : orders[i].name = n /\ Sign(orders[i].qty) = side})

Unfilled(n, side) == UnfilledOf(OpenOrders, n, side)

-----------------------------------------------------------------------------
(* The cycle.                                                              *)

\* main() up to the sweep: refuses under KILL.
Start ==
    /\ phase = "down"
    /\ ~kill
    /\ cycles < MaxCycles
    /\ cycles' = cycles + 1
    /\ phase' = "list"
    /\ UNCHANGED <<stale, snap, queue, venueVars, recordVars, kill, lingered, hull>>

\* broker.open_orders(), filtered by the sleeve's prefix.
ListOpen ==
    /\ phase = "list"
    /\ stale' = OpenOrders
    /\ phase' = "cancel"
    /\ UNCHANGED <<snap, queue, venueVars, recordVars, kill, pastVars>>

\* broker.cancel of one order.  Its answer is ignored: a lookup or DELETE that
\* fails, or a cancel that stays pending, leaves the order open.
CancelOne ==
    /\ phase = "cancel"
    /\ \E i \in stale :
         /\ stale' = stale \ {i}
         /\ \/ orders' = [orders EXCEPT ![i] = Closed(@)] /\ UNCHANGED lingered
            \/ /\ orders[i].open
               /\ lingered' = lingered \cup {i}
               /\ Cardinality(lingered') <= MaxLingering
               /\ UNCHANGED orders
    /\ UNCHANGED <<phase, snap, queue, pos, floor, recordVars, kill, hull, cycles>>

CancelDone ==
    /\ phase = "cancel"
    /\ stale = {}
    /\ phase' = "snapshot"
    /\ UNCHANGED <<stale, snap, queue, venueVars, recordVars, kill, pastVars>>

\* broker.account(): the positions the deltas are taken from.
Snapshot ==
    /\ phase = "snapshot"
    /\ snap' = pos
    /\ phase' = "size"
    /\ UNCHANGED <<stale, queue, venueVars, recordVars, kill, pastVars>>

\* What a sizing rests on: a raw target per name, the names that have a price,
\* whether the broker's asset flags are known, and the drawdown guard.
Sizings == [raw : [Names -> Raws], priced : SUBSET Names, flags : BOOLEAN, derisk : BOOLEAN]

Whole(z, n) == z.flags /\ n \notin Fractionable
Target(z, n) == SizedTarget(z.raw[n], Whole(z, n), ~z.flags \/ n \in Shortable)

\* The brake on the sized book: gross or net beyond the hard caps.
Runaway(z) ==
    \/ MapThenSumSet(LAMBDA n : Abs(Target(z, n)), z.priced) > GrossCap
    \/ Abs(MapThenSumSet(LAMBDA n : Target(z, n), z.priced)) > NetCap

\* Mutant: in a deep drawdown a smaller position on the other side is reducing.
Reducing_flips(cur, tgt) == cur # 0 /\ Abs(tgt) < Abs(cur)

\* The de-risk gate: only toward zero, never through it.
Reducing(cur, tgt) == cur # 0 /\ Abs(tgt) < Abs(cur) /\ cur * tgt >= 0

NameLegs(z, n) ==
    IF n \in z.priced /\ (z.derisk => Reducing(snap[n], Target(z, n)))
    THEN DeltaLegs(snap[n], Target(z, n), Whole(z, n))
    ELSE <<>>

\* The positions a sizing allows: none a name does not reach on its way from
\* the snapshot to flat and to its target, up to the rounding of an order.
Allowed(z, n) ==
    LET s == {0, snap[n]} \cup (IF n \in z.priced /\ ~z.derisk THEN {Target(z, n)} ELSE {})
    IN  [lo |-> Min(s) - Tick \div 2, hi |-> Max(s) + Tick \div 2]

\* The same, moved by what orders that outlived their cancel did to the position
\* since the snapshot and can still do.
Bounds(z, n) ==
    LET late == OpenOrders \cap lingered
        moved == pos[n] - snap[n]
    IN  [lo |-> Allowed(z, n).lo + (moved + UnfilledOf(late, n, -1)),
         hi |-> Allowed(z, n).hi + (moved + UnfilledOf(late, n, 1))]

\* The loop over the universe; a runaway book engages KILL and ends the cycle.
Size ==
    /\ phase = "size"
    /\ \E z \in Sizings :
         IF Runaway(z)
         THEN /\ kill' = TRUE
              /\ Ends
              /\ UNCHANGED hull
         ELSE /\ queue' = [n \in Names |-> NameLegs(z, n)]
              /\ hull' = [n \in Names |-> Bounds(z, n)]
              /\ phase' = "check"
              /\ UNCHANGED <<stale, snap, kill>>
    /\ UNCHANGED <<venueVars, recordVars, lingered, cycles>>

\* KILL is read again immediately before the submission.
CheckKill ==
    /\ phase = "check"
    /\ IF kill
       THEN Ends
       ELSE phase' = "reconcile" /\ UNCHANGED <<stale, snap, queue>>
    /\ UNCHANGED <<venueVars, recordVars, kill, pastVars>>

-----------------------------------------------------------------------------
(* _reconcile_fills.                                                       *)

\* Mutant: the listing starts after the newest order there is.
Listed_newest == {i \in DOMAIN orders : ~orders[i].open /\ i >= Len(orders)}

\* closed_orders, after the newest submission the table has and no older than
\* the lookback.
Listed == {i \in DOMAIN orders : ~orders[i].open /\ i > floor /\ \A j \in DOMAIN fills : j < i}

\* INSERT OR REPLACE of some rows of the answer.
Record(rows) ==
    fills' = [i \in DOMAIN fills \cup rows |-> IF i \in rows THEN orders[i].filled ELSE fills[i]]

\* The listing is ascending: what was read of it is a prefix.
AscendingParts == {{i \in Listed : i <= k} : k \in {0} \cup Listed}

\* Every row of a listing that may have broken off: closed_orders stops at an
\* HTTP error and returns what it has, so this is a success too.
ReconcileSucceeds ==
    /\ phase = "reconcile"
    /\ \E rows \in AscendingParts : Record(rows)
    /\ failures' = 0
    /\ raised' = 0 /\ uncounted' = 0 /\ excused' = 0
    /\ phase' = "submit"
    /\ UNCHANGED <<stale, snap, queue, venueVars, kill, pastVars>>

\* Mutant: the failures of a process that ends are forgotten.
CountedFailures_volatile == 1

\* consecutive_fill_reconcile_failures + 1, persisted.
CountedFailures == failures + 1

\* An exception: the rows inserted so far are committed with the failure
\* count; at the threshold KILL is engaged and nothing is submitted.  When it
\* was the commit of the success that failed, the count it had reset is 1.
ReconcileFails ==
    /\ phase = "reconcile"
    /\ \E rows \in AscendingParts : Record(rows)
    /\ \/ /\ failures' = CountedFailures
          /\ raised' = raised + 1
          /\ UNCHANGED <<uncounted, excused>>
       \/ failures' = 1 /\ raised' = 1 /\ uncounted' = 0 /\ excused' = 0
    /\ IF failures' >= HaltAfter
       THEN kill' = TRUE /\ Ends
       ELSE phase' = "submit" /\ UNCHANGED <<stale, snap, queue, kill>>
    /\ UNCHANGED <<venueVars, pastVars>>

\* The exception, and then sqlite3.Error on the count: failures is set to the
\* threshold in memory, so KILL is engaged at once; the table keeps the count
\* it had, or the new one if only its re-reading failed.
CountingFails ==
    /\ phase = "reconcile"
    /\ \E rows \in AscendingParts : Record(rows)
    /\ raised' = raised + 1
    /\ \/ uncounted' = uncounted + 1 /\ UNCHANGED failures
       \/ failures' = CountedFailures /\ UNCHANGED uncounted
    /\ kill' = TRUE
    /\ Ends
    /\ UNCHANGED <<venueVars, excused, pastVars>>

-----------------------------------------------------------------------------
(* Submission: no answer and no exception aborts the rest.                 *)

\* broker.submit of the next order: it lands - acknowledged or with the answer
\* lost - or it does not.
SubmitOne ==
    /\ phase = "submit"
    /\ \E n \in Names :
         /\ queue[n] # <<>>
         /\ \/ orders' = Append(orders, Order(n, Head(queue[n])))
            \/ UNCHANGED orders
         /\ queue' = [queue EXCEPT ![n] = Tail(@)]
    /\ UNCHANGED <<phase, stale, snap, pos, floor, recordVars, kill, pastVars>>

\* The equity curve is replaced and the process ends.
Finish ==
    /\ phase = "submit"
    /\ \A n \in Names : queue[n] = <<>>
    /\ Ends
    /\ UNCHANGED <<venueVars, recordVars, kill, pastVars>>

\* An early return (calendar, equity, no target) or the death of the process.
EndEarly ==
    /\ phase # "down"
    /\ Ends
    /\ UNCHANGED <<venueVars, recordVars, kill, pastVars>>

\* The operator engages KILL, or arms the system again.
Operator ==
    /\ kill' = ~kill
    /\ excused' = IF kill THEN uncounted ELSE excused
    /\ UNCHANGED <<procVars, venueVars, fills, failures, raised, uncounted, pastVars>>

CycleNext ==
    \/ VenueFills \/ VenueExpires \/ TimePasses
    \/ Start \/ ListOpen \/ CancelOne \/ CancelDone \/ Snapshot \/ Size \/ CheckKill
    \/ ReconcileSucceeds \/ ReconcileFails \/ CountingFails
    \/ SubmitOne \/ Finish \/ EndEarly \/ Operator

CycleSpec == CycleInit /\ [][CycleNext]_cycleVars

-----------------------------------------------------------------------------
(* Properties                                                              *)

CycleTypeOK ==
    /\ phase \in Phases
    /\ stale \subseteq DOMAIN orders
    /\ snap \in [Names -> Int]
    /\ queue \in [Names -> Legs]
    /\ kill \in BOOLEAN
    /\ orders \in Seq(Orders)
    /\ pos \in [Names -> Int]
    /\ DOMAIN fills \subseteq DOMAIN orders
    /\ \A i \in DOMAIN fills : fills[i] \in Int
    /\ floor \in Nat
    /\ failures \in Nat /\ raised \in Nat /\ uncounted \in Nat /\ excused \in Nat
    /\ lingered \subseteq DOMAIN orders
    /\ hull \in [Names -> [lo : Int, hi : Int]]
    /\ cycles \in 0 .. MaxCycles

\* Runs converge on the current target rather than stack a second book on the
\* first: whatever the open orders do, a position stays between the snapshot,
\* flat and the target of the last sized book (main(), "Cancel THIS sleeve's
\* still-open (unfilled) orders before re-pricing"), but for what orders that
\* were sent a cancel and outlived it still do.
NeverStacks ==
    \A n \in Names :
        /\ hull[n].lo <= pos[n] + Unfilled(n, -1)
        /\ pos[n] + Unfilled(n, 1) <= hull[n].hi

\* main(): without the sweep a second run "would STACK a second full book on top
\* of the first.  Each run thus converges to the current target rather than
\* accumulating": no position can come to exceed every target there ever was.
NeverTwoBooks ==
    \A n \in Names :
        /\ pos[n] + Unfilled(n, 1) <= Max({0} \cup Raws)
        /\ pos[n] + Unfilled(n, -1) >= Min({0} \cup Raws)

\* No outcome falls behind the watermark: of the orders up to the newest
\* recorded one, each is closed and recorded with what it finally filled
\* ("Terminal-but-unfilled orders are recorded too (that is the whole point)",
\* _reconcile_fills), unless it grew older than the lookback before a
\* reconciliation read it, or outlived the cancel of the sweep.
NoOutcomeIsLost ==
    \A i \in DOMAIN fills : \A j \in 1 .. i :
        IF j \in DOMAIN fills
        THEN fills[j] = orders[j].filled /\ ~orders[j].open
        ELSE j <= floor \/ j \in lingered

\* Across processes and crashes, nothing is submitted once HaltAfter
\* reconciliations in a row have failed and been counted; and after one that
\* could not be counted nothing is before the operator armed the system again
\* (_halt_on_fill_reconciliation_breach).
HaltsOnFailures ==
    phase = "submit" => raised - uncounted < HaltAfter /\ uncounted <= excused

\* The open leg of a flip is never alone: sent in turn and filled, the orders
\* of a name never take its position through zero (_delta_orders).
NeverThroughZero == phase = "check" => \A n \in Names : NoLegCrosses(snap[n], queue[n])

=============================================================================
