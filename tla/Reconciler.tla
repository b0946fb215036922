----------------------------- MODULE Reconciler -----------------------------
(***************************************************************************)
(* execution/reconcile.py: what the store holds against what the broker    *)
(* holds.  The broker's book is the truth; the store's book is the row-set *)
(* of positions_snapshots under the greatest key of equity_curve.  Lots    *)
(* are integers, so "within tolerance" is equality.                        *)
(***************************************************************************)
EXTENDS TradingStore, PaperBroker

\* The three tiers of an equity drift between the two books.
EquityStatus == {"ok", "warn", "halt"}

\* _book_positions: positions_at of the latest equity row, nothing without one.
BookPositions ==
    IF equity_curve = {} THEN Flat
    ELSE positions_snapshots[Max(equity_curve)]

\* classify's adoptions: the instruments on which the two books differ.
Adoptions == {i \in Instruments : BookPositions[i] # positions[i]}

PositionsAgree == Adoptions = {}

\* The equity tiers a comparison can read now.  An empty curve reads 0 for
\* the book, far beyond the halt bound.  Otherwise cash and marks may have
\* moved any distance since the row was written, unless the account never
\* traded.
PossibleDrift ==
    IF equity_curve = {} THEN {"halt"}
    ELSE IF broker_fills = NoFills THEN {"ok"}
    ELSE EquityStatus

\* ReconReport.ok: a warn-tier drift still trades.
ReportOk(drift) == PositionsAgree /\ drift # "halt"

-----------------------------------------------------------------------------
(* resolve_in_flight.  PaperBroker has no working orders (open_orders is   *)
(* empty), so an open intent either has a broker fill the store lacks, or  *)
(* is a settled partial, or never landed.                                  *)

MissingFill(c) == c \in open_intents /\ Len(broker_fills[c]) > Len(fills[c])

\* Mutant: only an order that the broker has heard of is resolved.
NeverLanded_known(c) ==
    /\ c \in open_intents
    /\ acks[c] # "none"
    /\ Len(broker_fills[c]) <= Len(fills[c])
    /\ orders[c].filled = 0

NeverLanded(c) ==
    /\ c \in open_intents
    /\ Len(broker_fills[c]) <= Len(fills[c])
    /\ orders[c].filled = 0

\* Mutant: the count already recorded is ignored.
IngestFill_all(c) ==
    /\ c \in open_intents /\ broker_fills[c] # <<>>
    /\ mark_filled(c, broker_fills[c][1])

\* _ingest_missing_fills: the broker fills beyond the count already recorded.
IngestFill(c) ==
    /\ MissingFill(c)
    /\ mark_filled(c, broker_fills[c][Len(fills[c]) + 1])

RejectIntent(c) == NeverLanded(c) /\ mark_rejected(c)

\* Mutant: the gate forgets the fills that are still missing.
AllResolved_forgetful == \A c \in Coid : ~NeverLanded(c)

\* A settled PARTIAL (filled > 0, nothing new at the broker) is left alone,
\* so resolution is over when no intent of the first or last kind is left.
AllResolved == \A c \in Coid : ~MissingFill(c) /\ ~NeverLanded(c)

=============================================================================
