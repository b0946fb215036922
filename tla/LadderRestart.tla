--------------------------- MODULE LadderRestart ---------------------------
(***************************************************************************)
(* The drawdown ladder in the --once deployment of live/loop.py: every     *)
(* cycle is a fresh process that rebuilds the ladder from the equity_curve *)
(* table (_restore_ladder), marks it with the equity before it trades (the *)
(* strategy's on_bar_close) and leaves the equity after it traded as the   *)
(* cycle's row - or leaves none, when the cycle fails.  Cycles that are    *)
(* skipped neither mark nor record and are left out; so are the rows with  *)
(* an equity the ladder would refuse, which the replay passes over.        *)
(***************************************************************************)
EXTENDS DrawdownLadder, SequencesExt

CONSTANTS
    TradingCosts,   \* how far the row of a cycle may lie below its mark
    MaxRows,        \* bound: rows of the curve
    MaxMarks,       \* bound: cycles that reach a decision
    MaxSyncs        \* bound: rows that boots write

ASSUME RestartAssumption ==
    /\ TradingCosts \subseteq Int
    /\ MaxRows \in Nat
    /\ MaxMarks \in Nat
    /\ MaxSyncs \in Nat

VARIABLES
    phase,          \* where the process of the cycle stands
    ladder,         \* the ladder of this process
    replayed,       \* rows of the curve replayed by this boot
    curve,          \* equity_curve: the durable rows, in the order of their keys
    late,           \* rows at its end that are keyed after the current bar's open
    syncs,          \* rows written by boots so far
    marks,          \* history: the equity of every mark, oldest first
    lived           \* history: the ladder one process would hold, before and
                    \* after every mark

ladderVars == <<phase, ladder, replayed, curve, late, syncs, marks, lived>>

Phases == {"down", "replay", "decide", "sized"}

LadderTypeOK ==
    /\ phase \in Phases
    /\ ladder \in Ladder
    /\ replayed \in 0 .. Len(curve)
    /\ curve \in Seq(Equities)
    /\ late \in 0 .. Len(curve)
    /\ syncs \in 0 .. MaxSyncs
    /\ marks \in Seq(Equities)
    /\ lived \in Seq(Ladder)
    /\ Len(lived) = Len(marks) + 1

LadderInit ==
    /\ phase = "down"
    /\ ladder = Pristine
    /\ replayed = 0
    /\ curve = <<>>
    /\ late = 0
    /\ syncs = 0
    /\ marks = <<>>
    /\ lived = <<Pristine>>

\* Mutant: the replay starts from a ladder that has marks already.
BootLadder_marked ==
    /\ phase = "down"
    /\ phase' = "replay"
    /\ replayed' = 0
    /\ UNCHANGED <<ladder, curve, late, syncs, marks, lived>>

\* paper_cmds builds the ladder of the new process.
BootLadder ==
    /\ phase = "down"
    /\ phase' = "replay"
    /\ ladder' = Pristine
    /\ replayed' = 0
    /\ UNCHANGED <<curve, late, syncs, marks, lived>>

\* Mutant: every row starts a ladder of its own, so only the last one counts.
ReplayRow_lastOnly ==
    /\ phase = "replay"
    /\ replayed < Len(curve)
    /\ ladder' = update(Pristine, curve[replayed + 1])
    /\ replayed' = replayed + 1
    /\ UNCHANGED <<phase, curve, late, syncs, marks, lived>>

\* One row of _restore_ladder's loop.
ReplayRow ==
    /\ phase = "replay"
    /\ replayed < Len(curve)
    /\ ladder' = update(ladder, curve[replayed + 1])
    /\ replayed' = replayed + 1
    /\ UNCHANGED <<phase, curve, late, syncs, marks, lived>>

RestoreDone ==
    /\ phase = "replay"
    /\ replayed = Len(curve)
    /\ phase' = "decide"
    /\ UNCHANGED <<ladder, replayed, curve, late, syncs, marks, lived>>

\* After the restore, _sync_book_snapshot_after_recovery may add a row.  It is
\* keyed at now, so it stays behind the row of this bar's cycle.
SyncRow ==
    /\ phase = "decide"
    /\ replayed = Len(curve)
    /\ syncs < MaxSyncs /\ Len(curve) < MaxRows
    /\ \E e \in Equities : curve' = Append(curve, e)
    /\ late' = late + 1
    /\ syncs' = syncs + 1
    /\ UNCHANGED <<phase, ladder, replayed, marks, lived>>

\* on_bar_close sizes the book off the ladder marked with ctx.equity.
Mark ==
    /\ phase = "decide"
    /\ Len(marks) < MaxMarks
    /\ \E e \in Equities :
         /\ ladder' = update(ladder, e)
         /\ marks' = Append(marks, e)
         /\ lived' = Append(lived, update(Last(lived), e))
    /\ phase' = "sized"
    /\ UNCHANGED <<replayed, curve, late, syncs>>

\* The cycle trades and persists its equity: the row is not the mark, fees and
\* slippage lie between them.  It is keyed at the open of the bar.
CycleRow(e) ==
    LET n == Len(curve) - late
    IN  SubSeq(curve, 1, n) \o <<e>> \o SubSeq(curve, n + 1, Len(curve))

RecordRow ==
    /\ phase = "sized"
    /\ Len(curve) < MaxRows
    /\ \E e \in Equities : Last(marks) - e \in TradingCosts /\ curve' = CycleRow(e)
    /\ late' = 0
    /\ phase' = "down"
    /\ UNCHANGED <<ladder, replayed, syncs, marks, lived>>

\* The cycle is 'failed' or 'halted', or the process dies in it: no row.  Only a
\* process that dies before it opened the cycle may be followed by another one
\* in the same bar.
LoseRow ==
    /\ phase # "down"
    /\ phase' = "down"
    /\ \/ late' = 0
       \/ phase # "sized" /\ UNCHANGED late
    /\ UNCHANGED <<ladder, replayed, curve, syncs, marks, lived>>

LadderNext ==
    \/ BootLadder
    \/ ReplayRow
    \/ RestoreDone
    \/ SyncRow
    \/ Mark
    \/ RecordRow
    \/ LoseRow

LadderSpec == LadderInit /\ [][LadderNext]_ladderVars

-----------------------------------------------------------------------------
(* Properties                                                              *)

\* Whatever is replayed, marked or lost, the tier of the ladder fits its last
\* mark: no flapping between release and trigger, no gross beyond a trigger
\* (DrawdownLadder.update).
TierFitsDrawdown == FitsDrawdown(ladder) /\ \A k \in 1 .. Len(lived) : FitsDrawdown(lived[k])

\* Gross is not switched on and off around the trigger: between the mark that
\* halves it and the one that restores it, equity regains more than a quarter
\* of the trigger (the hysteresis of DrawdownLadder).
HalvedFrom(k, m) ==
    /\ lived[k - 1].state = "NORMAL"
    /\ k < m
    /\ \A i \in k .. m - 1 : lived[i].state = "HALF_GROSS"

NoFlapping ==
    \A k, m \in 2 .. Len(lived) :
        HalvedFrom(k, m) /\ lived[m].state = "NORMAL" =>
            4 * Scale * (lived[m].last_equity - lived[k].last_equity) > Half * lived[k].hwm

\* What the ladder of a sized book was fed: the curve it found, then its mark.
Fed == Append(SubSeq(curve, 1, replayed), Last(marks))

\* Row j of the feed tripped the flat tier against an earlier peak.
Tripped(j) == \E p \in 1 .. j : Breaches(Fed[p], Fed[j], Flat)

\* The brake survives the restart: a fresh process sizes at full gross below
\* the half trigger of a recorded equity only if a full halt was served after
\* that equity (the defect _restore_ladder repairs).
FullGrossIsEarned ==
    phase = "sized" /\ ladder.state = "NORMAL" =>
        \A i \in 1 .. Len(Fed) :
            Breaches(Fed[i], Last(marks), Half) =>
                \E j \in 1 .. Len(Fed) - Cooldown : i < j + Cooldown /\ Tripped(j)

\* The replay is exact as long as the rows of the curve are the marks of the
\* cycles: then the restored ladder is the one a single process would hold
\* (_restore_ladder, "the restored ladder is the ladder").
ExactOnMarks == phase = "decide" /\ replayed = Len(curve) /\ curve = marks => ladder = Last(lived)

=============================================================================
