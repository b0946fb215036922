------------------------------- MODULE Lake -------------------------------
(***************************************************************************)
(* What the lake and its watermarks promise to those who read them: the    *)
(* contract of data/ingest/checkpoints.py and data/store/writer.py.  A     *)
(* stored row stays; a watermark only rises, and only over rows that are   *)
(* stored or that some run has passed over; the operator may delete it.    *)
(***************************************************************************)
EXTENDS Integers

CONSTANTS
    Series,     \* the (dataset, instrument) pairs, and the equity feed
    Data        \* the keys the venue has for each series

VARIABLES
    stored,     \* the keys of the lake
    mark,       \* the watermark of a series, -1 for none
    passed      \* history: keys a run left behind without storing them

lakeVars == <<stored, mark, passed>>

LakeInit ==
    /\ stored = [s \in Series |-> {}]
    /\ mark = [s \in Series |-> -1]
    /\ passed = [s \in Series |-> {}]

\* LakeWriter.write of one leaf.
Persist(s) ==
    /\ stored[s] \subseteq stored'[s]
    /\ stored'[s] \subseteq Data[s]
    /\ stored' = [stored EXCEPT ![s] = stored'[s]]
    /\ UNCHANGED <<mark, passed>>

\* A run leaves keys behind: below its start, in a missing month, of a
\* failed session.
PassOver(s) ==
    /\ passed[s] \subseteq passed'[s]
    /\ passed'[s] \subseteq Data[s]
    /\ passed' = [passed EXCEPT ![s] = passed'[s]]
    /\ UNCHANGED <<stored, mark>>

\* CheckpointStore.set.
Advance(s) ==
    /\ mark[s] <= mark'[s]
    /\ \A k \in Data[s] : k <= mark'[s] => k \in stored[s] \cup passed[s]
    /\ mark' = [mark EXCEPT ![s] = mark'[s]]
    /\ UNCHANGED <<stored, passed>>

\* CheckpointStore.reset.
Rewind(s) ==
    /\ mark' = [mark EXCEPT ![s] = -1]
    /\ UNCHANGED <<stored, passed>>

LakeNext == \E s \in Series : Persist(s) \/ PassOver(s) \/ Advance(s) \/ Rewind(s)

LakeSpec == LakeInit /\ [][LakeNext]_lakeVars
=============================================================================
