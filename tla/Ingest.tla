------------------------------ MODULE Ingest ------------------------------
(***************************************************************************)
(* Ingestion into the Parquet lake: BackfillJob (data/ingest/backfill.py)  *)
(* for crypto bars and funding, EquitiesFlatFilesJob (data/ingest/         *)
(* equities.py) for the daily equity files, over CheckpointStore           *)
(* (data/ingest/checkpoints.py) and LakeWriter (data/store/writer.py).     *)
(* Several processes compete for the flock; each may die at any step.      *)
(*                                                                         *)
(* A key is a key-timestamp, a batch the keys of one fetch; a file of the  *)
(* lake holds LeafSpan keys of a series, and the writer reads and replaces *)
(* it in two steps.  A session of the equity feed is one key: the writer   *)
(* replaces the files of its tickers one after another, the watermark      *)
(* follows all of them, and the session counts as stored with the last.    *)
(* The run log, which no code path reads back, and the rate budget are     *)
(* left out.                                                               *)
(***************************************************************************)
EXTENDS Integers, Sequences, SequencesExt

CONSTANTS
    Jobs,       \* the processes
    NoJob,      \* nobody holds the lock
    CryptoRun,  \* the crypto series, in the order of a run
    EquityRun,  \* the equity feed, on its own
    Archived,   \* series of delisted instruments, read from the archive
    Data,       \* the keys the venue has for each series
    Width,      \* how long after its key a row is final: tf.ms, 0 for funding
    Listed, Delisted,       \* the life of an instrument
    BatchSpan, MonthSpan, LeafSpan,
    Floors, Ceilings,       \* the --start and --until an operator may give
    Horizon,    \* bound: the clock
    MaxManual,  \* bound: runs an operator starts by hand
    MaxFaults   \* bound: failures, crashes and resets

Crypto == ToSet(CryptoRun)
Feeds == ToSet(EquityRun)
Series == Crypto \cup Feeds

ASSUME IngestAssumption ==
    /\ CryptoRun \in Seq(Series) /\ EquityRun \in Seq(Series)
    /\ Crypto \cap Feeds = {}
    /\ NoJob \notin Jobs
    /\ Archived \subseteq Crypto
    /\ Width \in [Series -> Nat] /\ Listed \in [Series -> Nat] /\ Delisted \in [Series -> Nat]
    /\ Data \in [Series -> SUBSET Nat]
    /\ BatchSpan \in Nat \ {0} /\ MonthSpan \in Nat \ {0} /\ LeafSpan \in Nat \ {0}
    /\ Floors \subseteq Nat /\ Ceilings \subseteq Nat
    /\ Horizon \in Nat /\ MaxManual \in Nat /\ MaxFaults \in Nat

\* A row belongs to the life of its instrument, and is final when that ends.
ASSUME LifeAssumption ==
    /\ \A s \in Series : \A k \in Data[s] : Listed[s] <= k
    /\ \A s \in Archived : \A k \in Data[s] : k < Delisted[s] /\ k + Width[s] <= Delisted[s]

VARIABLES
    clock,
    holder,     \* who holds var/ingest.lock
    stored,     \* the lake: the keys of each series
    mark,       \* the checkpoints: watermark per series, -1 for none
    pc,         \* where a process stands
    asked,      \* the span a process was asked for, and its `now`
    todo,       \* the series it still has to process; the head is in hand
    cursor,     \* how far it has walked
    rows,       \* the last batch it had to write
    left,       \* what of it is not written yet
    image,      \* the file it is about to put in place
    gaps,       \* whether a month of the series was missing
    passed,     \* history: keys a run left behind without storing them
    manual, faults

procVars == <<pc, asked, todo, cursor, rows, left, image, gaps>>
ingestVars == <<clock, holder, stored, mark, procVars, passed, manual, faults>>

Least(a, b) == IF a < b THEN a ELSE b
Greatest(a, b) == IF a > b THEN a ELSE b
Top(K) == CHOOSE k \in K : \A h \in K : h <= k
Bottom(K) == CHOOSE k \in K : \A h \in K : k <= h

\* Where a process stands: asked but not locked, between two series, walking
\* one, writing a batch, about to replace a file.
Steps == {"idle", "asked", "next", "walk", "write", "replace"}
Locked == {"next", "walk", "write", "replace"}
Busy == {"walk", "write", "replace"}

NoSpan == [floor |-> 0, until |-> 0, now |-> 0]

IngestInit ==
    /\ clock = 0
    /\ holder = NoJob
    /\ stored = [s \in Series |-> {}]
    /\ mark = [s \in Series |-> -1]
    /\ pc = [j \in Jobs |-> "idle"]
    /\ asked = [j \in Jobs |-> NoSpan]
    /\ todo = [j \in Jobs |-> <<>>]
    /\ cursor = [j \in Jobs |-> 0]
    /\ rows = [j \in Jobs |-> {}]
    /\ left = [j \in Jobs |-> {}]
    /\ image = [j \in Jobs |-> {}]
    /\ gaps = [j \in Jobs |-> FALSE]
    /\ passed = [s \in Series |-> {}]
    /\ manual = 0 /\ faults = 0

-----------------------------------------------------------------------------
(* A run: its span, and the lock.                                          *)

\* A process fixes its span and its clock before it tries the lock.
Ask(j, floor, until, series) ==
    /\ pc[j] = "idle"
    /\ asked' = [asked EXCEPT ![j] = [floor |-> floor, until |-> until, now |-> clock]]
    /\ todo' = [todo EXCEPT ![j] = series]
    /\ pc' = [pc EXCEPT ![j] = "asked"]
    /\ UNCHANGED <<clock, holder, stored, mark, cursor, rows, left, image, gaps, passed, faults>>

\* BackfillJob.run by hand.
AskBackfill(j) ==
    /\ manual < MaxManual
    /\ manual' = manual + 1
    /\ \E floor \in Floors, until \in Ceilings \cup {clock} :
         Ask(j, floor, until, CryptoRun)

\* EquitiesFlatFilesJob.run.
AskEquities(j) ==
    /\ manual < MaxManual
    /\ manual' = manual + 1
    /\ \E floor \in Floors, until \in Ceilings \cup {clock} :
         Ask(j, floor, until, EquityRun)

\* BackfillJob.update: from the lowest watermark of all, or nothing at all.
Marks == {mark[s] : s \in Crypto} \ {-1}
UpdateFloor == IF Marks = {} THEN clock ELSE Bottom(Marks) + 1

AskUpdate(j) ==
    /\ Ask(j, UpdateFloor, clock, CryptoRun)
    /\ UNCHANGED manual

\* A process that is done with a series, or with everything, forgets it.
Forget(j) ==
    /\ cursor' = [cursor EXCEPT ![j] = 0]
    /\ rows' = [rows EXCEPT ![j] = {}]
    /\ left' = [left EXCEPT ![j] = {}]
    /\ image' = [image EXCEPT ![j] = {}]
    /\ gaps' = [gaps EXCEPT ![j] = FALSE]

Rest(j) ==
    /\ pc' = [pc EXCEPT ![j] = "idle"]
    /\ todo' = [todo EXCEPT ![j] = <<>>]
    /\ asked' = [asked EXCEPT ![j] = NoSpan]
    /\ Forget(j)

NextSeries(j) ==
    /\ pc' = [pc EXCEPT ![j] = "next"]
    /\ todo' = [todo EXCEPT ![j] = Tail(@)]
    /\ Forget(j)

\* Mutant: the lock file is opened and never locked.
Acquire_open(j) ==
    /\ pc[j] = "asked"
    /\ holder' = j
    /\ pc' = [pc EXCEPT ![j] = "next"]
    /\ UNCHANGED <<clock, stored, mark, asked, todo, cursor, rows, left, image, gaps, passed, manual, faults>>

\* flock LOCK_EX | LOCK_NB.
Acquire(j) ==
    /\ pc[j] = "asked"
    /\ holder = NoJob
    /\ holder' = j
    /\ pc' = [pc EXCEPT ![j] = "next"]
    /\ UNCHANGED <<clock, stored, mark, asked, todo, cursor, rows, left, image, gaps, passed, manual, faults>>

\* LockHeldError.
Refused(j) ==
    /\ pc[j] = "asked"
    /\ holder # NoJob
    /\ Rest(j)
    /\ UNCHANGED <<clock, holder, stored, mark, passed, manual, faults>>

\* The run is over: the descriptor is closed and the lock with it.
Finish(j) ==
    /\ pc[j] = "next"
    /\ todo[j] = <<>>
    /\ holder' = NoJob
    /\ Rest(j)
    /\ UNCHANGED <<clock, stored, mark, passed, manual, faults>>

-----------------------------------------------------------------------------
(* One series: _process and the walk over its span.                        *)

Start(s, a) == Greatest(Greatest(a.floor, Listed[s]), mark[s] + 1)

Until(s, a) ==
    LET u == Least(a.until, a.now)
    IN  IF s \in Archived THEN Least(u, Delisted[s]) ELSE u

Between(s, lo, hi) == {k \in Data[s] : lo <= k /\ k < hi}

\* Nothing left of this series in the span.
Skip(j) ==
    /\ pc[j] = "next"
    /\ todo[j] # <<>>
    /\ LET s == Head(todo[j]) IN Until(s, asked[j]) <= Start(s, asked[j])
    /\ NextSeries(j)
    /\ UNCHANGED <<clock, holder, stored, mark, asked, passed, manual, faults>>

\* The walk begins at start; the keys between the watermark and it, if any,
\* are left behind.
Begin(j) ==
    /\ pc[j] = "next"
    /\ todo[j] # <<>>
    /\ LET s == Head(todo[j])
           start == Start(s, asked[j])
       IN  /\ start < Until(s, asked[j])
           /\ cursor' = [cursor EXCEPT ![j] = start]
           /\ passed' = [passed EXCEPT ![s] = @ \cup Between(s, mark[s] + 1, start)]
    /\ pc' = [pc EXCEPT ![j] = "walk"]
    /\ UNCHANGED <<clock, holder, stored, mark, asked, todo, rows, left, image, gaps, manual, faults>>

\* The end of the batch that begins at the cursor: a session, a month of the
\* archive, or batch_days.
BatchEnd(s, from, until) ==
    Least(until, IF s \in Feeds THEN from + 1
                 ELSE IF s \in Archived THEN (from \div MonthSpan + 1) * MonthSpan
                 ELSE from + BatchSpan)

\* Mutant: the bar that is still forming is kept.
Final_forming(s, K, now) == K
\* _write_batch, and the writer again: only rows whose bar has closed.
Final(s, K, now) == {k \in K : k + Width[s] <= now}

\* The next chunk, session or month.  An empty one moves the cursor alone.
Fetch(j) ==
    /\ pc[j] = "walk"
    /\ LET s == Head(todo[j])
           until == Until(s, asked[j])
           to == BatchEnd(s, cursor[j], until)
           got == Final(s, Between(s, cursor[j], to), asked[j].now)
       IN  /\ cursor[j] < until
           /\ cursor' = [cursor EXCEPT ![j] = to]
           /\ IF got = {} THEN UNCHANGED <<pc, rows, left>>
              ELSE /\ rows' = [rows EXCEPT ![j] = got]
                   /\ left' = [left EXCEPT ![j] = got]
                   /\ pc' = [pc EXCEPT ![j] = "write"]
    /\ UNCHANGED <<clock, holder, stored, mark, asked, todo, image, gaps, passed, manual, faults>>

\* DataGapError: the archive has no file for the month.
MissingMonth(j) ==
    /\ pc[j] = "walk"
    /\ LET s == Head(todo[j])
           until == Until(s, asked[j])
           to == BatchEnd(s, cursor[j], until)
       IN  /\ s \in Archived
           /\ cursor[j] < until
           /\ cursor' = [cursor EXCEPT ![j] = to]
           /\ passed' = [passed EXCEPT ![s] = @ \cup Between(s, cursor[j], to)]
    /\ gaps' = [gaps EXCEPT ![j] = TRUE]
    /\ faults < MaxFaults
    /\ faults' = faults + 1
    /\ UNCHANGED <<clock, holder, stored, mark, pc, asked, todo, rows, left, image, manual>>

\* A gap-free walk to the end of a delisted instrument.
Converges(j, s) ==
    /\ s \in Archived
    /\ ~gaps[j]
    /\ Until(s, asked[j]) = Delisted[s]
    /\ Delisted[s] - 1 \notin rows[j]

\* The walk is over; the watermark converges to the last moment before delisting.
EndWalk(j) ==
    /\ pc[j] = "walk"
    /\ LET s == Head(todo[j])
       IN  /\ Until(s, asked[j]) <= cursor[j]
           /\ IF Converges(j, s)
              THEN /\ mark[s] <= Delisted[s] - 1
                   /\ mark' = [mark EXCEPT ![s] = Delisted[s] - 1]
              ELSE UNCHANGED mark
    /\ NextSeries(j)
    /\ UNCHANGED <<clock, holder, stored, asked, passed, manual, faults>>

-----------------------------------------------------------------------------
(* One batch: LakeWriter.write leaf by leaf, then the watermark.           *)

Leaf(k) == k \div LeafSpan
OfLeaf(K, l) == {k \in K : Leaf(k) = l}
Current(j) == Leaf(Bottom(left[j]))

\* _merge_leaf: read the file, add the rows.
Merge(j) ==
    /\ pc[j] = "write"
    /\ left[j] # {}
    /\ image' = [image EXCEPT ![j] =
         OfLeaf(stored[Head(todo[j])], Current(j)) \cup OfLeaf(left[j], Current(j))]
    /\ pc' = [pc EXCEPT ![j] = "replace"]
    /\ UNCHANGED <<clock, holder, stored, mark, asked, todo, cursor, rows, left, gaps, passed, manual, faults>>

\* _atomic_write: os.replace.
Replace(j) ==
    /\ pc[j] = "replace"
    /\ stored' = [stored EXCEPT ![Head(todo[j])] = (@ \ OfLeaf(@, Current(j))) \cup image[j]]
    /\ left' = [left EXCEPT ![j] = @ \ OfLeaf(@, Current(j))]
    /\ image' = [image EXCEPT ![j] = {}]
    /\ pc' = [pc EXCEPT ![j] = "write"]
    /\ UNCHANGED <<clock, holder, mark, asked, todo, cursor, rows, gaps, passed, manual, faults>>

\* Mutant: the watermark is set while rows are still to be written.
SetMark_early(j) ==
    /\ pc[j] = "write"
    /\ LET s == Head(todo[j]) IN
         /\ mark[s] <= Top(rows[j])
         /\ mark' = [mark EXCEPT ![s] = Top(rows[j])]
    /\ pc' = [pc EXCEPT ![j] = IF left[j] = {} THEN "walk" ELSE "write"]
    /\ UNCHANGED <<clock, holder, stored, asked, todo, cursor, rows, left, image, gaps, passed, manual, faults>>

\* CheckpointStore.set; a regression would be an exception.
SetMark(j) ==
    /\ pc[j] = "write"
    /\ left[j] = {}
    /\ LET s == Head(todo[j]) IN
         /\ mark[s] <= Top(rows[j])
         /\ mark' = [mark EXCEPT ![s] = Top(rows[j])]
    /\ pc' = [pc EXCEPT ![j] = "walk"]
    /\ UNCHANGED <<clock, holder, stored, asked, todo, cursor, rows, left, image, gaps, passed, manual, faults>>

-----------------------------------------------------------------------------
(* What goes wrong.                                                        *)

\* An exception in a fetch or a write: the series is abandoned, the run goes on.
FailSeries(j) ==
    /\ pc[j] \in Busy
    /\ Head(todo[j]) \notin Feeds
    /\ faults < MaxFaults
    /\ faults' = faults + 1
    /\ NextSeries(j)
    /\ UNCHANGED <<clock, holder, stored, mark, asked, passed, manual>>

\* An exception in a session of the feed: the run goes on with the next session.
FailSession(j) ==
    /\ pc[j] \in Busy
    /\ faults < MaxFaults
    /\ faults' = faults + 1
    /\ LET s == Head(todo[j])
           to == IF pc[j] = "walk" THEN BatchEnd(s, cursor[j], Until(s, asked[j])) ELSE cursor[j]
           from == IF pc[j] = "walk" THEN cursor[j] ELSE cursor[j] - 1
       IN  /\ s \in Feeds
           /\ pc[j] = "walk" => cursor[j] < Until(s, asked[j])
           /\ cursor' = [cursor EXCEPT ![j] = to]
           /\ passed' = [passed EXCEPT ![s] = @ \cup Between(s, from, to)]
    /\ left' = [left EXCEPT ![j] = {}]
    /\ image' = [image EXCEPT ![j] = {}]
    /\ pc' = [pc EXCEPT ![j] = "walk"]
    /\ UNCHANGED <<clock, holder, stored, mark, asked, todo, rows, gaps, manual>>

\* Mutant: a lock file, which outlives its process.
Crash_wedges(j) ==
    /\ pc[j] \in Locked
    /\ faults < MaxFaults
    /\ faults' = faults + 1
    /\ Rest(j)
    /\ UNCHANGED <<clock, holder, stored, mark, passed, manual>>

\* The process dies; the operating system releases its lock.
Crash(j) ==
    /\ pc[j] \in Locked
    /\ faults < MaxFaults
    /\ faults' = faults + 1
    /\ holder' = NoJob
    /\ Rest(j)
    /\ UNCHANGED <<clock, stored, mark, passed, manual>>

\* checkpoints.reset: the operator rewinds a series, lock or no lock.
Reset(s) ==
    /\ mark[s] # -1
    /\ faults < MaxFaults
    /\ faults' = faults + 1
    /\ mark' = [mark EXCEPT ![s] = -1]
    /\ UNCHANGED <<clock, holder, stored, procVars, passed, manual>>

Tick ==
    /\ clock < Horizon
    /\ clock' = clock + 1
    /\ UNCHANGED <<holder, stored, mark, procVars, passed, manual, faults>>

-----------------------------------------------------------------------------
Work(j) ==
    \/ Acquire(j) \/ Refused(j) \/ Finish(j)
    \/ Skip(j) \/ Begin(j) \/ Fetch(j) \/ EndWalk(j)
    \/ Merge(j) \/ Replace(j) \/ SetMark(j)

IngestNext ==
    \/ \E j \in Jobs :
         \/ AskBackfill(j) \/ AskEquities(j) \/ AskUpdate(j)
         \/ Work(j)
         \/ MissingMonth(j) \/ FailSeries(j) \/ FailSession(j) \/ Crash(j)
    \/ \E s \in Series : Reset(s)
    \/ Tick

IngestSpec == IngestInit /\ [][IngestNext]_ingestVars

\* A process that runs goes on, and the timer starts an update again and again.
FairIngest ==
    /\ IngestSpec
    /\ \A j \in Jobs : WF_ingestVars(Work(j)) /\ WF_ingestVars(AskUpdate(j))
-----------------------------------------------------------------------------
(* Properties.                                                             *)

\* Type correctness.  Only the holder of the lock works; a process that works
\* has a series in hand, and what it has left to write is part of its batch.
IngestTypeOK ==
    /\ clock \in Nat /\ manual \in Nat /\ faults \in Nat
    /\ holder \in Jobs \cup {NoJob}
    /\ stored \in [Series -> SUBSET Nat]
    /\ mark \in [Series -> Int]
    /\ passed \in [Series -> SUBSET Nat]
    /\ pc \in [Jobs -> Steps]
    /\ asked \in [Jobs -> [floor : Nat, until : Nat, now : Nat]]
    /\ todo \in [Jobs -> Seq(Series)]
    /\ cursor \in [Jobs -> Nat]
    /\ rows \in [Jobs -> SUBSET Nat]
    /\ left \in [Jobs -> SUBSET Nat]
    /\ image \in [Jobs -> SUBSET Nat]
    /\ gaps \in [Jobs -> BOOLEAN]
    /\ \A j \in Jobs :
         /\ (pc[j] \in Locked) <=> (holder = j)
         /\ pc[j] \in Busy => todo[j] # <<>>
         /\ left[j] \subseteq rows[j]

\* A bar that was still forming never reaches the lake: _write_batch and the
\* writer drop it by the clock of the run.  Were it stored, the watermark would
\* pass it and no later run would fetch the finished bar.
OnlyFinalRows ==
    \A s \in Series : \A k \in stored[s] : k \in Data[s] /\ k + Width[s] <= clock

\* Through every race for the lock, failure, crash and reset, the lake keeps
\* its contract (checkpoints.py, "Watermark semantics"): a row once stored is
\* never lost to the rewrite of its file, and a watermark rises only over keys
\* that are stored or that a run has passed over.
Contract == INSTANCE Lake
KeepsTheLake == Contract!LakeSpec

\* A series that has been ingested once is followed: a row final by the clock
\* is, in the end, in the lake, or a run has passed it over.  Whatever failed,
\* died or was refused, the updates that come after make good.  (Not so a
\* series that has no watermark: an update begins above the lowest watermark of
\* the others, and a first failure there is never made good.)
Due(s, k) == k + Width[s] <= clock /\ k < clock /\ mark[s] # -1
CatchesUp ==
    \A s \in Crypto : \A k \in Data[s] :
        Due(s, k) ~> (k \in stored[s] \cup passed[s] \/ mark[s] = -1)

\* What equities.py says of its resumption: a crash or a failure resumes from
\* the first session that is not yet written.  No session between one that is
\* stored and the watermark is missing.
SessionsAreResumed ==
    \A s \in Feeds : \A k \in Data[s] :
        (k <= mark[s] /\ \E h \in stored[s] : h < k) => k \in stored[s]
=============================================================================
