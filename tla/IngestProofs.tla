--------------------------- MODULE IngestProofs ---------------------------
(***************************************************************************)
(* Proofs about ingestion (Ingest): under any races for the lock, failures,*)
(* crashes and resets, only final rows reach the lake, and the lake and    *)
(* its watermarks keep their contract (Lake).                              *)
(***************************************************************************)
EXTENDS Ingest, SequenceTheorems, WellFoundedInduction, TLAPS

-----------------------------------------------------------------------------
(* Arithmetic of keys.                                                     *)

LEMMA BottomExists ==
    ASSUME NEW K \in SUBSET Nat, K # {}
    PROVE  Bottom(K) \in K /\ \A k \in K : Bottom(K) <= k
<1>1. PICK b \in K : \A k \in K : ~(<<k, b>> \in OpToRel(<, Nat))
  BY NatLessThanWellFounded, WFMin
<1>2. ASSUME NEW k \in K, k < b PROVE <<k, b>> \in OpToRel(<, Nat)
  <2>1. <<k, b>> \in Nat \X Nat  OBVIOUS
  <2>2. <<k, b>>[1] = k /\ <<k, b>>[2] = b  OBVIOUS
  <2> QED  BY <1>2, <2>1, <2>2, Zenon DEF OpToRel
<1>3. \A k \in K : ~(k < b)  BY <1>1, <1>2
<1>4. \A k \in K : b <= k  BY <1>3
<1> QED  BY <1>4 DEF Bottom

LEMMA TopExists ==
    ASSUME NEW K \in SUBSET Nat, K # {}, NEW n \in Nat, \A k \in K : k < n
    PROVE  Top(K) \in K /\ \A k \in K : k <= Top(K)
<1> DEFINE D == {n - k : k \in K}
<1>1. D \in SUBSET Nat /\ D # {}
  <2>1. ASSUME NEW k \in K PROVE n - k \in Nat
    <3>1. k \in Nat /\ k < n  OBVIOUS
    <3> QED  BY <3>1, SMT
  <2>2. D \in SUBSET Nat  BY <2>1, Zenon
  <2>3. PICK k \in K : TRUE  OBVIOUS
  <2>4. n - k \in D  OBVIOUS
  <2> QED  BY <2>2, <2>4
<1> HIDE DEF D
<1>2. PICK d \in D : \A e \in D : d <= e  BY <1>1, BottomExists
<1>3. PICK t \in K : d = n - t  BY DEF D
<1>4. \A k \in K : n - k \in D  BY DEF D
<1>5. \A k \in K : k <= t  BY <1>2, <1>3, <1>4
<1> QED  BY <1>5 DEF Top
-----------------------------------------------------------------------------
(* The inductive invariant.                                                *)

Typed ==
    /\ clock \in Nat /\ manual \in Nat /\ faults \in Nat
    /\ holder \in Jobs \cup {NoJob}
    /\ stored \in [Series -> SUBSET Nat]
    /\ mark \in [Series -> Int]
    /\ passed \in [Series -> SUBSET Nat]
    /\ pc \in [Jobs -> Steps]
    /\ asked \in [Jobs -> [floor : Nat, until : Nat, now : Nat]]
    /\ todo \in [Jobs -> Seq(Series)]
    /\ cursor \in [Jobs -> Nat]
    /\ rows \in [Jobs -> SUBSET Nat]
    /\ left \in [Jobs -> SUBSET Nat]
    /\ image \in [Jobs -> SUBSET Nat]
    /\ gaps \in [Jobs -> BOOLEAN]

\* The lake holds final rows of the venue, and a watermark keeps its promise.
Promise(s) == \A k \in Data[s] : k <= mark[s] => k \in stored[s] \cup passed[s]
Sound(s) ==
    /\ mark[s] >= -1
    /\ \A k \in stored[s] : k \in Data[s] /\ k + Width[s] <= clock
    /\ passed[s] \subseteq Data[s]
    /\ Promise(s)

\* What a process knows of the series in its hand: every final row below its
\* cursor is stored, passed over, or still to be written; what it has to write
\* is final and below the cursor; and the file it will put in place is the one
\* that stands, with its rows added.
InHand(j) == Head(todo[j])
IsFinal(j, k) == k + Width[InHand(j)] <= asked[j].now
Walked(j) ==
    \A k \in Data[InHand(j)] : k < cursor[j] /\ IsFinal(j, k) =>
        k \in stored[InHand(j)] \cup passed[InHand(j)] \cup left[j]
Pending(j) == pc[j] \in {"write", "replace"} =>
    \A k \in rows[j] : k \in Data[InHand(j)] /\ k < cursor[j] /\ IsFinal(j, k)
Written(j) ==
    /\ pc[j] = "walk" => left[j] = {}
    /\ pc[j] \in {"write", "replace"} =>
         /\ rows[j] # {}
         /\ InHand(j) \in Feeds => \A k \in rows[j] : cursor[j] - 1 <= k
    /\ pc[j] = "replace" =>
         image[j] = OfLeaf(stored[InHand(j)], Current(j)) \cup OfLeaf(left[j], Current(j))
Working(j) == todo[j] # <<>> /\ Walked(j) /\ Pending(j) /\ Written(j)

JobSound(j) ==
    /\ (pc[j] \in Locked) <=> (holder = j)
    /\ left[j] \subseteq rows[j]
    /\ pc[j] \notin Busy => rows[j] = {}
    /\ asked[j].now <= clock
    /\ pc[j] \in Busy => Working(j)

IngestInv ==
    /\ Typed
    /\ \A s \in Series : Sound(s)
    /\ \A j \in Jobs : JobSound(j)

-----------------------------------------------------------------------------
(* The spans of a run.                                                     *)

LEMMA LeastGreatest ==
    ASSUME NEW a \in Int, NEW b \in Int
    PROVE  /\ Least(a, b) \in {a, b} /\ Least(a, b) <= a /\ Least(a, b) <= b
           /\ Greatest(a, b) \in {a, b} /\ Greatest(a, b) >= a /\ Greatest(a, b) >= b
BY DEF Least, Greatest

LEMMA StartType ==
    ASSUME IngestInv, NEW s \in Series, NEW a \in [floor : Nat, until : Nat, now : Nat]
    PROVE  /\ Start(s, a) \in Nat
           /\ mark[s] + 1 <= Start(s, a)
           /\ mark[s] + 1 \in Nat
<1>1. a.floor \in Nat /\ Listed[s] \in Nat /\ mark[s] \in Int /\ mark[s] >= -1
  BY IngestAssumption DEF IngestInv, Typed, Sound
<1>2. Greatest(a.floor, Listed[s]) \in Nat  BY <1>1, LeastGreatest
<1> QED  BY <1>1, <1>2, LeastGreatest DEF Start

LEMMA UntilType ==
    ASSUME NEW s \in Series, NEW a \in [floor : Nat, until : Nat, now : Nat]
    PROVE  /\ Until(s, a) \in Nat
           /\ Until(s, a) <= a.now
<1>1. a.until \in Nat /\ a.now \in Nat  OBVIOUS
<1>2. Least(a.until, a.now) \in Nat /\ Least(a.until, a.now) <= a.now  BY <1>1, LeastGreatest
<1>3. CASE s \in Archived
  <2>1. Delisted[s] \in Nat  BY IngestAssumption
  <2>2. Least(Least(a.until, a.now), Delisted[s]) \in Nat
        /\ Least(Least(a.until, a.now), Delisted[s]) <= Least(a.until, a.now)
    BY <2>1, <1>2, LeastGreatest
  <2> QED  BY <1>1, <1>2, <1>3, <2>2 DEF Until
<1>4. CASE s \notin Archived  BY <1>2, <1>4 DEF Until
<1> QED  BY <1>3, <1>4

LEMMA BatchEndType ==
    ASSUME NEW s \in Series, NEW from \in Nat, NEW until \in Nat
    PROVE  /\ BatchEnd(s, from, until) \in Nat
           /\ s \in Feeds => BatchEnd(s, from, until) <= from + 1
<1> DEFINE to == IF s \in Feeds THEN from + 1
                 ELSE IF s \in Archived THEN (from \div MonthSpan + 1) * MonthSpan
                 ELSE from + BatchSpan
<1>1. MonthSpan \in Nat \ {0} /\ BatchSpan \in Nat  BY IngestAssumption
<1>2. from \div MonthSpan \in Nat  BY <1>1, SMT
<1>3. (from \div MonthSpan + 1) * MonthSpan \in Nat  BY <1>1, <1>2, SMT
<1>4. to \in Nat /\ (s \in Feeds => to = from + 1)  BY <1>1, <1>3
<1> HIDE DEF to
<1>5. Least(until, to) \in Nat /\ Least(until, to) <= to  BY <1>4, LeastGreatest
<1>6. BatchEnd(s, from, until) = Least(until, to)  BY DEF BatchEnd, to
<1> QED  BY <1>4, <1>5, <1>6

\* The floor of an update is a key-timestamp.
LEMMA UpdateFloorType ==
    ASSUME IngestInv
    PROVE  UpdateFloor \in Nat
<1>1. clock \in Nat  BY DEF IngestInv, Typed
<1>2. ASSUME Marks # {} PROVE Bottom(Marks) + 1 \in Nat
  <2>1. \A s \in Crypto : mark[s] \in Int /\ mark[s] >= -1  BY DEF IngestInv, Typed, Sound, Series
  <2>2. Marks \in SUBSET Nat  BY <2>1 DEF Marks
  <2>3. Bottom(Marks) \in Nat  BY <1>2, <2>2, BottomExists
  <2> QED  BY <2>3
<1> QED  BY <1>1, <1>2 DEF UpdateFloor

LEMMA HandType ==
    ASSUME IngestInv, NEW j \in Jobs, todo[j] # <<>>
    PROVE  InHand(j) \in Series /\ Tail(todo[j]) \in Seq(Series)
<1>1. todo[j] \in Seq(Series)  BY DEF IngestInv, Typed
<1> QED  BY <1>1, HeadTailProperties DEF InHand

-----------------------------------------------------------------------------
(* What one process does leaves what the others know alone.                *)

\* A process that neither acts nor sees the lake change.
LEMMA Bystander ==
    ASSUME NEW i \in Jobs, JobSound(i),
           pc'[i] = pc[i], asked'[i] = asked[i], todo'[i] = todo[i], cursor'[i] = cursor[i],
           rows'[i] = rows[i], left'[i] = left[i], image'[i] = image[i],
           clock \in Nat, clock' \in Nat, clock <= clock', asked[i].now \in Nat,
           holder' = holder, stored' = stored, passed' = passed
    PROVE  JobSound(i)'
BY DEF JobSound, Working, Walked, Pending, Written, IsFinal, InHand, Current

\* A process that waits for the lock, or does not want it, while another holds it.
LEMMA LockedOut ==
    ASSUME IngestInv, NEW i \in Jobs, NEW j \in Jobs, i # j, pc[i] \notin Locked,
           pc'[i] = pc[i], asked'[i] = asked[i], rows'[i] = rows[i], left'[i] = left[i],
           clock' = clock, holder' \in {holder, j, NoJob}
    PROVE  JobSound(i)'
<1>1. holder # i  BY DEF IngestInv, JobSound
<1>2. holder' # i  BY <1>1, IngestAssumption
<1>3. pc'[i] \notin Busy  BY DEF Busy, Locked
<1> QED  BY <1>2, <1>3 DEF JobSound, IngestInv

\* Of two processes, one works at most.
LEMMA OneWorks ==
    ASSUME IngestInv, NEW i \in Jobs, NEW j \in Jobs, i # j, pc[j] \in Locked \/ holder = NoJob
    PROVE  pc[i] \notin Locked
<1>1. i # NoJob  BY IngestAssumption
<1> QED  BY <1>1 DEF IngestInv, JobSound

LEMMA LakeFrame ==
    ASSUME IngestInv, stored' = stored, mark' = mark, passed' = passed, clock' = clock
    PROVE  \A s \in Series : Sound(s)'
BY DEF IngestInv, Sound, Promise

-----------------------------------------------------------------------------
(* Steps that leave the lake alone.                                        *)

LEMMA AskKeeps ==
    ASSUME IngestInv, NEW j \in Jobs, NEW floor \in Nat, NEW until \in Nat,
           NEW series \in Seq(Series), Ask(j, floor, until, series), manual' \in Nat
    PROVE  IngestInv'
<1> USE DEF Ask
<1>1. Typed'  BY DEF IngestInv, Typed, Steps
<1>2. \A s \in Series : Sound(s)'  BY LakeFrame
<1>3. JobSound(j)'
  <2>1. pc[j] \notin Locked /\ pc'[j] \notin Locked /\ pc'[j] \notin Busy
    BY DEF Locked, Busy, IngestInv, Typed
  <2>2. asked'[j].now = clock  BY DEF IngestInv, Typed
  <2>3. left'[j] \subseteq rows'[j] /\ holder' # j  BY <2>1 DEF IngestInv, JobSound
  <2>4. rows'[j] = {}  BY DEF Busy, IngestInv, JobSound
  <2> QED  BY <2>1, <2>2, <2>3, <2>4 DEF JobSound, IngestInv, Typed
<1>4. ASSUME NEW i \in Jobs, i # j PROVE JobSound(i)'
  <2>1. JobSound(i) /\ clock \in Nat /\ asked[i].now \in Nat  BY DEF IngestInv, Typed
  <2> QED  BY <1>4, <2>1, Bystander DEF IngestInv, Typed
<1> QED  BY <1>1, <1>2, <1>3, <1>4 DEF IngestInv

LEMMA RestingJob ==
    ASSUME IngestInv, NEW j \in Jobs, Rest(j), holder' # j, clock' = clock
    PROVE  JobSound(j)'
<1>1. pc'[j] = "idle" /\ rows'[j] = {} /\ left'[j] = {} /\ asked'[j].now = 0
  BY DEF Rest, Forget, NoSpan, IngestInv, Typed
<1>2. pc'[j] \notin Locked /\ pc'[j] \notin Busy  BY <1>1 DEF Locked, Busy
<1> QED  BY <1>1, <1>2 DEF JobSound, IngestInv, Typed

LEMMA RestTyped ==
    ASSUME IngestInv, NEW j \in Jobs, Rest(j), stored' = stored, mark' = mark, passed' = passed,
           clock' = clock, manual' = manual, faults' \in Nat, holder' \in {holder, NoJob}
    PROVE  Typed'
<1>1. <<>> \in Seq(Series) /\ NoSpan \in [floor : Nat, until : Nat, now : Nat]  BY DEF NoSpan
<1> QED  BY <1>1 DEF Rest, Forget, IngestInv, Typed, Steps

LEMMA AcquireKeeps ==
    ASSUME IngestInv, NEW j \in Jobs, Acquire(j)
    PROVE  IngestInv'
<1> USE DEF Acquire
<1>1. Typed'  BY DEF IngestInv, Typed, Steps
<1>2. \A s \in Series : Sound(s)'  BY LakeFrame
<1>3. JobSound(j)'
  <2>1. pc'[j] \in Locked /\ pc'[j] \notin Busy /\ holder' = j  BY DEF Locked, Busy, IngestInv, Typed
  <2>2. rows[j] = {}  BY DEF Busy, IngestInv, JobSound
  <2> QED  BY <2>1, <2>2 DEF JobSound, IngestInv
<1>4. ASSUME NEW i \in Jobs, i # j PROVE JobSound(i)'
  <2>1. pc[i] \notin Locked  BY <1>4, OneWorks
  <2> QED  BY <1>4, <2>1, LockedOut DEF IngestInv, Typed
<1> QED  BY <1>1, <1>2, <1>3, <1>4 DEF IngestInv

LEMMA RefusedKeeps ==
    ASSUME IngestInv, NEW j \in Jobs, Refused(j)
    PROVE  IngestInv'
<1> USE DEF Refused
<1>1. Typed'  BY RestTyped DEF IngestInv, Typed
<1>2. \A s \in Series : Sound(s)'  BY LakeFrame
<1>3. JobSound(j)'
  <2>1. pc[j] \notin Locked  BY DEF Locked
  <2>2. holder' # j  BY <2>1 DEF IngestInv, JobSound
  <2> QED  BY <2>2, RestingJob
<1>4. ASSUME NEW i \in Jobs, i # j PROVE JobSound(i)'
  <2>1. JobSound(i) /\ clock \in Nat /\ asked[i].now \in Nat  BY DEF IngestInv, Typed
  <2> QED  BY <1>4, <2>1, Bystander DEF IngestInv, Typed, Rest, Forget
<1> QED  BY <1>1, <1>2, <1>3, <1>4 DEF IngestInv

\* A run that ends or dies releases the lock and forgets.
LEMMA ReleaseKeeps ==
    ASSUME IngestInv, NEW j \in Jobs, pc[j] \in Locked, Rest(j), holder' = NoJob,
           stored' = stored, mark' = mark, passed' = passed, clock' = clock,
           manual' = manual, faults' \in Nat
    PROVE  IngestInv'
<1>1. Typed'  BY RestTyped
<1>2. \A s \in Series : Sound(s)'  BY LakeFrame
<1>3. JobSound(j)'
  <2>1. holder' # j  BY IngestAssumption
  <2> QED  BY <2>1, RestingJob
<1>4. ASSUME NEW i \in Jobs, i # j PROVE JobSound(i)'
  <2>1. pc[i] \notin Locked  BY <1>4, OneWorks
  <2> QED  BY <1>4, <2>1, LockedOut DEF IngestInv, Typed, Rest, Forget
<1> QED  BY <1>1, <1>2, <1>3, <1>4 DEF IngestInv

\* The series in hand is done with, or abandoned.
LEMMA NextSeriesKeeps ==
    ASSUME IngestInv, NEW j \in Jobs, pc[j] \in Locked, todo[j] # <<>>, NextSeries(j),
           \A s \in Series : Sound(s)', mark' \in [Series -> Int],
           holder' = holder, stored' = stored, passed' = passed, clock' = clock,
           asked' = asked, manual' = manual, faults' \in Nat
    PROVE  IngestInv'
<1>1. Typed'  BY HandType DEF NextSeries, Forget, IngestInv, Typed, Steps
<1>2. JobSound(j)'
  <2>1. pc'[j] = "next" /\ rows'[j] = {} /\ left'[j] = {}  BY DEF NextSeries, Forget, IngestInv, Typed
  <2>2. pc'[j] \in Locked /\ pc'[j] \notin Busy  BY <2>1 DEF Locked, Busy
  <2> QED  BY <2>1, <2>2 DEF JobSound, IngestInv
<1>3. ASSUME NEW i \in Jobs, i # j PROVE JobSound(i)'
  <2>1. pc[i] \notin Locked  BY <1>3, OneWorks
  <2> QED  BY <1>3, <2>1, LockedOut DEF IngestInv, Typed, NextSeries, Forget
<1> QED  BY <1>1, <1>2, <1>3 DEF IngestInv

-----------------------------------------------------------------------------
(* The walk.                                                               *)

\* The others, when the process that holds the lock takes a step of its walk.
LEMMA OthersWait ==
    ASSUME IngestInv, NEW j \in Jobs, pc[j] \in Locked, holder' = holder, clock' = clock,
           asked' = asked,
           \A i \in Jobs \ {j} : pc'[i] = pc[i] /\ rows'[i] = rows[i] /\ left'[i] = left[i]
    PROVE  \A i \in Jobs \ {j} : JobSound(i)'
<1>1. ASSUME NEW i \in Jobs, i # j PROVE JobSound(i)'
  <2>1. pc[i] \notin Locked  BY <1>1, OneWorks
  <2> QED  BY <1>1, <2>1, LockedOut
<1> QED  BY <1>1

\* The lake when a run passes keys over.
LEMMA PassedSound ==
    ASSUME IngestInv, NEW t \in Series, NEW K, K \subseteq Data[t],
           passed' = [passed EXCEPT ![t] = @ \cup K],
           stored' = stored, mark' = mark, clock' = clock
    PROVE  \A s \in Series : Sound(s)' /\ passed[s] \subseteq passed'[s]
<1>1. \A s \in Series : passed[s] \subseteq passed'[s] /\ passed'[s] \subseteq Data[s]
  BY DEF IngestInv, Typed, Sound
<1> QED  BY <1>1 DEF IngestInv, Sound, Promise

LEMMA PassedType ==
    ASSUME IngestInv, NEW t \in Series, NEW K, K \subseteq Data[t],
           passed' = [passed EXCEPT ![t] = @ \cup K]
    PROVE  passed' \in [Series -> SUBSET Nat]
<1>1. Data[t] \subseteq Nat  BY IngestAssumption
<1> QED  BY <1>1 DEF IngestInv, Typed

LEMMA BeginKeeps ==
    ASSUME IngestInv, NEW j \in Jobs, Begin(j)
    PROVE  IngestInv'
<1>0. /\ pc[j] = "next" /\ todo[j] # <<>> /\ pc' = [pc EXCEPT ![j] = "walk"]
      /\ UNCHANGED <<clock, holder, stored, mark, asked, todo, rows, left, image, gaps, manual, faults>>
  BY DEF Begin
<1> DEFINE t == InHand(j)
           start == Start(t, asked[j])
           K == Between(t, mark[t] + 1, start)
<1>1. t \in Series /\ K \subseteq Data[t]  BY <1>0, HandType DEF Between
<1>2. asked[j] \in [floor : Nat, until : Nat, now : Nat]  BY DEF IngestInv, Typed
<1>3. start \in Nat /\ mark[t] \in Int  BY <1>1, <1>2, StartType DEF IngestInv, Typed
<1>4. cursor' = [cursor EXCEPT ![j] = start] /\ passed' = [passed EXCEPT ![t] = @ \cup K]
  BY DEF Begin, InHand
<1> HIDE DEF K, start
<1>5. passed' \in [Series -> SUBSET Nat]  BY <1>1, <1>4, PassedType
<1>6. Typed'  BY <1>0, <1>3, <1>4, <1>5 DEF IngestInv, Typed, Steps
<1>7. \A s \in Series : Sound(s)' /\ passed[s] \subseteq passed'[s]  BY <1>0, <1>1, <1>4, PassedSound
<1>8. pc[j] \in Locked  BY <1>0 DEF Locked
<1>9. JobSound(j)'
  <2>1. pc'[j] = "walk" /\ pc'[j] \in Locked  BY <1>0 DEF Locked, IngestInv, Typed
  <2>2. left[j] = {} /\ rows[j] = {}  BY <1>0 DEF Busy, IngestInv, JobSound
  <2>3. InHand(j)' = t  BY <1>0 DEF InHand
  <2>4. Walked(j)'
    <3> SUFFICES ASSUME NEW k \in Data[t], k < start
                 PROVE  k \in stored[t] \cup passed'[t]
      BY <1>0, <1>1, <1>3, <1>4, <2>3, <2>2 DEF Walked, IngestInv, Typed
    <3>1. k \in Nat  BY <1>1, IngestAssumption
    <3>2. CASE k <= mark[t]
      <4>1. k \in stored[t] \cup passed[t]  BY <1>1, <3>2 DEF IngestInv, Sound, Promise
      <4> QED  BY <1>1, <1>7, <4>1
    <3>3. CASE mark[t] + 1 <= k
      <4>1. k \in K  BY <3>3 DEF K, Between
      <4> QED  BY <1>1, <1>4, <4>1 DEF IngestInv, Typed
    <3> QED  BY <1>3, <3>1, <3>2, <3>3
  <2>5. Pending(j)'  BY <2>1 DEF Pending
  <2>6. Written(j)'  BY <1>0, <2>1, <2>2 DEF Written
  <2>7. Working(j)'  BY <1>0, <2>4, <2>5, <2>6 DEF Working
  <2> QED  BY <1>0, <2>1, <2>2, <2>7 DEF JobSound, IngestInv, Locked, Busy
<1> QED  BY <1>0, <1>6, <1>7, <1>8, <1>9, OthersWait DEF IngestInv, Typed

LEMMA BusyFacts ==
    ASSUME IngestInv, NEW j \in Jobs, pc[j] \in Busy
    PROVE  /\ pc[j] \in Locked
           /\ Working(j) /\ todo[j] # <<>>
           /\ InHand(j) \in Series
           /\ asked[j] \in [floor : Nat, until : Nat, now : Nat]
           /\ asked[j].now <= clock
           /\ cursor[j] \in Nat
           /\ left[j] \subseteq rows[j]
<1>1. JobSound(j)  BY DEF IngestInv
<1>2. Working(j) /\ todo[j] # <<>>  BY <1>1 DEF JobSound, Working
<1> QED  BY <1>1, <1>2, HandType DEF JobSound, Busy, Locked, IngestInv, Typed

LEMMA StillWorking ==
    ASSUME IngestInv, NEW j \in Jobs, pc[j] \in Locked, pc'[j] \in Busy,
           holder' = holder, asked' = asked, clock' = clock,
           left'[j] \subseteq rows'[j], Working(j)'
    PROVE  JobSound(j)'
BY DEF JobSound, IngestInv, Locked, Busy

LEMMA FetchKeeps ==
    ASSUME IngestInv, NEW j \in Jobs, Fetch(j)
    PROVE  IngestInv'
<1> DEFINE t == InHand(j)
           until == Until(t, asked[j])
           to == BatchEnd(t, cursor[j], until)
           got == Final(t, Between(t, cursor[j], to), asked[j].now)
<1>1. /\ pc[j] = "walk" /\ cursor' = [cursor EXCEPT ![j] = to]
      /\ UNCHANGED <<clock, holder, stored, mark, asked, todo, image, gaps, passed, manual, faults>>
      /\ IF got = {} THEN pc' = pc /\ rows' = rows /\ left' = left
         ELSE /\ rows' = [rows EXCEPT ![j] = got] /\ left' = [left EXCEPT ![j] = got]
              /\ pc' = [pc EXCEPT ![j] = "write"]
  BY DEF Fetch, InHand
<1>2. /\ pc[j] \in Locked /\ pc[j] \in Busy /\ Working(j) /\ t \in Series /\ cursor[j] \in Nat
      /\ asked[j] \in [floor : Nat, until : Nat, now : Nat]
      /\ left[j] \subseteq rows[j]
  BY <1>1, BusyFacts DEF Busy
<1>3. to \in Nat /\ (t \in Feeds => to <= cursor[j] + 1)  BY <1>2, UntilType, BatchEndType
<1>4. Data[t] \subseteq Nat  BY <1>2, IngestAssumption
<1>5. \A k : k \in got <=> k \in Data[t] /\ cursor[j] <= k /\ k < to /\ k + Width[t] <= asked[j].now
  BY DEF Final, Between
<1>6. left[j] = {}  BY <1>1, <1>2 DEF Working, Written
<1>7. InHand(j)' = t  BY <1>1 DEF InHand
<1> HIDE DEF t, until, to, got
<1>8. Typed'
  <2>1. got \in SUBSET Nat  BY <1>4, <1>5
  <2>2. pc' \in [Jobs -> Steps] /\ rows' \in [Jobs -> SUBSET Nat] /\ left' \in [Jobs -> SUBSET Nat]
    BY <1>1, <2>1 DEF IngestInv, Typed, Steps
  <2>3. cursor' \in [Jobs -> Nat]  BY <1>1, <1>3 DEF IngestInv, Typed
  <2> QED  BY <1>1, <2>2, <2>3 DEF IngestInv, Typed
<1>9. \A s \in Series : Sound(s)'  BY <1>1, LakeFrame
<1>10. Walked(j)'
  <2> SUFFICES ASSUME NEW k \in Data[t], k < to, k + Width[t] <= asked[j].now
               PROVE  k \in stored[t] \cup passed[t] \cup left'[j]
    BY <1>1, <1>2, <1>3, <1>7 DEF Walked, IsFinal, IngestInv, Typed
  <2>1. k \in Nat  BY <1>4
  <2>2. CASE k < cursor[j]
    BY <1>2, <1>6, <2>2 DEF Working, Walked, IsFinal, t
  <2>3. CASE cursor[j] <= k
    <3>1. k \in got  BY <1>5, <2>3
    <3> QED  BY <1>1, <3>1 DEF IngestInv, Typed
  <2> QED  BY <1>2, <2>1, <2>2, <2>3
<1>11. CASE got = {}
  <2>2. Pending(j)'  BY <1>1, <1>11 DEF Pending
  <2>3. Written(j)'  BY <1>1, <1>6, <1>11 DEF Written
  <2>4. Working(j)'  BY <1>1, <1>2, <1>10, <2>2, <2>3 DEF Working
  <2>5. JobSound(j)'  BY <1>1, <1>2, <1>11, <2>4, StillWorking
  <2> QED  BY <1>1, <1>2, <1>8, <1>9, <1>11, <2>5, OthersWait DEF IngestInv
<1>12. CASE got # {}
  <2>1. rows'[j] = got /\ left'[j] = got /\ pc'[j] = "write" /\ cursor'[j] = to
    BY <1>1, <1>12 DEF IngestInv, Typed
  <2>2. Pending(j)'  BY <1>1, <1>5, <1>7, <2>1 DEF Pending, IsFinal
  <2>3. Written(j)'
    <3>1. \A k \in got : t \in Feeds => to - 1 <= k  BY <1>2, <1>3, <1>4, <1>5
    <3> QED  BY <1>7, <1>12, <2>1, <3>1 DEF Written
  <2>4. Working(j)'  BY <1>1, <1>2, <1>10, <2>2, <2>3 DEF Working
  <2>5. JobSound(j)'  BY <1>1, <1>2, <2>1, <2>4, StillWorking DEF Busy
  <2>6. \A i \in Jobs \ {j} : pc'[i] = pc[i] /\ rows'[i] = rows[i] /\ left'[i] = left[i]
    BY <1>1, <1>12 DEF IngestInv, Typed
  <2> QED  BY <1>1, <1>2, <1>8, <1>9, <2>5, <2>6, OthersWait DEF IngestInv
<1> QED  BY <1>11, <1>12

\* A stretch of the walk is passed over: a missing month, a failed session.
LEMMA PassingKeeps ==
    ASSUME IngestInv, NEW j \in Jobs, pc[j] \in Busy, NEW to \in Nat,
           NEW K, K \subseteq Data[InHand(j)],
           \A k \in Data[InHand(j)] : k < to => k < cursor[j] \/ k \in K,
           left[j] \subseteq K,
           passed' = [passed EXCEPT ![InHand(j)] = @ \cup K],
           cursor' = [cursor EXCEPT ![j] = to],
           pc' = [pc EXCEPT ![j] = "walk"],
           left' = [left EXCEPT ![j] = {}],
           image' \in [Jobs -> SUBSET Nat], gaps' \in [Jobs -> BOOLEAN], faults' \in Nat,
           UNCHANGED <<clock, holder, stored, mark, asked, todo, rows, manual>>
    PROVE  IngestInv'
<1> DEFINE t == InHand(j)
<1>1. /\ pc[j] \in Locked /\ Working(j) /\ t \in Series /\ cursor[j] \in Nat
      /\ left[j] \subseteq rows[j]
  BY BusyFacts
<1>2. passed' \in [Series -> SUBSET Nat]  BY <1>1, PassedType
<1>3. Typed'  BY <1>2 DEF IngestInv, Typed, Steps
<1>4. \A s \in Series : Sound(s)' /\ passed[s] \subseteq passed'[s]  BY <1>1, PassedSound
<1>5. InHand(j)' = t  BY DEF InHand
<1>6. pc'[j] = "walk" /\ left'[j] = {} /\ cursor'[j] = to  BY DEF IngestInv, Typed
<1>7. K \subseteq passed'[t]  BY <1>1 DEF IngestInv, Typed
<1>8. Walked(j)'
  <2> SUFFICES ASSUME NEW k \in Data[t], k < to, k + Width[t] <= asked[j].now
               PROVE  k \in stored[t] \cup passed'[t]
    BY <1>5, <1>6 DEF Walked, IsFinal
  <2>1. CASE k \in K  BY <1>7, <2>1
  <2>2. CASE k < cursor[j]
    <3>1. k \in stored[t] \cup passed[t] \cup left[j]  BY <1>1, <2>2 DEF Working, Walked, IsFinal
    <3> QED  BY <1>1, <1>4, <1>7, <3>1
  <2> QED  BY <2>1, <2>2
<1>9. Pending(j)' /\ Written(j)'  BY <1>6 DEF Pending, Written
<1>10. Working(j)'  BY <1>1, <1>8, <1>9 DEF Working
<1>11. JobSound(j)'  BY <1>1, <1>6, <1>10, StillWorking DEF Busy
<1>12. \A i \in Jobs \ {j} : pc'[i] = pc[i] /\ rows'[i] = rows[i] /\ left'[i] = left[i]
  BY DEF IngestInv, Typed
<1> QED  BY <1>1, <1>3, <1>4, <1>11, <1>12, OthersWait DEF IngestInv

LEMMA MissingMonthKeeps ==
    ASSUME IngestInv, NEW j \in Jobs, MissingMonth(j)
    PROVE  IngestInv'
<1> DEFINE t == InHand(j)
           to == BatchEnd(t, cursor[j], Until(t, asked[j]))
           K == Between(t, cursor[j], to)
<1>1. /\ pc[j] = "walk" /\ cursor' = [cursor EXCEPT ![j] = to]
      /\ passed' = [passed EXCEPT ![t] = @ \cup K]
      /\ gaps' = [gaps EXCEPT ![j] = TRUE] /\ faults' = faults + 1
      /\ UNCHANGED <<clock, holder, stored, mark, pc, asked, todo, rows, left, image, manual>>
  BY DEF MissingMonth, InHand
<1>2. pc[j] \in Busy /\ t \in Series /\ cursor[j] \in Nat /\ Working(j)
      /\ asked[j] \in [floor : Nat, until : Nat, now : Nat]
  BY <1>1, BusyFacts DEF Busy
<1>3. to \in Nat  BY <1>2, UntilType, BatchEndType
<1>4. left[j] = {}  BY <1>1, <1>2 DEF Working, Written
<1>5. K \subseteq Data[t] /\ Data[t] \subseteq Nat  BY <1>2, IngestAssumption DEF Between
<1>6. \A k \in Data[t] : k < to => k < cursor[j] \/ k \in K  BY <1>2, <1>3, <1>5 DEF Between
<1>7. pc' = [pc EXCEPT ![j] = "walk"] /\ left' = [left EXCEPT ![j] = {}]
  BY <1>1, <1>4 DEF IngestInv, Typed
<1>8. image' \in [Jobs -> SUBSET Nat] /\ gaps' \in [Jobs -> BOOLEAN] /\ faults' \in Nat
  BY <1>1 DEF IngestInv, Typed
<1> HIDE DEF t, to, K
<1> QED  BY <1>1, <1>2, <1>3, <1>4, <1>5, <1>6, <1>7, <1>8, PassingKeeps DEF t

LEMMA FailSessionKeeps ==
    ASSUME IngestInv, NEW j \in Jobs, FailSession(j)
    PROVE  IngestInv'
<1> DEFINE t == InHand(j)
           next == BatchEnd(t, cursor[j], Until(t, asked[j]))
           to == IF pc[j] = "walk" THEN next ELSE cursor[j]
           from == IF pc[j] = "walk" THEN cursor[j] ELSE cursor[j] - 1
           K == Between(t, from, to)
<1>1. /\ pc[j] \in Busy /\ t \in Feeds /\ cursor' = [cursor EXCEPT ![j] = to]
      /\ passed' = [passed EXCEPT ![t] = @ \cup K]
      /\ left' = [left EXCEPT ![j] = {}] /\ image' = [image EXCEPT ![j] = {}]
      /\ pc' = [pc EXCEPT ![j] = "walk"] /\ faults' = faults + 1
      /\ UNCHANGED <<clock, holder, stored, mark, asked, todo, rows, gaps, manual>>
  BY DEF FailSession, InHand
<1>2. /\ t \in Series /\ cursor[j] \in Nat /\ Working(j) /\ left[j] \subseteq rows[j]
      /\ asked[j] \in [floor : Nat, until : Nat, now : Nat]
  BY <1>1, BusyFacts
<1>3. next \in Nat  BY <1>2, UntilType, BatchEndType
<1>4. to \in Nat  BY <1>2, <1>3
<1>5. K \subseteq Data[t] /\ Data[t] \subseteq Nat  BY <1>2, IngestAssumption DEF Between
<1> HIDE DEF t, next
<1>6. \A k \in Data[t] : k < to => k < cursor[j] \/ k \in K  BY <1>2, <1>3, <1>5 DEF Between
<1>7. left[j] \subseteq K
  <2>1. CASE pc[j] = "walk"  BY <1>2, <2>1 DEF Working, Written
  <2>2. CASE pc[j] # "walk"
    <3>1. pc[j] \in {"write", "replace"}  BY <1>1, <2>2 DEF Busy
    <3>2. \A k \in rows[j] : k \in Data[t] /\ k < cursor[j] /\ cursor[j] - 1 <= k
      BY <1>1, <1>2, <3>1 DEF Working, Pending, Written, t
    <3> QED  BY <1>2, <2>2, <3>2 DEF Between
  <2> QED  BY <2>1, <2>2
<1>8. image' \in [Jobs -> SUBSET Nat] /\ gaps' \in [Jobs -> BOOLEAN] /\ faults' \in Nat
  BY <1>1 DEF IngestInv, Typed
<1> HIDE DEF to, from, K
<1> QED  BY <1>1, <1>2, <1>4, <1>5, <1>6, <1>7, <1>8, PassingKeeps DEF t

LEMMA FailSeriesKeeps ==
    ASSUME IngestInv, NEW j \in Jobs, FailSeries(j)
    PROVE  IngestInv'
<1>1. pc[j] \in Busy  BY DEF FailSeries
<1>2. pc[j] \in Locked /\ todo[j] # <<>>  BY <1>1, BusyFacts
<1>3. \A s \in Series : Sound(s)'  BY LakeFrame DEF FailSeries
<1>4. /\ NextSeries(j) /\ mark' \in [Series -> Int] /\ faults' \in Nat
      /\ holder' = holder /\ stored' = stored /\ passed' = passed /\ clock' = clock
      /\ asked' = asked /\ manual' = manual
  BY DEF FailSeries, IngestInv, Typed
<1> QED  BY <1>2, <1>3, <1>4, NextSeriesKeeps

LEMMA SkipKeeps ==
    ASSUME IngestInv, NEW j \in Jobs, Skip(j)
    PROVE  IngestInv'
<1>1. pc[j] \in Locked /\ todo[j] # <<>>  BY DEF Skip, Locked
<1>2. \A s \in Series : Sound(s)'  BY LakeFrame DEF Skip
<1> QED  BY <1>1, <1>2, NextSeriesKeeps DEF Skip, IngestInv, Typed

-----------------------------------------------------------------------------
(* The writes and the watermark.                                           *)

\* A watermark rises over rows that are stored or passed over.
LEMMA MarkedSound ==
    ASSUME IngestInv, NEW t \in Series, NEW w \in Nat,
           \A k \in Data[t] : k <= w => k \in stored[t] \cup passed[t],
           mark' = [mark EXCEPT ![t] = w],
           stored' = stored, passed' = passed, clock' = clock
    PROVE  (\A s \in Series : Sound(s)') /\ mark' \in [Series -> Int]
BY DEF IngestInv, Typed, Sound, Promise

LEMMA ConvergedIsCovered ==
    ASSUME IngestInv, NEW j \in Jobs, pc[j] = "walk", InHand(j) \in Archived,
           Until(InHand(j), asked[j]) <= cursor[j],
           Until(InHand(j), asked[j]) = Delisted[InHand(j)]
    PROVE  \A k \in Data[InHand(j)] : k \in stored[InHand(j)] \cup passed[InHand(j)]
<1> DEFINE t == InHand(j)
<1>1. /\ t \in Series /\ Working(j) /\ cursor[j] \in Nat
      /\ asked[j] \in [floor : Nat, until : Nat, now : Nat]
  BY BusyFacts DEF Busy
<1>2. Delisted[t] \in Nat /\ Delisted[t] <= asked[j].now  BY <1>1, UntilType
<1>3. TAKE k \in Data[t]
<1>4. k \in Nat /\ Width[t] \in Nat /\ k < Delisted[t] /\ k + Width[t] <= Delisted[t]
  BY <1>1, IngestAssumption, LifeAssumption
<1>5. k < cursor[j] /\ k + Width[t] <= asked[j].now  BY <1>1, <1>2, <1>4
<1> QED  BY <1>1, <1>5 DEF Working, Walked, Written, IsFinal

LEMMA EndWalkKeeps ==
    ASSUME IngestInv, NEW j \in Jobs, EndWalk(j)
    PROVE  IngestInv'
<1> DEFINE t == InHand(j)
<1>1. /\ pc[j] = "walk" /\ Until(t, asked[j]) <= cursor[j] /\ NextSeries(j)
      /\ holder' = holder /\ stored' = stored /\ passed' = passed /\ clock' = clock
      /\ asked' = asked /\ manual' = manual /\ faults' = faults
      /\ IF Converges(j, t) THEN mark[t] <= Delisted[t] - 1 /\ mark' = [mark EXCEPT ![t] = Delisted[t] - 1]
         ELSE mark' = mark
  BY DEF EndWalk, InHand
<1>2. pc[j] \in Locked /\ todo[j] # <<>> /\ t \in Series  BY <1>1, BusyFacts DEF Busy
<1> HIDE DEF t
<1>3. (\A s \in Series : Sound(s)') /\ mark' \in [Series -> Int]
  <2>1. CASE ~Converges(j, t)  BY <1>1, <2>1, LakeFrame DEF IngestInv, Typed
  <2>2. CASE Converges(j, t)
    <3>1. t \in Archived /\ Until(t, asked[j]) = Delisted[t]  BY <2>2 DEF Converges
    <3>2. \A k \in Data[t] : k \in stored[t] \cup passed[t]  BY <1>1, <3>1, ConvergedIsCovered DEF t
    <3>3. Delisted[t] \in Nat /\ mark[t] \in Int /\ mark[t] >= -1
      BY <1>2, IngestAssumption DEF IngestInv, Typed, Sound
    <3>4. CASE Delisted[t] = 0
      <4>1. mark' = mark  BY <1>1, <2>2, <3>3, <3>4 DEF IngestInv, Typed
      <4> QED  BY <1>1, <4>1, LakeFrame DEF IngestInv, Typed
    <3>5. CASE Delisted[t] # 0
      <4>1. Delisted[t] - 1 \in Nat  BY <3>3, <3>5
      <4> QED  BY <1>1, <1>2, <2>2, <3>2, <4>1, MarkedSound
    <3> QED  BY <3>4, <3>5
  <2> QED  BY <2>1, <2>2
<1>4. faults' \in Nat  BY <1>1 DEF IngestInv, Typed
<1> QED  BY <1>1, <1>2, <1>3, <1>4, NextSeriesKeeps

LEMMA SetMarkFacts ==
    ASSUME IngestInv, NEW j \in Jobs, pc[j] = "write", left[j] = {}
    PROVE  /\ Top(rows[j]) \in Nat
           /\ \A k \in Data[InHand(j)] :
                k <= Top(rows[j]) => k \in stored[InHand(j)] \cup passed[InHand(j)]
<1> DEFINE t == InHand(j)
<1>1. /\ t \in Series /\ Working(j) /\ cursor[j] \in Nat
      /\ asked[j] \in [floor : Nat, until : Nat, now : Nat]
  BY BusyFacts DEF Busy
<1>2. /\ rows[j] # {} /\ rows[j] \in SUBSET Nat
      /\ \A k \in rows[j] : k < cursor[j] /\ k + Width[t] <= asked[j].now
  BY <1>1 DEF Working, Pending, Written, IsFinal, IngestInv, Typed
<1>3. Top(rows[j]) \in rows[j]  BY <1>1, <1>2, TopExists
<1>4. Top(rows[j]) \in Nat /\ Top(rows[j]) < cursor[j] /\ Top(rows[j]) + Width[t] <= asked[j].now
  BY <1>2, <1>3
<1>5. ASSUME NEW k \in Data[t], k <= Top(rows[j]) PROVE k \in stored[t] \cup passed[t]
  <2>1. k \in Nat /\ Width[t] \in Nat /\ asked[j].now \in Nat  BY <1>1, IngestAssumption
  <2>2. k < cursor[j] /\ k + Width[t] <= asked[j].now  BY <1>1, <1>4, <1>5, <2>1
  <2> QED  BY <1>1, <2>2 DEF Working, Walked, IsFinal
<1> QED  BY <1>4, <1>5

LEMMA SetMarkKeeps ==
    ASSUME IngestInv, NEW j \in Jobs, SetMark(j)
    PROVE  IngestInv'
<1> DEFINE t == InHand(j)
           w == Top(rows[j])
<1>1. /\ pc[j] = "write" /\ left[j] = {} /\ mark' = [mark EXCEPT ![t] = w]
      /\ pc' = [pc EXCEPT ![j] = "walk"]
      /\ UNCHANGED <<clock, holder, stored, asked, todo, cursor, rows, left, image, gaps, passed, manual, faults>>
  BY DEF SetMark, InHand
<1>2. pc[j] \in Locked /\ t \in Series /\ Working(j) /\ left[j] \subseteq rows[j]
  BY <1>1, BusyFacts DEF Busy
<1>3. w \in Nat /\ \A k \in Data[t] : k <= w => k \in stored[t] \cup passed[t]
  BY <1>1, SetMarkFacts
<1> HIDE DEF w
<1>4. (\A s \in Series : Sound(s)') /\ mark' \in [Series -> Int]  BY <1>1, <1>2, <1>3, MarkedSound
<1>5. Typed'  BY <1>1, <1>4 DEF IngestInv, Typed, Steps
<1>6. pc'[j] = "walk"  BY <1>1 DEF IngestInv, Typed
<1>7. Walked(j)' /\ Pending(j)' /\ Written(j)'
  BY <1>1, <1>2, <1>6 DEF Working, Walked, Pending, Written, InHand, IsFinal
<1>8. Working(j)'  BY <1>1, <1>2, <1>7 DEF Working
<1>9. JobSound(j)'  BY <1>1, <1>2, <1>6, <1>8, StillWorking DEF Busy
<1>10. \A i \in Jobs \ {j} : pc'[i] = pc[i]  BY <1>1 DEF IngestInv, Typed
<1> QED  BY <1>1, <1>2, <1>4, <1>5, <1>9, <1>10, OthersWait DEF IngestInv

LEMMA MergeKeeps ==
    ASSUME IngestInv, NEW j \in Jobs, Merge(j)
    PROVE  IngestInv'
<1> DEFINE t == InHand(j)
           merged == OfLeaf(stored[t], Current(j)) \cup OfLeaf(left[j], Current(j))
<1>1. /\ pc[j] = "write" /\ image' = [image EXCEPT ![j] = merged]
      /\ pc' = [pc EXCEPT ![j] = "replace"]
      /\ UNCHANGED <<clock, holder, stored, mark, asked, todo, cursor, rows, left, gaps, passed, manual, faults>>
  BY DEF Merge, InHand
<1>2. pc[j] \in Locked /\ t \in Series /\ Working(j) /\ left[j] \subseteq rows[j]
  BY <1>1, BusyFacts DEF Busy
<1>3. merged \in SUBSET Nat  BY <1>2 DEF IngestInv, Typed, OfLeaf
<1>4. Current(j)' = Current(j) /\ InHand(j)' = t  BY <1>1 DEF Current, InHand
<1>5. \A s \in Series : Sound(s)'  BY <1>1, LakeFrame
<1>6. pc'[j] = "replace" /\ image'[j] = OfLeaf(stored[t], Current(j)) \cup OfLeaf(left[j], Current(j))
  BY <1>1 DEF IngestInv, Typed
<1> HIDE DEF merged, t
<1>7. Typed'  BY <1>1, <1>3 DEF IngestInv, Typed, Steps
<1>8. Walked(j)' /\ Pending(j)'
  BY <1>1, <1>2, <1>6 DEF Working, Walked, Pending, InHand, IsFinal
<1>9. Written(j)'  BY <1>1, <1>2, <1>4, <1>6 DEF Working, Written, t
<1>10. Working(j)'  BY <1>1, <1>2, <1>8, <1>9 DEF Working
<1>11. JobSound(j)'  BY <1>1, <1>2, <1>6, <1>10, StillWorking DEF Busy
<1>12. \A i \in Jobs \ {j} : pc'[i] = pc[i]  BY <1>1 DEF IngestInv, Typed
<1> QED  BY <1>1, <1>2, <1>5, <1>7, <1>11, <1>12, OthersWait DEF IngestInv

\* The rewrite of a file adds to the lake rows of the batch, and loses none.
LEMMA ReplaceAdds ==
    ASSUME IngestInv, NEW j \in Jobs, Replace(j)
    PROVE  /\ stored' = [stored EXCEPT ![InHand(j)] = @ \cup OfLeaf(left[j], Current(j))]
           /\ \A k \in left[j] : k \in Data[InHand(j)] /\ k + Width[InHand(j)] <= clock
           /\ InHand(j) \in Series
<1> DEFINE t == InHand(j)
           l == Current(j)
<1>1. /\ pc[j] = "replace"
      /\ stored' = [stored EXCEPT ![t] = (@ \ OfLeaf(@, l)) \cup image[j]]
  BY DEF Replace, InHand
<1>2. /\ t \in Series /\ Working(j) /\ left[j] \subseteq rows[j] /\ asked[j].now <= clock
      /\ asked[j] \in [floor : Nat, until : Nat, now : Nat]
  BY <1>1, BusyFacts DEF Busy
<1>3. image[j] = OfLeaf(stored[t], l) \cup OfLeaf(left[j], l)  BY <1>1, <1>2 DEF Working, Written
<1> HIDE DEF l, t
<1>4. (stored[t] \ OfLeaf(stored[t], l)) \cup image[j] = stored[t] \cup OfLeaf(left[j], l)
  BY <1>3 DEF OfLeaf
<1>5. stored' = [stored EXCEPT ![t] = @ \cup OfLeaf(left[j], l)]
  BY <1>1, <1>2, <1>4 DEF IngestInv, Typed
<1>6. ASSUME NEW k \in left[j] PROVE k \in Data[t] /\ k + Width[t] <= clock
  <2>1. k \in Data[t] /\ k + Width[t] <= asked[j].now  BY <1>1, <1>2 DEF Working, Pending, IsFinal, t
  <2>2. k \in Nat /\ Width[t] \in Nat /\ clock \in Nat /\ asked[j].now \in Nat
    BY <1>2, <2>1, IngestAssumption DEF IngestInv, Typed
  <2> QED  BY <1>2, <2>1, <2>2
<1> QED  BY <1>2, <1>5, <1>6 DEF t, l

LEMMA ReplaceKeeps ==
    ASSUME IngestInv, NEW j \in Jobs, Replace(j)
    PROVE  IngestInv'
<1> DEFINE t == InHand(j)
           N == OfLeaf(left[j], Current(j))
<1>1. /\ pc[j] = "replace" /\ left' = [left EXCEPT ![j] = @ \ N]
      /\ image' = [image EXCEPT ![j] = {}]
      /\ pc' = [pc EXCEPT ![j] = "write"]
      /\ UNCHANGED <<clock, holder, mark, asked, todo, cursor, rows, gaps, passed, manual, faults>>
  BY DEF Replace
<1>2. pc[j] \in Locked /\ t \in Series /\ Working(j) /\ left[j] \subseteq rows[j]
  BY <1>1, BusyFacts DEF Busy
<1>3. /\ stored' = [stored EXCEPT ![t] = @ \cup N] /\ N \subseteq left[j]
      /\ \A k \in N : k \in Data[t] /\ k + Width[t] <= clock
  BY ReplaceAdds DEF OfLeaf
<1>4. Data[t] \subseteq Nat /\ InHand(j)' = t  BY <1>1, <1>2, IngestAssumption DEF InHand
<1> HIDE DEF N, t
<1>5. stored' \in [Series -> SUBSET Nat]  BY <1>2, <1>3, <1>4 DEF IngestInv, Typed
<1>6. Typed'  BY <1>1, <1>5 DEF IngestInv, Typed, Steps
<1>7. \A s \in Series : Sound(s)'
  <2> TAKE s \in Series
  <2>1. Sound(s) /\ stored[s] \subseteq stored'[s]  BY <1>2, <1>3 DEF IngestInv, Typed
  <2>2. \A k \in stored'[s] : k \in Data[s] /\ k + Width[s] <= clock
    BY <1>2, <1>3, <2>1 DEF Sound, IngestInv, Typed
  <2> QED  BY <1>1, <2>1, <2>2 DEF Sound, Promise
<1>8. /\ pc'[j] = "write" /\ left'[j] = left[j] \ N /\ rows'[j] = rows[j]
      /\ stored'[t] = stored[t] \cup N
  BY <1>1, <1>2, <1>3 DEF IngestInv, Typed
<1>9. Walked(j)'
  <2>1. Walked(j)  BY <1>2 DEF Working
  <2> QED  BY <1>1, <1>4, <1>8, <2>1 DEF Walked, IsFinal, t
<1>10. Pending(j)' /\ Written(j)'
  BY <1>1, <1>2, <1>4, <1>8 DEF Working, Pending, Written, IsFinal, t
<1>11. Working(j)'  BY <1>1, <1>2, <1>9, <1>10 DEF Working
<1>12. JobSound(j)'  BY <1>1, <1>2, <1>8, <1>11, StillWorking DEF Busy
<1>13. \A i \in Jobs \ {j} : pc'[i] = pc[i] /\ left'[i] = left[i]  BY <1>1 DEF IngestInv, Typed
<1> QED  BY <1>1, <1>2, <1>6, <1>7, <1>12, <1>13, OthersWait DEF IngestInv

-----------------------------------------------------------------------------
(* The operator and the clock.                                             *)

LEMMA ResetKeeps ==
    ASSUME IngestInv, NEW s \in Series, Reset(s)
    PROVE  IngestInv'
<1> USE DEF Reset, procVars
<1>1. Typed'  BY DEF IngestInv, Typed
<1>2. \A t \in Series : Sound(t)'
  <2> TAKE t \in Series
  <2>1. CASE t = s
    <3>1. mark'[t] = -1 /\ Sound(t)  BY <2>1 DEF IngestInv, Typed
    <3>2. Data[t] \subseteq Nat  BY IngestAssumption
    <3>3. Promise(t)'  BY <3>1, <3>2 DEF Promise
    <3> QED  BY <3>1, <3>3 DEF Sound
  <2>2. CASE t # s  BY <2>2 DEF IngestInv, Typed, Sound, Promise
  <2> QED  BY <2>1, <2>2
<1>3. \A i \in Jobs : JobSound(i)'
  <2> TAKE i \in Jobs
  <2>1. JobSound(i) /\ clock \in Nat /\ asked[i].now \in Nat  BY DEF IngestInv, Typed
  <2> QED  BY <2>1, Bystander DEF IngestInv, Typed
<1> QED  BY <1>1, <1>2, <1>3 DEF IngestInv

LEMMA TickKeeps ==
    ASSUME IngestInv, Tick
    PROVE  IngestInv'
<1> USE DEF Tick, procVars
<1>1. Typed'  BY DEF IngestInv, Typed
<1>2. \A t \in Series : Sound(t)'
  <2> TAKE t \in Series
  <2>1. \A k \in stored[t] : k \in Nat /\ Width[t] \in Nat  BY IngestAssumption DEF IngestInv, Typed
  <2> QED  BY <2>1 DEF IngestInv, Typed, Sound, Promise
<1>3. \A i \in Jobs : JobSound(i)'
  <2> TAKE i \in Jobs
  <2>1. JobSound(i) /\ clock \in Nat /\ asked[i].now \in Nat  BY DEF IngestInv, Typed
  <2> QED  BY <2>1, Bystander DEF IngestInv, Typed
<1> QED  BY <1>1, <1>2, <1>3 DEF IngestInv

-----------------------------------------------------------------------------
(* The invariant.                                                          *)

LEMMA IngestStarts ==
    ASSUME IngestInit PROVE IngestInv
<1> USE DEF IngestInit
<1>1. Typed  BY DEF Typed, Steps, NoSpan
<1>2. ASSUME NEW s \in Series PROVE Sound(s)
  <2>1. Data[s] \subseteq Nat  BY IngestAssumption
  <2> QED  BY <2>1 DEF Sound, Promise
<1>3. ASSUME NEW j \in Jobs PROVE JobSound(j)
  BY IngestAssumption DEF JobSound, Locked, Busy, NoSpan
<1> QED  BY <1>1, <1>2, <1>3 DEF IngestInv

LEMMA AsksKeep ==
    ASSUME IngestInv, NEW j \in Jobs, AskBackfill(j) \/ AskEquities(j) \/ AskUpdate(j)
    PROVE  IngestInv'
<1>1. CryptoRun \in Seq(Series) /\ EquityRun \in Seq(Series) /\ Floors \subseteq Nat /\ Ceilings \subseteq Nat
  BY IngestAssumption
<1>2. clock \in Nat /\ manual \in Nat  BY DEF IngestInv, Typed
<1>3. CASE AskBackfill(j)
  <2>1. PICK floor \in Floors, until \in Ceilings \cup {clock} : Ask(j, floor, until, CryptoRun)
    BY <1>3 DEF AskBackfill
  <2>2. manual' \in Nat  BY <1>2, <1>3 DEF AskBackfill
  <2> QED  BY <1>1, <1>2, <2>1, <2>2, AskKeeps
<1>4. CASE AskEquities(j)
  <2>1. PICK floor \in Floors, until \in Ceilings \cup {clock} : Ask(j, floor, until, EquityRun)
    BY <1>4 DEF AskEquities
  <2>2. manual' \in Nat  BY <1>2, <1>4 DEF AskEquities
  <2> QED  BY <1>1, <1>2, <2>1, <2>2, AskKeeps
<1>5. CASE AskUpdate(j)
  <2>1. manual' \in Nat /\ Ask(j, UpdateFloor, clock, CryptoRun)  BY <1>2, <1>5 DEF AskUpdate
  <2> QED  BY <1>1, <1>2, <2>1, UpdateFloorType, AskKeeps
<1> QED  BY <1>3, <1>4, <1>5

LEMMA EndsKeep ==
    ASSUME IngestInv, NEW j \in Jobs, Finish(j) \/ Crash(j)
    PROVE  IngestInv'
<1>1. faults' \in Nat  BY DEF Finish, Crash, IngestInv, Typed
<1>2. pc[j] \in Locked  BY DEF Finish, Crash, Locked
<1> QED  BY <1>1, <1>2, ReleaseKeeps DEF Finish, Crash

LEMMA StepKeeps ==
    ASSUME IngestInv, [IngestNext]_ingestVars
    PROVE  IngestInv'
<1>1. ASSUME NEW j \in Jobs, Work(j) PROVE IngestInv'
  BY <1>1, AcquireKeeps, RefusedKeeps, EndsKeep, SkipKeeps, BeginKeeps, FetchKeeps, EndWalkKeeps,
     MergeKeeps, ReplaceKeeps, SetMarkKeeps DEF Work
<1>2. CASE UNCHANGED ingestVars
  BY <1>2 DEF ingestVars, procVars, IngestInv, Typed, Sound, Promise, JobSound, Working, Walked,
     Pending, Written, IsFinal, InHand, Current
<1> QED
  BY <1>1, <1>2, AsksKeep, MissingMonthKeeps, FailSeriesKeeps, FailSessionKeeps, EndsKeep,
     ResetKeeps, TickKeeps DEF IngestNext

LEMMA Invariance == IngestSpec => []IngestInv
<1>1. IngestInit => IngestInv  BY IngestStarts
<1>2. IngestInv /\ [IngestNext]_ingestVars => IngestInv'  BY StepKeeps
<1> QED  BY <1>1, <1>2, PTL DEF IngestSpec

-----------------------------------------------------------------------------
(* Every step of ingestion is a step of the lake's contract, or none.      *)

LEMMA Passes ==
    ASSUME IngestInv, NEW t \in Series, NEW K, K \subseteq Data[t],
           passed' = [passed EXCEPT ![t] = @ \cup K], stored' = stored, mark' = mark
    PROVE  Contract!PassOver(t)
BY DEF IngestInv, Typed, Sound, Contract!PassOver

LEMMA MarkAdvances ==
    ASSUME IngestInv, NEW t \in Series, NEW w \in Int, mark[t] <= w,
           \A k \in Data[t] : k <= w => k \in stored[t] \cup passed[t],
           mark' = [mark EXCEPT ![t] = w], stored' = stored, passed' = passed
    PROVE  Contract!Advance(t)
BY DEF IngestInv, Typed, Contract!Advance

LEMMA WorkIsContracted ==
    ASSUME IngestInv, NEW j \in Jobs, Work(j)
    PROVE  Contract!LakeNext \/ UNCHANGED Contract!lakeVars
<1>1. CASE Acquire(j) \/ Refused(j) \/ Finish(j) \/ Skip(j) \/ Fetch(j) \/ Merge(j)
  BY <1>1 DEF Acquire, Refused, Finish, Skip, Fetch, Merge, Contract!lakeVars
<1>2. CASE Begin(j)
  <2> DEFINE t == InHand(j)
             K == Between(t, mark[t] + 1, Start(t, asked[j]))
  <2>1. t \in Series /\ K \subseteq Data[t]  BY <1>2, HandType DEF Begin, Between
  <2>2. passed' = [passed EXCEPT ![t] = @ \cup K] /\ stored' = stored /\ mark' = mark
    BY <1>2 DEF Begin, InHand
  <2> HIDE DEF t, K
  <2> QED  BY <2>1, <2>2, Passes DEF Contract!LakeNext
<1>3. CASE EndWalk(j)
  <2> DEFINE t == InHand(j)
  <2>1. /\ pc[j] = "walk" /\ Until(t, asked[j]) <= cursor[j] /\ stored' = stored /\ passed' = passed
        /\ IF Converges(j, t) THEN mark[t] <= Delisted[t] - 1 /\ mark' = [mark EXCEPT ![t] = Delisted[t] - 1]
           ELSE mark' = mark
    BY <1>3 DEF EndWalk, InHand
  <2>2. t \in Series  BY <2>1, BusyFacts DEF Busy
  <2>3. CASE ~Converges(j, t)  BY <2>1, <2>3 DEF Contract!lakeVars
  <2>4. CASE Converges(j, t)
    <3>1. \A k \in Data[t] : k \in stored[t] \cup passed[t]
      BY <2>1, <2>4, ConvergedIsCovered DEF Converges
    <3>2. Delisted[t] - 1 \in Int  BY <2>2, IngestAssumption
    <3> QED  BY <2>1, <2>2, <2>4, <3>1, <3>2, MarkAdvances DEF Contract!LakeNext
  <2> QED  BY <2>3, <2>4
<1>4. CASE Replace(j)
  <2> DEFINE t == InHand(j)
             N == OfLeaf(left[j], Current(j))
  <2>1. /\ stored' = [stored EXCEPT ![t] = @ \cup N] /\ t \in Series
        /\ N \subseteq Data[t]
    BY <1>4, ReplaceAdds DEF OfLeaf
  <2>2. mark' = mark /\ passed' = passed  BY <1>4 DEF Replace
  <2> HIDE DEF t, N
  <2>3. stored[t] \subseteq Data[t]  BY <2>1 DEF IngestInv, Sound
  <2>4. Contract!Persist(t)  BY <2>1, <2>2, <2>3 DEF Contract!Persist, IngestInv, Typed
  <2> QED  BY <2>1, <2>4 DEF Contract!LakeNext
<1>5. CASE SetMark(j)
  <2> DEFINE t == InHand(j)
             w == Top(rows[j])
  <2>1. /\ pc[j] = "write" /\ left[j] = {} /\ mark[t] <= w /\ mark' = [mark EXCEPT ![t] = w]
        /\ stored' = stored /\ passed' = passed
    BY <1>5 DEF SetMark, InHand
  <2>2. t \in Series  BY <2>1, BusyFacts DEF Busy
  <2>3. w \in Int /\ \A k \in Data[t] : k <= w => k \in stored[t] \cup passed[t]
    BY <2>1, SetMarkFacts
  <2> HIDE DEF t, w
  <2> QED  BY <2>1, <2>2, <2>3, MarkAdvances DEF Contract!LakeNext
<1> QED  BY <1>1, <1>2, <1>3, <1>4, <1>5 DEF Work

LEMMA FaultIsContracted ==
    ASSUME IngestInv, NEW j \in Jobs,
           MissingMonth(j) \/ FailSeries(j) \/ FailSession(j) \/ Crash(j)
    PROVE  Contract!LakeNext \/ UNCHANGED Contract!lakeVars
<1>1. CASE FailSeries(j) \/ Crash(j)  BY <1>1 DEF FailSeries, Crash, Contract!lakeVars
<1>2. CASE MissingMonth(j)
  <2> DEFINE t == InHand(j)
             K == Between(t, cursor[j], BatchEnd(t, cursor[j], Until(t, asked[j])))
  <2>1. /\ passed' = [passed EXCEPT ![t] = @ \cup K] /\ stored' = stored /\ mark' = mark
        /\ K \subseteq Data[t] /\ t \in Series
    BY <1>2, BusyFacts DEF MissingMonth, InHand, Between, Busy
  <2> HIDE DEF t, K
  <2> QED  BY <2>1, Passes DEF Contract!LakeNext
<1>3. CASE FailSession(j)
  <2> DEFINE t == InHand(j)
             to == IF pc[j] = "walk" THEN BatchEnd(t, cursor[j], Until(t, asked[j])) ELSE cursor[j]
             from == IF pc[j] = "walk" THEN cursor[j] ELSE cursor[j] - 1
             K == Between(t, from, to)
  <2>1. /\ passed' = [passed EXCEPT ![t] = @ \cup K] /\ stored' = stored /\ mark' = mark
        /\ K \subseteq Data[t] /\ t \in Series
    BY <1>3, BusyFacts DEF FailSession, InHand, Between
  <2> HIDE DEF t, K
  <2> QED  BY <2>1, Passes DEF Contract!LakeNext
<1> QED  BY <1>1, <1>2, <1>3

LEMMA StepIsContracted ==
    ASSUME IngestInv, [IngestNext]_ingestVars
    PROVE  [Contract!LakeNext]_Contract!lakeVars
<1>1. CASE \E j \in Jobs : AskBackfill(j) \/ AskEquities(j) \/ AskUpdate(j)
  BY <1>1 DEF AskBackfill, AskEquities, AskUpdate, Ask, Contract!lakeVars
<1>2. CASE \E s \in Series : Reset(s)
  BY <1>2 DEF Reset, Contract!LakeNext, Contract!Rewind
<1>3. CASE Tick \/ UNCHANGED ingestVars
  BY <1>3 DEF Tick, ingestVars, Contract!lakeVars
<1> QED  BY <1>1, <1>2, <1>3, WorkIsContracted, FaultIsContracted DEF IngestNext

-----------------------------------------------------------------------------
(* The theorems.                                                           *)

\* Ingestion is typed, one process works at a time, and what it has left to
\* write is part of its batch.
THEOREM IngestTypeCorrect == IngestSpec => []IngestTypeOK
<1>1. IngestInv => IngestTypeOK  BY DEF IngestInv, Typed, JobSound, Working, IngestTypeOK
<1> QED  BY <1>1, Invariance, PTL

\* Whatever the clock of a run, a bar that is still forming does not reach the
\* lake.
THEOREM FinalRowsOnly == IngestSpec => []OnlyFinalRows
<1>1. IngestInv => OnlyFinalRows  BY DEF IngestInv, Sound, OnlyFinalRows
<1> QED  BY <1>1, Invariance, PTL

\* Ingestion implements the lake's contract: no row is lost, and no watermark
\* rises over a key that is neither stored nor passed over, for any number of
\* processes, series, failures and crashes.
THEOREM LakeIsKept == IngestSpec => KeepsTheLake
<1>1. IngestInit => Contract!LakeInit  BY DEF IngestInit, Contract!LakeInit
<1>2. IngestInv /\ [IngestNext]_ingestVars => [Contract!LakeNext]_Contract!lakeVars
  BY StepIsContracted
<1> QED  BY <1>1, <1>2, Invariance, PTL DEF IngestSpec, KeepsTheLake, Contract!LakeSpec
=============================================================================
