------------------------- MODULE TrialLedgerProofs -------------------------
(***************************************************************************)
(* Proofs about the trial ledger (TrialLedger): the ordinals it spends are *)
(* its positions, a batch stands together in its sealed order, and nothing *)
(* new is looked at before what was tried is decided.  A run computes and  *)
(* appends on the strength of a validation that other processes have had   *)
(* time to overtake: RunChecked says what of it still holds by then.       *)
(***************************************************************************)
EXTENDS TrialLedger, FiniteSetTheorems, SequenceTheorems, TLAPS

Entries == [id : Identities, ordinal : Nat \ {0}]

-----------------------------------------------------------------------------
(* The inductive invariant.                                                *)

\* A reservation names the batch of its identity, or none for one reserved alone.
OwnBatch ==
    \A i \in Identities : reservation[i] # Unreserved =>
        \/ i \in Alone /\ reservation[i].batch = NoBatch
        \/ reservation[i].batch \in Batches /\ i \in ToSet(reservation[i].batch)

\* A result is written for a logged identity, a packet for a written result.
Counted ==
    /\ results \subseteq Logged
    /\ \A i \in Identities : packet[i] # 0 => i \in results

Distinct == \A m, n \in 1..Len(ledger) : ledger[m].id = ledger[n].id => m = n

\* The logged members of a batch are the first ones, and its registry is sealed.
SealedFirst ==
    \A b \in Batches : \A p \in 1..Len(b) : b[p] \in Logged => b \in sealed
Prefix ==
    \A b \in Batches : \A q \in 1..Len(b) : \A p \in 1..(q - 1) :
        b[q] \in Logged => b[p] \in Logged

\* While a batch is logged in part, its last logged member ends the ledger.
OpenLast ==
    \A b \in Batches : \A p \in 1..(Len(b) - 1) :
        b[p] \in Logged /\ b[p + 1] \notin Logged => ledger[Len(ledger)].id = b[p]

RunInOrder ==
    /\ run.phase \in {"record", "append", "write"} => \A p \in 1..(run.at - 1) : run.unit[p] \in Logged
    /\ run.phase = "write" => InHand \in Logged

\* Everything tried before i is decided, its own batch apart, or was sealed anew since.
Cleared(i) ==
    \A j \in Logged :
        (\E b \in Batches : {i, j} \subseteq ToSet(b)) \/ Decided(j) \/ j \in resealed

\* The validation a run acts on: everything before the member in hand was decided, and
\* the ordinal it is about to spend is still the next one, under its own sealed batch,
\* with no other batch logged in part.
RunChecked ==
    /\ run.phase \in {"compute", "append"} /\ InHand \notin Logged => Cleared(InHand)
    /\ run.phase = "append" /\ InHand \notin Logged =>
          /\ run.ordinal = Historical + Len(ledger) + 1 /\ run.ordinal <= Ceiling
          /\ run.unit \in Batches => run.unit \in sealed
          /\ \A b \in Batches : \A p \in 1..(Len(b) - 1) :
                b[p] \in Logged /\ b[p + 1] \notin Logged => b = run.unit

TrialInv ==
    /\ TrialTypeOK /\ OwnBatch /\ Counted /\ Distinct
    /\ SealedFirst /\ Prefix /\ OpenLast /\ RunInOrder /\ RunChecked
    /\ OrdinalIsPosition /\ BatchesAreAtomic

-----------------------------------------------------------------------------
(* Batches and the ledger.                                                 *)

LEMMA BatchFacts ==
    ASSUME NEW b \in Batches
    PROVE  /\ b \in Seq(Identities) /\ b # NoBatch /\ Len(b) \in Nat \ {0}
           /\ \A p \in 1..Len(b) : b[p] \in Identities /\ b[p] \in ToSet(b) /\ b[p] \notin Alone
           /\ \A i \in ToSet(b) : \E p \in 1..Len(b) : b[p] = i
<1>1. b \in Seq(Identities) /\ b # NoBatch  BY BatchAssumption
<1>2. Len(b) \in Nat /\ DOMAIN b = 1..Len(b)  BY <1>1
<1>3. Len(b) # 0  BY <1>1, <1>2, EmptySeq DEF NoBatch
<1>4. \A i : i \in ToSet(b) <=> \E p \in 1..Len(b) : b[p] = i  BY <1>2 DEF ToSet
<1>5. \A p \in 1..Len(b) : b[p] \in Identities  BY <1>1, <1>2
<1> QED  BY <1>1, <1>2, <1>3, <1>4, <1>5, BatchAssumption

LEMMA LoggedFacts ==
    ASSUME ledger \in Seq(Entries)
    PROVE  /\ Len(ledger) \in Nat /\ Logged \subseteq Identities
           /\ \A k \in 1..Len(ledger) : ledger[k] \in Entries
           /\ \A i : i \in Logged <=> \E k \in 1..Len(ledger) : ledger[k].id = i
<1>1. Len(ledger) \in Nat /\ \A k \in 1..Len(ledger) : ledger[k] \in Entries  OBVIOUS
<1>2. \A e \in Entries : e.id \in Identities  BY DEF Entries
<1>3. \A i : i \in Logged <=> \E k \in 1..Len(ledger) : ledger[k].id = i  BY DEF Logged
<1> QED  BY <1>1, <1>2, <1>3

LEMMA BeforeNew ==
    ASSUME NEW i, i \notin Logged
    PROVE  Before(i) = Logged /\ NumberBefore(i) = Len(ledger)
BY DEF Before, NumberBefore, Logged

\* A validated identity has everything before it decided, its own batch apart.
LEMMA ValidClears ==
    ASSUME TrialInv, NEW i \in Identities \ Logged, Validated(i)
    PROVE  \A j \in Logged : (\E b \in Batches : {i, j} \subseteq ToSet(b)) \/ Decided(j)
<1> DEFINE r == reservation[i]
<1>1. SoundBatch(i, r) /\ Serial(i, r)  BY DEF Validated, Valid
<1>2. SUFFICES ASSUME NEW j \in Logged, j \in ToSet(r.batch)
               PROVE  \E b \in Batches : {i, j} \subseteq ToSet(b)
  BY <1>1, BeforeNew DEF Serial
<1>3. r.batch # NoBatch  BY <1>2 DEF NoBatch, ToSet
<1>4. i \in ToSet(r.batch) /\ r.batch \in Batches
  BY <1>1, <1>3 DEF SoundBatch, TrialInv, TrialTypeOK
<1> QED  BY <1>2, <1>4

\* A new identity in the hand of a run that may record it spends the next ordinal,
\* under its own batch, and that batch is the only one open.
LEMMA SpendsNext ==
    ASSUME TrialInv, run.phase = "record", InHand \notin Logged, Preflight(InHand)
    PROVE  /\ InHand \in Identities
           /\ reservation[InHand] \in Reservations
           /\ reservation[InHand].ordinal = Historical + Len(ledger) + 1
           /\ reservation[InHand].ordinal <= Ceiling
           /\ run.unit \in Batches => run.unit \in sealed
           /\ \A b \in Batches : \A p \in 1..(Len(b) - 1) :
                 b[p] \in Logged /\ b[p + 1] \notin Logged => b = run.unit
<1> DEFINE i == InHand
           u == run.unit
           r == reservation[i]
<1>1. /\ run.unit \in Units /\ run.at \in 1..Len(u)
  BY DEF TrialInv, TrialTypeOK, Idle, Runs
<1>3. ASSUME u \notin Batches PROVE i \in Alone /\ i \in Identities
  <2>1. PICK a \in Alone : u = <<a>>  BY <1>1, <1>3 DEF Units
  <2>2. i = a  BY <1>1, <2>1 DEF InHand
  <2> QED  BY <2>1, <2>2 DEF Identities
<1>4. i \in Identities
  <2>1. CASE u \in Batches  BY <1>1, <2>1, BatchFacts DEF InHand
  <2> QED  BY <2>1, <1>3
<1>5. r \in Reservations /\ r # Unreserved /\ Valid(i, r)
  BY <1>4 DEF TrialInv, TrialTypeOK, Preflight, Validated
<1>6. r.batch = IF u \in Batches THEN u ELSE NoBatch
  <2>1. CASE u \in Batches
    <3>1. i \notin Alone /\ i = u[run.at]  BY <1>1, <2>1, BatchFacts DEF InHand
    <3>2. r.batch \in Batches /\ i \in ToSet(r.batch)  BY <1>4, <1>5, <3>1 DEF TrialInv, OwnBatch
    <3>3. PICK p \in 1..Len(r.batch) : r.batch[p] = i  BY <3>2, BatchFacts
    <3> QED  BY <1>1, <2>1, <3>1, <3>2, <3>3, BatchAssumption
  <2>2. CASE u \notin Batches
    <3>1. i \in Alone  BY <1>3, <2>2
    <3>2. \A b \in Batches : i \notin ToSet(b)  BY <3>1, BatchAssumption
    <3> QED  BY <1>4, <1>5, <2>2, <3>1, <3>2 DEF TrialInv, OwnBatch
  <2> QED  BY <2>1, <2>2
<1>7. Predecessors(i, r.batch) \ Before(i) = {}
  <2>1. CASE u \in Batches
    <3>1. ASSUME NEW p \in 1..Len(u), NEW q \in (p + 1)..Len(u), u[q] = i PROVE u[p] \in Logged
      <4>0. Len(u) \in Nat  BY <2>1, BatchFacts
      <4>1. q = run.at  BY <1>1, <2>1, <3>1, <4>0, BatchAssumption DEF InHand
      <4>2. p \in 1..(run.at - 1)  BY <1>1, <3>1, <4>0, <4>1
      <4> QED  BY <4>2 DEF TrialInv, RunInOrder
    <3> QED  BY <1>6, <2>1, <3>1, BeforeNew DEF Predecessors
  <2>2. CASE u \notin Batches
    <3>1. Len(NoBatch) = 0  BY DEF NoBatch
    <3> QED  BY <1>6, <2>2, <3>1 DEF Predecessors
  <2> QED  BY <2>1, <2>2
<1>8. r.ordinal = Historical + Len(ledger) + 1
  <2>0. Len(ledger) \in Nat  BY LoggedFacts DEF TrialInv, TrialTypeOK, Entries
  <2>1. ExpectedOrdinal(i, r.batch) = Historical + Len(ledger) + Cardinality({}) + 1
    BY <1>7, BeforeNew DEF ExpectedOrdinal
  <2> QED  BY <1>5, <2>0, <2>1, FS_EmptySet, TrialAssumption DEF Valid
<1>9. r.ordinal <= Ceiling
  <2>1. amended \in 0..Len(Ceilings) /\ Len(Ceilings) \in Nat /\ r.ordinal \in Nat
    BY <1>5, TrialAssumption DEF TrialInv, TrialTypeOK, Reservations
  <2>2. CASE r.ordinal > Budget  BY <1>5, <2>2 DEF Valid, WithinBudget
  <2>3. CASE ~(r.ordinal > Budget)
    <3>1. amended # 0 => Ceilings[amended] \in Nat /\ Budget < Ceilings[amended]
      BY <2>1, TrialAssumption
    <3> QED  BY <2>1, <2>3, <3>1, TrialAssumption DEF Ceiling
  <2> QED  BY <2>2, <2>3
<1>10. u \in Batches => u \in sealed
  BY <1>5, <1>6, BatchFacts DEF Valid, SoundBatch
<1>11. ASSUME NEW b \in Batches, NEW p \in 1..(Len(b) - 1), b[p] \in Logged, b[p + 1] \notin Logged
       PROVE  b = u
  <2>1. Len(b) \in Nat /\ p \in 1..Len(b) /\ p + 1 \in 1..Len(b)  BY <1>11, BatchFacts
  <2>2. b[p + 1] \in Identities /\ b[p + 1] \in ToSet(b)  BY <2>1, BatchFacts
  <2>3. packet[b[p + 1]] = 0  BY <1>11, <2>2 DEF TrialInv, Counted
  <2>4. b \in sealed  BY <1>11, <2>1 DEF TrialInv, SealedFirst
  <2>5. b = r.batch  BY <1>5, <2>2, <2>3, <2>4 DEF Valid, Serial, Open, Decided
  <2> QED  BY <1>6, <2>5, BatchFacts
<1> QED  BY <1>4, <1>5, <1>8, <1>9, <1>10, <1>11

-----------------------------------------------------------------------------
(* Steps that leave the ledger alone.                                      *)

LEMMA CeilingRises ==
    ASSUME TrialInv,
           amended' = amended \/ (amended < Len(Ceilings) /\ amended' = amended + 1)
    PROVE  Ceiling \in Nat /\ Ceiling' \in Nat /\ Ceiling <= Ceiling'
<1>1. amended \in Nat /\ amended' \in Nat /\ amended' <= Len(Ceilings) /\ Len(Ceilings) \in Nat
  BY TrialAssumption DEF TrialInv, TrialTypeOK
<1>2. amended # 0 => Ceilings[amended] \in Nat  BY <1>1, TrialAssumption DEF TrialInv, TrialTypeOK
<1>3. amended' # 0 => Ceilings[amended'] \in Nat /\ Budget < Ceilings[amended']
  BY <1>1, TrialAssumption
<1>4. amended # 0 /\ amended' # amended => Ceilings[amended] < Ceilings[amended']
  <2>1. SUFFICES ASSUME amended # 0, amended' = amended + 1, amended < Len(Ceilings)
                 PROVE  Ceilings[amended] < Ceilings[amended']
    OBVIOUS
  <2>2. amended' \in 1..Len(Ceilings) /\ amended \in 1..(amended' - 1)  BY <1>1, <2>1
  <2> QED  BY <2>2, TrialAssumption
<1> QED  BY <1>1, <1>2, <1>3, <1>4, TrialAssumption DEF Ceiling

\* What the ledger says by itself survives such a step: registries are never
\* taken back and ceilings only rise.
LEMMA LedgerKept ==
    ASSUME TrialInv, UNCHANGED ledger, sealed \subseteq sealed',
           amended' = amended \/ (amended < Len(Ceilings) /\ amended' = amended + 1)
    PROVE  /\ Logged' = Logged
           /\ Distinct' /\ SealedFirst' /\ Prefix' /\ OpenLast' /\ OrdinalIsPosition' /\ BatchesAreAtomic'
<1>1. Logged' = Logged  BY DEF Logged
<1>2. Distinct' /\ Prefix' /\ OpenLast' /\ BatchesAreAtomic'
  BY <1>1 DEF TrialInv, Distinct, Prefix, OpenLast, BatchesAreAtomic
<1>3. SealedFirst'  BY <1>1 DEF TrialInv, SealedFirst
<1>4. Ceiling \in Nat /\ Ceiling' \in Nat /\ Ceiling <= Ceiling'  BY CeilingRises
<1>5. OrdinalIsPosition'
  <2>0. Len(ledger) \in Nat /\ \A n \in 1..Len(ledger) : ledger[n].ordinal \in Nat
    <3>1. Len(ledger) \in Nat /\ \A n \in 1..Len(ledger) : ledger[n] \in Entries
      BY LoggedFacts DEF TrialInv, TrialTypeOK, Entries
    <3> QED  BY <3>1 DEF Entries
  <2>1. SUFFICES ASSUME NEW n \in 1..Len(ledger)
                 PROVE  ledger[n].ordinal = Historical + n /\ ledger[n].ordinal <= Ceiling'
    BY DEF OrdinalIsPosition
  <2>2. ledger[n].ordinal = Historical + n /\ ledger[n].ordinal <= Ceiling
    BY <2>1 DEF TrialInv, OrdinalIsPosition
  <2> QED  BY <1>4, <2>0, <2>1, <2>2
<1> QED  BY <1>1, <1>2, <1>3, <1>5

\* What a run has checked outlives the steps of everyone else: what they make
\* undecided they have sealed.
LEMMA CheckedKept ==
    ASSUME TrialInv, UNCHANGED <<ledger, run>>, sealed \subseteq sealed',
           amended' = amended \/ (amended < Len(Ceilings) /\ amended' = amended + 1),
           run # Idle =>
               \A j \in Identities : Decided(j) \/ j \in resealed => Decided(j)' \/ j \in resealed'
    PROVE  RunChecked'
<1>1. Logged' = Logged /\ InHand' = InHand  BY DEF Logged, InHand
<1>2. Logged \subseteq Identities /\ Len(ledger) \in Nat
  BY LoggedFacts DEF TrialInv, TrialTypeOK, Entries
<1>3. Ceiling \in Nat /\ Ceiling' \in Nat /\ Ceiling <= Ceiling'  BY CeilingRises
<1>4. run.phase \in {"compute", "append"} => run # Idle  BY DEF Idle
<1>5. run.phase \in {"compute", "append"} /\ Cleared(InHand) => Cleared(InHand)'
  BY <1>1, <1>2, <1>4 DEF Cleared
<1>6. run.phase = "append" /\ run.ordinal = Historical + Len(ledger) + 1 /\ run.ordinal <= Ceiling
         => run.ordinal <= Ceiling'
  BY <1>2, <1>3, TrialAssumption
<1> QED  BY <1>1, <1>5, <1>6 DEF TrialInv, RunChecked

-----------------------------------------------------------------------------
(* Recording a new identity.                                               *)

LEMMA RecordsNew ==
    ASSUME TrialInv, NEW i \in Identities, Records(i), i \notin Logged
    PROVE  /\ ledger' \in Seq(Entries) /\ Logged' = Logged \cup {i}
           /\ Distinct' /\ SealedFirst' /\ Prefix' /\ OpenLast'
           /\ OrdinalIsPosition' /\ BatchesAreAtomic'
<1> DEFINE e == [id |-> i, ordinal |-> run.ordinal]
           L == Len(ledger)
           u == run.unit
<1>1. /\ run.phase = "append" /\ InHand = i
      /\ ledger' = Append(ledger, e)
      /\ UNCHANGED <<sealed, reservation, packet, results, amended, author>>
  BY DEF Records
<1>2. /\ run \in Runs /\ run.at \in 1..Len(u)
      /\ run.ordinal = Historical + L + 1 /\ run.ordinal <= Ceiling
      /\ u \in Batches => u \in sealed
      /\ u \notin Batches => i \in Alone
  <2>1. run \in Runs /\ run.at \in 1..Len(u)  BY <1>1 DEF TrialInv, TrialTypeOK, Idle
  <2>2. u \notin Batches => i \in Alone  BY <1>1, <2>1 DEF Runs, Units, InHand
  <2> QED  BY <1>1, <2>1, <2>2 DEF TrialInv, RunChecked
<1>3. /\ ledger \in Seq(Entries) /\ L \in Nat /\ Historical \in Nat
      /\ \A k \in 1..L : ledger[k] \in Entries
      /\ \A j : j \in Logged <=> \E k \in 1..L : ledger[k].id = j
  BY LoggedFacts, TrialAssumption DEF TrialInv, TrialTypeOK, Entries
<1>4. e \in Entries  BY <1>2, <1>3 DEF Entries
<1> DEFINE M == Len(ledger')
<1>5. /\ ledger' \in Seq(Entries) /\ M = L + 1
      /\ \A k \in 1..L : ledger'[k] = ledger[k]
      /\ ledger'[L + 1] = e /\ e.id = i /\ e.ordinal = run.ordinal
  BY <1>1, <1>3, <1>4, AppendProperties
<1> HIDE DEF e, L, M
<1>6. Logged' = Logged \cup {i}
  <2>1. \A j : j \in Logged' <=> \E k \in 1..M : ledger'[k].id = j  BY DEF Logged, M
  <2>2. \A j : (\E k \in 1..M : ledger'[k].id = j) <=> ((\E k \in 1..L : ledger[k].id = j) \/ j = i)
    <3>1. \A k : k \in 1..M <=> k \in 1..L \/ k = L + 1  BY <1>3, <1>5
    <3> QED  BY <3>1, <1>5
  <2> QED  BY <1>3, <2>1, <2>2
<1>7. Distinct'
  <2>1. SUFFICES ASSUME NEW m \in 1..M, NEW n \in 1..M, ledger'[m].id = ledger'[n].id
                 PROVE  m = n
    BY DEF Distinct, M
  <2>2. \A k \in 1..L : ledger'[k].id # i  BY <1>3, <1>5
  <2>3. \A k \in 1..M : k \in 1..L \/ k = L + 1  BY <1>3, <1>5
  <2>4. CASE m \in 1..L /\ n \in 1..L  BY <1>5, <2>1, <2>4 DEF TrialInv, Distinct, L
  <2>5. CASE m = L + 1 \/ n = L + 1  BY <1>5, <2>1, <2>2, <2>3, <2>5
  <2> QED  BY <2>3, <2>4, <2>5
<1>8. OrdinalIsPosition'
  <2>1. SUFFICES ASSUME NEW n \in 1..M
                 PROVE  ledger'[n].ordinal = Historical + n /\ ledger'[n].ordinal <= Ceiling
    BY <1>1 DEF OrdinalIsPosition, M, Ceiling
  <2>2. n \in 1..L \/ n = L + 1  BY <1>3, <1>5
  <2>3. CASE n \in 1..L  BY <1>5, <2>3 DEF TrialInv, OrdinalIsPosition, L
  <2>4. CASE n = L + 1  BY <1>2, <1>3, <1>5, <2>4
  <2> QED  BY <2>2, <2>3, <2>4
\* A batch that is logged in part is the one in hand, and i is its next member.
<1>9. ASSUME NEW b \in Batches, NEW p \in 1..(Len(b) - 1), b[p] \in Logged, b[p + 1] \notin Logged
      PROVE  u = b /\ i = b[p + 1]
  <2>1. Len(b) \in Nat /\ p \in 1..Len(b) /\ p + 1 \in 1..Len(b)  BY <1>9, BatchFacts
  <2>6. u = b  BY <1>1, <1>9 DEF TrialInv, RunChecked
  <2>7. run.at \in 1..Len(b) /\ i = b[run.at] /\ \A q \in 1..(run.at - 1) : b[q] \in Logged
    BY <1>1, <1>2, <2>6 DEF TrialInv, InHand, RunInOrder
  <2>8. ~(p + 1 < run.at)  BY <1>9, <2>1, <2>7
  <2>9. ~(run.at < p + 1)
    <3>1. SUFFICES ASSUME run.at < p + 1 PROVE FALSE  OBVIOUS
    <3>2. run.at = p \/ run.at \in 1..(p - 1)  BY <2>1, <2>7, <3>1
    <3>3. b[run.at] \in Logged  BY <1>9, <2>1, <3>2 DEF TrialInv, Prefix
    <3> QED  BY <2>7, <3>3
  <2>10. run.at = p + 1  BY <2>1, <2>7, <2>8, <2>9
  <2> QED  BY <2>6, <2>7, <2>10
\* A member in hand has every member before it on the ledger.
<1>10. ASSUME NEW b \in Batches, NEW q \in 1..Len(b), b[q] = i
       PROVE  u = b /\ run.at = q /\ \A p \in 1..(q - 1) : b[p] \in Logged
  <2>1. i \notin Alone  BY <1>10, BatchFacts
  <2>2. u \in Batches /\ run.at \in 1..Len(u) /\ i = u[run.at]
    BY <1>1, <1>2, <2>1 DEF InHand
  <2>3. u = b /\ run.at = q  BY <1>10, <2>2, BatchAssumption
  <2> QED  BY <1>1, <2>3 DEF TrialInv, RunInOrder
<1>11. Prefix'
  <2>1. SUFFICES ASSUME NEW b \in Batches, NEW q \in 1..Len(b), NEW p \in 1..(q - 1), b[q] \in Logged'
                 PROVE  b[p] \in Logged'
    BY DEF Prefix
  <2>2. CASE b[q] \in Logged  BY <1>6, <2>1, <2>2 DEF TrialInv, Prefix
  <2>3. CASE b[q] = i  BY <1>6, <1>10, <2>1, <2>3
  <2> QED  BY <1>6, <2>1, <2>2, <2>3
<1>12. SealedFirst'
  <2>1. SUFFICES ASSUME NEW b \in Batches, NEW p \in 1..Len(b), b[p] \in Logged'
                 PROVE  b \in sealed
    BY <1>1 DEF SealedFirst
  <2>2. CASE b[p] \in Logged  BY <2>1, <2>2 DEF TrialInv, SealedFirst
  <2>3. CASE b[p] = i  BY <1>2, <1>10, <2>1, <2>3
  <2> QED  BY <1>6, <2>1, <2>2, <2>3
<1>13. OpenLast'
  <2>1. SUFFICES ASSUME NEW b \in Batches, NEW p \in 1..(Len(b) - 1),
                        b[p] \in Logged', b[p + 1] \notin Logged'
                 PROVE  ledger'[M].id = b[p]
    BY DEF OpenLast, M
  <2>2. b[p + 1] \notin Logged /\ b[p + 1] # i  BY <1>6, <2>1
  <2>3. b[p] \notin Logged  BY <1>9, <2>1, <2>2
  <2>4. b[p] = i  BY <1>6, <2>1, <2>3
  <2> QED  BY <1>5, <2>4
<1>14. BatchesAreAtomic'
  <2>1. SUFFICES ASSUME NEW b \in Batches, NEW n \in 1..M, NEW p \in 1..Len(b), ledger'[n].id = b[p]
                 PROVE  /\ p > 1 => n > 1 /\ ledger'[n - 1].id = b[p - 1]
                        /\ p < Len(b) /\ n < M => ledger'[n + 1].id = b[p + 1]
    BY DEF BatchesAreAtomic, M
  <2>0. Len(b) \in Nat /\ p \in Nat /\ n \in Nat  BY <1>3, <1>5, <2>1, BatchFacts
  <2>2. n \in 1..L \/ n = L + 1  BY <1>3, <1>5, <2>1
  <2>3. CASE n \in 1..L
    <3>1. ledger[n].id = b[p]  BY <1>5, <2>1, <2>3
    <3>2. /\ p > 1 => n > 1 /\ ledger[n - 1].id = b[p - 1]
          /\ p < Len(b) /\ n < L => ledger[n + 1].id = b[p + 1]
      BY <2>1, <2>3, <3>1 DEF TrialInv, BatchesAreAtomic, L
    <3>3. n > 1 => n - 1 \in 1..L  BY <1>3, <2>3
    <3>4. n < L => n + 1 \in 1..L  BY <1>3, <2>3
    <3>5. n = L /\ p < Len(b) => ledger'[n + 1].id = b[p + 1]
      <4>1. SUFFICES ASSUME n = L, p < Len(b) PROVE i = b[p + 1]  BY <1>5
      <4>2. b[p] \in Logged /\ p \in 1..(Len(b) - 1)  BY <1>3, <2>0, <2>3, <3>1, <4>1
      <4>3. b[p + 1] \notin Logged
        <5>1. SUFFICES ASSUME NEW k \in 1..L, ledger[k].id = b[p + 1] PROVE FALSE  BY <1>3
        <5>2. p + 1 \in 1..Len(b) /\ p + 1 > 1 /\ p + 1 - 1 = p  BY <2>0, <4>1
        <5>3. k > 1 /\ ledger[k - 1].id = b[p]
          BY <5>1, <5>2 DEF TrialInv, BatchesAreAtomic, L
        <5>4. k - 1 \in 1..L  BY <1>3, <5>1, <5>3
        <5>5. k - 1 = n  BY <2>3, <3>1, <5>3, <5>4 DEF TrialInv, Distinct, L
        <5> QED  BY <1>3, <4>1, <5>1, <5>5
      <4> QED  BY <1>9, <4>2, <4>3
    <3> QED  BY <1>3, <1>5, <2>0, <2>3, <3>2, <3>3, <3>4, <3>5
  <2>4. CASE n = L + 1
    <3>1. b[p] = i  BY <1>5, <2>1, <2>4
    <3>2. p > 1 => n > 1 /\ ledger'[n - 1].id = b[p - 1]
      <4>1. SUFFICES ASSUME p > 1 PROVE n > 1 /\ ledger'[n - 1].id = b[p - 1]  OBVIOUS
      <4>2. p - 1 \in 1..(Len(b) - 1) /\ p - 1 \in 1..(p - 1) /\ p - 1 + 1 = p  BY <2>0, <4>1
      <4>3. b[p - 1] \in Logged  BY <1>10, <3>1, <4>2
      <4>4. ledger[Len(ledger)].id = b[p - 1]  BY <3>1, <4>2, <4>3 DEF TrialInv, OpenLast
      <4>5. L > 0  BY <1>3, <4>3
      <4>6. L \in 1..L /\ n - 1 = L /\ n > 1  BY <1>3, <2>4, <4>5
      <4> QED  BY <1>5, <4>4, <4>6 DEF L
    <3> QED  BY <1>3, <1>5, <2>4, <3>2
  <2> QED  BY <2>2, <2>3, <2>4
<1> QED  BY <1>5, <1>6, <1>7, <1>8, <1>11, <1>12, <1>13, <1>14

-----------------------------------------------------------------------------
(* The invariant is inductive.                                             *)

LEMMA InitInv ==
    ASSUME TrialInit
    PROVE  TrialInv
<1>1. ledger = <<>> /\ Len(ledger) = 0 /\ Logged = {}  BY DEF TrialInit, Logged
<1>2. /\ reservation \in [Identities -> Reservations]
      /\ \A i \in Identities : reservation[i] = Unreserved
  BY DEF TrialInit, Reservations, Unreserved
<1>3. TrialTypeOK
  <2>1. ledger \in Seq([id : Identities, ordinal : Nat \ {0}])  BY <1>1
  <2> QED  BY <1>2, <2>1, TrialAssumption DEF TrialInit, TrialTypeOK
<1>4. RunInOrder /\ RunChecked  BY DEF TrialInit, Idle, RunInOrder, RunChecked
<1>5. OwnBatch /\ Counted  BY <1>1, <1>2 DEF TrialInit, OwnBatch, Counted
<1>6. Distinct /\ SealedFirst /\ Prefix /\ OpenLast /\ OrdinalIsPosition /\ BatchesAreAtomic
  BY <1>1 DEF Distinct, SealedFirst, Prefix, OpenLast, OrdinalIsPosition, BatchesAreAtomic
<1> QED  BY <1>3, <1>4, <1>5, <1>6 DEF TrialInv

\* The ordinal an author or an owner writes is a positive number.
LEMMA NextOrdinalType ==
    ASSUME TrialTypeOK
    PROVE  NextOrdinal \in Nat \ {0}
BY LoggedFacts, TrialAssumption DEF TrialTypeOK, NextOrdinal, Entries

\* The steps that change neither the run nor the ledger.
LEMMA ReservationSteps ==
    ASSUME TrialInv,
           \/ \E i \in Alone : ReserveAlone(i)
           \/ \E b \in Batches : SealRegistry(b)
           \/ ReserveMember
    PROVE  TrialInv'
<1>1. /\ UNCHANGED <<ledger, results, packet, closed, waiver, amended, run, resealed>>
      /\ sealed \subseteq sealed' /\ sealed' \subseteq Batches
  BY DEF ReserveAlone, SealRegistry, ReserveMember, TrialInv, TrialTypeOK
<1>2. /\ Logged' = Logged
      /\ Distinct' /\ SealedFirst' /\ Prefix' /\ OpenLast' /\ OrdinalIsPosition' /\ BatchesAreAtomic'
  BY <1>1, LedgerKept
<1>3. Counted' /\ RunInOrder' /\ RunChecked'
  <2>1. RunChecked'  BY <1>1, CheckedKept DEF Decided
  <2> QED  BY <1>1, <1>2, <2>1 DEF TrialInv, Counted, RunInOrder, InHand
<1>4. NextOrdinal \in Nat \ {0}  BY NextOrdinalType DEF TrialInv
<1>5. /\ reservation' \in [Identities -> Reservations] /\ OwnBatch'
      /\ \/ author' = NoAuthor
         \/ /\ author' \in [batch : Batches, first : Nat \ {0}, at : Nat]
            /\ author'.at \in 1..Len(author'.batch)
  <2>1. CASE \E i \in Alone : ReserveAlone(i)
    <3>1. PICK i \in Alone : ReserveAlone(i)  BY <2>1
    <3> DEFINE r == [ordinal |-> NextOrdinal, batch |-> NoBatch,
                     claim |-> IF NextOrdinal > Budget THEN amended ELSE 0]
    <3>2. reservation' = [reservation EXCEPT ![i] = r] /\ UNCHANGED author  BY <3>1 DEF ReserveAlone
    <3>3. r \in Reservations /\ r.batch = NoBatch  BY <1>4 DEF Reservations, TrialInv, TrialTypeOK
    <3> HIDE DEF r
    <3>4. i \in Identities  BY DEF Identities
    <3>5. reservation' \in [Identities -> Reservations]
      BY <3>2, <3>3, <3>4 DEF TrialInv, TrialTypeOK
    <3>6. OwnBatch'
      BY <3>2, <3>3, <3>4 DEF TrialInv, TrialTypeOK, OwnBatch
    <3> QED  BY <3>2, <3>5, <3>6 DEF TrialInv, TrialTypeOK
  <2>2. CASE \E b \in Batches : SealRegistry(b)
    <3>1. PICK b \in Batches : SealRegistry(b)  BY <2>2
    <3>2. author' = [batch |-> b, first |-> NextOrdinal, at |-> 1] /\ UNCHANGED reservation
      BY <3>1 DEF SealRegistry
    <3>3. Len(b) \in Nat \ {0}  BY BatchFacts
    <3> QED  BY <1>4, <3>2, <3>3 DEF TrialInv, TrialTypeOK, OwnBatch
  <2>3. CASE ReserveMember
    <3> DEFINE b == author.batch
               i == b[author.at]
               r == [ordinal |-> author.first + author.at - 1, claim |-> 0, batch |-> b]
    <3>1. /\ b \in Batches /\ author.first \in Nat \ {0} /\ author.at \in 1..Len(b)
          /\ author \in [batch : Batches, first : Nat \ {0}, at : Nat]
      BY <2>3 DEF ReserveMember, TrialInv, TrialTypeOK
    <3>2. i \in Identities /\ i \in ToSet(b) /\ Len(b) \in Nat  BY <3>1, BatchFacts
    <3>3. r \in Reservations /\ r.batch = b  BY <3>1 DEF Reservations
    <3>4. \/ /\ reservation' = [reservation EXCEPT ![i] = r]
             /\ author' = IF author.at < Len(b) THEN [author EXCEPT !.at = @ + 1] ELSE NoAuthor
          \/ author' = NoAuthor /\ UNCHANGED reservation
      BY <2>3 DEF ReserveMember
    <3> HIDE DEF r
    <3>5. reservation' \in [Identities -> Reservations]
      BY <3>2, <3>3, <3>4 DEF TrialInv, TrialTypeOK
    <3>6. OwnBatch'
      BY <3>1, <3>2, <3>3, <3>4 DEF TrialInv, TrialTypeOK, OwnBatch
    <3>7. \/ author' = NoAuthor
          \/ /\ author' \in [batch : Batches, first : Nat \ {0}, at : Nat]
             /\ author'.at \in 1..Len(author'.batch)
      <4>1. CASE author' = NoAuthor  BY <4>1
      <4>2. CASE author.at < Len(b) /\ author' = [author EXCEPT !.at = @ + 1]
        BY <3>1, <3>2, <4>2
      <4> QED  BY <3>4, <4>1, <4>2
    <3> QED  BY <3>5, <3>6, <3>7
  <2> QED  BY <2>1, <2>2, <2>3
<1>6. TrialTypeOK'  BY <1>1, <1>5 DEF TrialInv, TrialTypeOK
<1> QED  BY <1>2, <1>3, <1>5, <1>6 DEF TrialInv

LEMMA UnitLength ==
    ASSUME NEW u \in Units
    PROVE  Len(u) \in Nat \ {0}
<1>1. CASE u \in Batches  BY <1>1, BatchFacts
<1>2. CASE \E i \in Alone : u = <<i>>  BY <1>2
<1> QED  BY <1>1, <1>2 DEF Units

\* A run starts, is refused, or dies; an author dies.
LEMMA RunEnds ==
    ASSUME TrialInv,
           \/ \E u \in Units : StartRun(u)
           \/ RunRefused \/ Crash
    PROVE  TrialInv'
<1>1. UNCHANGED <<sealed, reservation, ledger, results, packet, closed, waiver, amended, resealed>>
  BY DEF StartRun, RunRefused, Crash
<1>2. /\ Logged' = Logged
      /\ Distinct' /\ SealedFirst' /\ Prefix' /\ OpenLast' /\ OrdinalIsPosition' /\ BatchesAreAtomic'
  BY <1>1, LedgerKept
<1>3. OwnBatch' /\ Counted'  BY <1>1, <1>2 DEF TrialInv, OwnBatch, Counted
<1>4. author' = author \/ author' = NoAuthor  BY DEF StartRun, RunRefused, Crash
<1>5. /\ RunInOrder' /\ RunChecked'
      /\ run' = Idle \/ (run' \in Runs /\ run'.at \in 1..Len(run'.unit))
  <2>0. run' = Idle => RunInOrder' /\ RunChecked'  BY DEF Idle, RunInOrder, RunChecked
  <2>1. CASE \E u \in Units : StartRun(u)
    <3>1. PICK u \in Units : run' = [Idle EXCEPT !.unit = u, !.phase = "evaluate", !.at = 1]
      BY <2>1 DEF StartRun
    <3>2. run' = [unit |-> u, phase |-> "evaluate", at |-> 1, ordinal |-> 0]  BY <3>1 DEF Idle
    <3>3. run'.unit = u /\ run'.at = 1 /\ run'.phase = "evaluate" /\ run' \in Runs
      BY <3>2 DEF Runs
    <3>4. Len(u) \in Nat \ {0}  BY UnitLength
    <3>5. 1 \in 1..Len(u)  BY <3>4
    <3> QED  BY <3>3, <3>5 DEF RunInOrder, RunChecked
  <2>2. CASE RunRefused  BY <2>0, <2>2 DEF RunRefused
  <2>3. CASE Crash
    <3>1. run' = Idle \/ UNCHANGED run  BY <2>3 DEF Crash
    <3>2. CASE UNCHANGED run
      <4>1. \A j \in Identities : Decided(j) \/ j \in resealed => Decided(j)' \/ j \in resealed'
        BY <1>1 DEF Decided
      <4>2. RunChecked'
        <5>1. /\ UNCHANGED <<ledger, run>> /\ sealed \subseteq sealed' /\ amended' = amended
              /\ \A j \in Identities :
                    Decided(j) \/ j \in resealed => Decided(j)' \/ j \in resealed'
          BY <1>1, <3>2, <4>1
        <5> QED  BY <5>1, CheckedKept
      <4>3. RunInOrder'  BY <1>2, <3>2 DEF TrialInv, RunInOrder, InHand
      <4>4. run = Idle \/ (run \in Runs /\ run.at \in 1..Len(run.unit))
        BY DEF TrialInv, TrialTypeOK
      <4>5. run' = Idle \/ (run' \in Runs /\ run'.at \in 1..Len(run'.unit))  BY <3>2, <4>4
      <4> QED  BY <4>2, <4>3, <4>5
    <3> QED  BY <2>0, <3>1, <3>2
  <2> QED  BY <2>1, <2>2, <2>3
<1>6. TrialTypeOK'  BY <1>1, <1>4, <1>5 DEF TrialInv, TrialTypeOK
<1> QED  BY <1>2, <1>3, <1>5, <1>6 DEF TrialInv

\* A run goes on: it validates the member in hand, computes it, or validates it again.
LEMMA RunAdvances ==
    ASSUME TrialInv, NEW i \in Identities, Authorizes(i) \/ Computes(i) \/ Checks(i)
    PROVE  TrialInv'
<1>1. /\ UNCHANGED <<sealed, reservation, ledger, results, packet, closed, waiver, amended, author>>
      /\ InHand = i
      /\ resealed' = {} \/ UNCHANGED resealed
  BY DEF Authorizes, Computes, Checks
<1>2. /\ Logged' = Logged
      /\ Distinct' /\ SealedFirst' /\ Prefix' /\ OpenLast' /\ OrdinalIsPosition' /\ BatchesAreAtomic'
  BY <1>1, LedgerKept
<1>3. OwnBatch' /\ Counted'  BY <1>1, <1>2 DEF TrialInv, OwnBatch, Counted
<1>4. run \in Runs /\ run.at \in 1..Len(run.unit) /\ Len(run.unit) \in Nat
  <2>1. run \in Runs /\ run.at \in 1..Len(run.unit)
    BY DEF Authorizes, Computes, Checks, TrialInv, TrialTypeOK, Idle
  <2> QED  BY <2>1, UnitLength DEF Runs
<1>5. /\ RunInOrder' /\ RunChecked'
      /\ run' \in Runs /\ run'.at \in 1..Len(run'.unit)
  <2>1. CASE Authorizes(i)
    <3>1. InHand = i /\ Admitted(i) /\ run' = [run EXCEPT !.phase = "compute"]
      BY <2>1 DEF Authorizes
    <3>2. /\ run'.phase = "compute" /\ run'.unit = run.unit /\ run'.at = run.at
          /\ run' \in Runs /\ InHand' = i
      BY <1>4, <3>1 DEF Runs, InHand
    <3>3. i \notin Logged => Cleared(i)'
      BY <1>1, <1>2, <3>1, ValidClears DEF Admitted, Preflight, Cleared, Decided
    <3> QED  BY <1>2, <1>4, <3>2, <3>3 DEF RunInOrder, RunChecked
  <2>2. CASE Computes(i)
    <3>1. run' = IF run.at < Len(run.unit) THEN [run EXCEPT !.phase = "evaluate", !.at = @ + 1]
                 ELSE [run EXCEPT !.phase = "record", !.at = 1]
      BY <2>2 DEF Computes
    <3>2. CASE run.at < Len(run.unit)
      <4>0. run' = [run EXCEPT !.phase = "evaluate", !.at = @ + 1] /\ run.at + 1 \in Nat
        BY <1>4, <3>1, <3>2
      <4>1. run'.phase = "evaluate" /\ run'.at = run.at + 1 /\ run'.unit = run.unit /\ run' \in Runs
        BY <1>4, <4>0 DEF Runs
      <4> QED  BY <1>4, <3>2, <4>1 DEF RunInOrder, RunChecked
    <3>3. CASE ~(run.at < Len(run.unit))
      <4>1. run'.phase = "record" /\ run'.at = 1 /\ run'.unit = run.unit /\ run' \in Runs
        BY <1>4, <3>1, <3>3 DEF Runs
      <4> QED  BY <1>4, <4>1 DEF RunInOrder, RunChecked
    <3> QED  BY <3>2, <3>3
  <2>3. CASE Checks(i)
    <3>1. /\ run.phase = "record" /\ InHand = i /\ Preflight(i)
          /\ run' = [run EXCEPT !.phase = "append", !.ordinal = reservation[i].ordinal]
      BY <2>3 DEF Checks
    <3>2. reservation[i].ordinal \in Nat  BY DEF TrialInv, TrialTypeOK, Reservations
    <3>3. /\ run'.phase = "append" /\ run'.unit = run.unit /\ run'.at = run.at
          /\ run'.ordinal = reservation[i].ordinal /\ run' \in Runs /\ InHand' = i
      BY <1>4, <3>1, <3>2 DEF Runs, InHand
    <3>4. i \notin Logged => Cleared(i)'
      BY <1>1, <1>2, <3>1, ValidClears DEF Preflight, Cleared, Decided
    <3>5. RunInOrder'  BY <1>2, <3>1, <3>3 DEF TrialInv, RunInOrder
    <3>6. RunChecked'
      <4>1. Ceiling' = Ceiling  BY <1>1 DEF Ceiling
      <4>2. i \notin Logged =>
              /\ run'.ordinal = Historical + Len(ledger) + 1 /\ run'.ordinal <= Ceiling
              /\ run.unit \in Batches => run.unit \in sealed
              /\ \A b \in Batches : \A p \in 1..(Len(b) - 1) :
                    b[p] \in Logged /\ b[p + 1] \notin Logged => b = run.unit
        BY <3>1, <3>3, SpendsNext
      <4> QED  BY <1>1, <1>2, <3>3, <3>4, <4>1, <4>2 DEF RunChecked
    <3> QED  BY <1>4, <3>3, <3>5, <3>6
  <2> QED  BY <2>1, <2>2, <2>3
<1>6. resealed' \subseteq Identities  BY <1>1 DEF TrialInv, TrialTypeOK
<1>7. TrialTypeOK'  BY <1>1, <1>5, <1>6 DEF TrialInv, TrialTypeOK
<1> QED  BY <1>2, <1>3, <1>5, <1>7 DEF TrialInv

LEMMA RecordsInv ==
    ASSUME TrialInv, NEW i \in Identities, Records(i)
    PROVE  TrialInv'
<1>1. /\ run.phase = "append" /\ InHand = i
      /\ run' = [run EXCEPT !.phase = "write"]
      /\ UNCHANGED <<sealed, reservation, results, packet, closed, waiver, amended, author, resealed>>
  BY DEF Records
<1>2. /\ run \in Runs
      /\ run.at \in 1..Len(run.unit)
  BY <1>1 DEF TrialInv, TrialTypeOK, Idle
<1>3. /\ run' \in Runs
      /\ run'.unit = run.unit /\ run'.at = run.at /\ run'.phase = "write" /\ InHand' = i
  BY <1>1, <1>2 DEF InHand, Runs
<1>4. /\ ledger' \in Seq(Entries) /\ Logged' = Logged \cup {i}
      /\ Distinct' /\ SealedFirst' /\ Prefix' /\ OpenLast' /\ OrdinalIsPosition' /\ BatchesAreAtomic'
  <2>1. CASE i \notin Logged  BY <2>1, RecordsNew
  <2>2. CASE i \in Logged
    <3>1. UNCHANGED ledger  BY <2>2 DEF Records
    <3> QED  BY <1>1, <2>2, <3>1, LedgerKept DEF TrialInv, TrialTypeOK, Entries
  <2> QED  BY <2>1, <2>2
<1>5. OwnBatch' /\ Counted'  BY <1>1, <1>4 DEF TrialInv, OwnBatch, Counted
<1>6. RunInOrder' /\ RunChecked'  BY <1>1, <1>3, <1>4 DEF TrialInv, RunInOrder, RunChecked
<1>7. TrialTypeOK'  BY <1>1, <1>2, <1>3, <1>4 DEF TrialInv, TrialTypeOK, Entries
<1> QED  BY <1>4, <1>5, <1>6, <1>7 DEF TrialInv

LEMMA WriteResultInv ==
    ASSUME TrialInv, WriteResult
    PROVE  TrialInv'
<1>1. /\ run.phase = "write"
      /\ results' = results \cup {InHand}
      /\ run' = IF run.at < Len(run.unit) THEN [run EXCEPT !.phase = "record", !.at = @ + 1] ELSE Idle
      /\ UNCHANGED <<sealed, reservation, ledger, packet, closed, waiver, amended, author, resealed>>
  BY DEF WriteResult
<1>2. /\ Logged' = Logged
      /\ Distinct' /\ SealedFirst' /\ Prefix' /\ OpenLast' /\ OrdinalIsPosition' /\ BatchesAreAtomic'
  BY <1>1, LedgerKept
<1>3. /\ run \in Runs
      /\ run.at \in 1..Len(run.unit)
      /\ InHand \in Logged /\ \A p \in 1..(run.at - 1) : run.unit[p] \in Logged
  BY <1>1 DEF TrialInv, TrialTypeOK, Idle, RunInOrder
<1>4. Logged \subseteq Identities  BY LoggedFacts DEF TrialInv, TrialTypeOK, Entries
<1>5. OwnBatch' /\ Counted'  BY <1>1, <1>2, <1>3 DEF TrialInv, OwnBatch, Counted
<1>6. /\ RunInOrder' /\ RunChecked'
      /\ run' = Idle \/ (run' \in Runs /\ run'.at \in 1..Len(run'.unit))
  <2>1. Len(run.unit) \in Nat  BY <1>3, UnitLength DEF Runs
  <2>2. CASE run.at < Len(run.unit)
    <3>1. run' = [run EXCEPT !.phase = "record", !.at = @ + 1]  BY <1>1, <2>2
    <3>0. run.at + 1 \in Nat  BY <1>3
    <3>2. run'.phase = "record" /\ run'.at = run.at + 1 /\ run'.unit = run.unit /\ run' \in Runs
      BY <1>3, <3>0, <3>1 DEF Runs
    <3>3. \A p \in 1..(run'.at - 1) : p \in 1..(run.at - 1) \/ p = run.at  BY <1>3, <3>2
    <3>4. RunInOrder' /\ RunChecked'
      BY <1>2, <1>3, <3>2, <3>3 DEF RunInOrder, RunChecked, InHand
    <3> QED  BY <1>3, <2>1, <2>2, <3>2, <3>4
  <2>3. CASE ~(run.at < Len(run.unit))
    <3>1. run' = Idle  BY <1>1, <2>3
    <3>2. run'.phase = "idle"  BY <3>1 DEF Idle
    <3> QED  BY <3>1, <3>2 DEF RunInOrder, RunChecked
  <2> QED  BY <2>2, <2>3
<1>7. TrialTypeOK'  BY <1>1, <1>3, <1>4, <1>6 DEF TrialInv, TrialTypeOK
<1> QED  BY <1>2, <1>5, <1>6, <1>7 DEF TrialInv

\* Decisions and amendments.
LEMMA OwnerSteps ==
    ASSUME TrialInv,
           \/ \E i \in Identities : SealIdentity(i) \/ Waive(i)
           \/ Amend
    PROVE  TrialInv'
<1>1. /\ UNCHANGED <<sealed, reservation, ledger, results, author, run>>
      /\ amended' = amended \/ (amended < Len(Ceilings) /\ amended' = amended + 1)
  BY DEF SealIdentity, Waive, Amend
<1>2. /\ Logged' = Logged
      /\ Distinct' /\ SealedFirst' /\ Prefix' /\ OpenLast' /\ OrdinalIsPosition' /\ BatchesAreAtomic'
  BY <1>1, LedgerKept
<1>3. OwnBatch' /\ RunInOrder' /\ RunChecked'
  <2>1. run # Idle =>
            \A j \in Identities : Decided(j) \/ j \in resealed => Decided(j)' \/ j \in resealed'
    <3>1. CASE \E i \in Identities : SealIdentity(i)
      BY <3>1 DEF SealIdentity, Decided, TrialInv, TrialTypeOK
    <3>2. CASE \E i \in Identities : Waive(i)
      BY <3>2 DEF Waive, Decided, TrialInv, TrialTypeOK
    <3>3. CASE Amend  BY <3>3 DEF Amend, Decided
    <3> QED  BY <3>1, <3>2, <3>3
  <2>2. RunChecked'  BY <1>1, <2>1, CheckedKept
  <2> QED  BY <1>1, <1>2, <2>2 DEF TrialInv, OwnBatch, RunInOrder, InHand
<1>4. /\ resealed' \subseteq Identities
      /\ packet' \in [Identities -> Nat] /\ waiver' \in [Identities -> Nat]
      /\ closed' \in [Identities -> BOOLEAN]
      /\ \A i \in Identities : packet'[i] # 0 => i \in results
  <2>1. CASE \E i \in Identities : SealIdentity(i)
    BY <2>1 DEF SealIdentity, TrialInv, TrialTypeOK, Counted
  <2>2. CASE \E i \in Identities : Waive(i)
    BY <2>2 DEF Waive, TrialInv, TrialTypeOK, Counted
  <2>3. CASE Amend  BY <2>3 DEF Amend, TrialInv, TrialTypeOK, Counted
  <2> QED  BY <2>1, <2>2, <2>3
<1>5. amended' \in 0..Len(Ceilings)
  <2>1. Len(Ceilings) \in Nat  BY TrialAssumption
  <2> QED  BY <1>1, <2>1 DEF TrialInv, TrialTypeOK
<1>6. Counted'  BY <1>1, <1>2, <1>4 DEF TrialInv, Counted
<1>7. TrialTypeOK'  BY <1>1, <1>4, <1>5 DEF TrialInv, TrialTypeOK
<1> QED  BY <1>2, <1>3, <1>6, <1>7 DEF TrialInv

LEMMA NextInv ==
    ASSUME TrialInv, [TrialNext]_trialVars
    PROVE  TrialInv'
<1>1. CASE \/ \E i \in Alone : ReserveAlone(i)
           \/ \E b \in Batches : SealRegistry(b)
           \/ ReserveMember
  BY <1>1, ReservationSteps
<1>2. CASE \/ \E u \in Units : StartRun(u)
           \/ RunRefused \/ Crash
  BY <1>2, RunEnds
<1>7. CASE \E i \in Identities : Authorizes(i) \/ Computes(i) \/ Checks(i)
  BY <1>7, RunAdvances
<1>3. CASE \E i \in Identities : Records(i)  BY <1>3, RecordsInv
<1>4. CASE WriteResult  BY <1>4, WriteResultInv
<1>5. CASE \/ \E i \in Identities : SealIdentity(i) \/ Waive(i)
           \/ Amend
  BY <1>5, OwnerSteps
<1>6. CASE UNCHANGED trialVars
  <2>1. /\ Logged' = Logged
        /\ Distinct' /\ SealedFirst' /\ Prefix' /\ OpenLast' /\ OrdinalIsPosition' /\ BatchesAreAtomic'
    BY <1>6, LedgerKept DEF trialVars
  <2>2. RunChecked'  BY <1>6, CheckedKept DEF trialVars, Decided
  <2>3. TrialTypeOK' /\ OwnBatch' /\ Counted' /\ RunInOrder'
    BY <1>6, <2>1 DEF trialVars, TrialInv, TrialTypeOK, OwnBatch, Counted, RunInOrder, InHand
  <2> QED  BY <2>1, <2>2, <2>3 DEF TrialInv
<1> QED  BY <1>1, <1>2, <1>3, <1>4, <1>5, <1>6, <1>7 DEF TrialNext

-----------------------------------------------------------------------------
(* The theorems.                                                           *)

LEMMA InvAlways == TrialSpec => []TrialInv
<1>1. TrialInit => TrialInv  BY InitInv
<1>2. TrialInv /\ [TrialNext]_trialVars => TrialInv'  BY NextInv
<1> QED  BY <1>1, <1>2, PTL DEF TrialSpec

\* Every variable of the trial ledger keeps its type (trial_reservation.py).
THEOREM TrialTypeCorrect == TrialSpec => []TrialTypeOK
<1>1. TrialInv => TrialTypeOK  BY DEF TrialInv
<1> QED  BY <1>1, InvAlways, PTL

\* The n-th forward identity spends ordinal Historical + n and never exceeds the
\* ceiling in force (_validate_governance_epoch, effective_budget).
THEOREM OrdinalsArePositions == TrialSpec => []OrdinalIsPosition
<1>1. TrialInv => OrdinalIsPosition  BY DEF TrialInv
<1> QED  BY <1>1, InvAlways, PTL

\* The members of a batch stand together on the ledger, in their sealed order
\* (_validate_identity_batch, _open_identity_batches, run_batch).
THEOREM BatchesStandTogether == TrialSpec => []BatchesAreAtomic
<1>1. TrialInv => BatchesAreAtomic  BY DEF TrialInv
<1> QED  BY <1>1, InvAlways, PTL

\* No returns of a new identity are computed, and none is counted, behind an undecided
\* identity, unless that one was sealed anew after the run was last validated
\* (_validate_forward_epoch_serial_completion, authorize_oos, record).
THEOREM DecidedComesFirst == TrialSpec => DecidedBeforeNext
<1>1. ASSUME TrialInv, NEW i \in Identities \ Logged, Looks(i), NEW j \in Logged
      PROVE  \/ \E b \in Batches : {i, j} \subseteq ToSet(b)
             \/ packet[j] # 0 /\ (closed[j] \/ waiver[j] = packet[j])
             \/ j \in resealed
  <2>1. run.phase \in {"compute", "append"} /\ InHand = i
    BY <1>1 DEF Looks, Computes, Records
  <2>2. Cleared(i)  BY <1>1, <2>1 DEF TrialInv, RunChecked
  <2> QED  BY <2>2 DEF Cleared, Decided
<1>2. TrialInv => [\A i \in Identities \ Logged : Looks(i) =>
          \A j \in Logged :
              \/ \E b \in Batches : {i, j} \subseteq ToSet(b)
              \/ packet[j] # 0 /\ (closed[j] \/ waiver[j] = packet[j])
              \/ j \in resealed]_trialVars
  BY <1>1
<1> QED  BY <1>2, InvAlways, PTL DEF DecidedBeforeNext

=============================================================================
