---------------------------- MODULE TrialLedger ----------------------------
(***************************************************************************)
(* Research governance: who may compute the returns of a new hypothesis,   *)
(* and what the trial ledger then says (validation/trial_reservation.py,   *)
(* trial_budget.py, experiments.py), with the scripts that drive it for a  *)
(* sealed batch: the author of the reservations, the runner and the seal.  *)
(* They are processes of their own that share files; the ledger has one    *)
(* writer at a time, as its docstring asks.  A run reads the files it is   *)
(* validated against before it computes or appends, so what they say may   *)
(* have changed when it does.                                              *)
(*                                                                         *)
(* Identities are hypothesis hashes, a batch is the sequence of its        *)
(* members, a content hash is a version number.  The schemas and hashes of *)
(* files nobody edits (policy, contract, evidence) are left out; the       *)
(* historical identities are a number.                                     *)
(***************************************************************************)
EXTENDS Integers, Sequences, SequencesExt

CONSTANTS
    Alone,      \* identities reserved one by one
    Batches,    \* sequences of identities, each declared as one atomic batch
    Historical, \* identities of the closed epoch
    Budget,     \* the identity budget of the policy
    Ceilings,   \* the ceilings the owner's amendments raise it to, in order
    Resealed    \* bound: the identities whose packet is sealed a second time

Identities == Alone \cup UNION {ToSet(b) : b \in Batches}
Units == {<<i>> : i \in Alone} \cup Batches
NoBatch == <<>>
Unreserved == [ordinal |-> 0, claim |-> 0, batch |-> NoBatch]

ASSUME TrialAssumption ==
    /\ Historical \in Nat /\ Budget \in Nat
    /\ Ceilings \in Seq(Nat)
    /\ \A k \in 1..Len(Ceilings) : Budget < Ceilings[k]
    /\ \A k \in 1..Len(Ceilings) : \A j \in 1..(k - 1) : Ceilings[j] < Ceilings[k]

\* A batch names each identity once, and no identity is in two units.
ASSUME BatchAssumption ==
    /\ Batches \subseteq Seq(Identities) \ {NoBatch}
    /\ \A b \in Batches : Alone \cap ToSet(b) = {}
    /\ \A b, c \in Batches : \A p \in 1..Len(b), q \in 1..Len(c) :
          b[p] = c[q] => b = c /\ p = q

VARIABLES
    sealed,     \* the batches whose registry is on disk
    reservation,\* the reservation on disk of each identity
    ledger,     \* the first record of each forward identity, with the ordinal it spent
    results,    \* identities whose result is written
    packet,     \* the version of an identity's complete packet, 0 for none
    closed,     \* whether its closure says ADMIT or KILL
    waiver,     \* the packet version the owner waived, 0 for none
    amended,    \* how many amendments the budget has
    author,     \* the script that seals a batch and reserves its members
    run,        \* the run in progress, with the ordinal it last validated
    resealed    \* history: identities sealed since the run was last validated

trialVars ==
    <<sealed, reservation, ledger, results, packet, closed, waiver, amended, author, run, resealed>>

Idle == [unit |-> NoBatch, phase |-> "idle", at |-> 0, ordinal |-> 0]
NoAuthor == [batch |-> NoBatch, first |-> 0, at |-> 0]

TrialInit ==
    /\ sealed = {} /\ ledger = <<>> /\ results = {} /\ amended = 0
    /\ reservation = [i \in Identities |-> Unreserved]
    /\ packet = [i \in Identities |-> 0]
    /\ waiver = [i \in Identities |-> 0]
    /\ closed = [i \in Identities |-> FALSE]
    /\ author = NoAuthor /\ run = Idle /\ resealed = {}

--------------------------------------------------------------------------
(* What the validator reads. *)

Logged == {ledger[k].id : k \in 1..Len(ledger)}
Place(i) == CHOOSE k \in 1..Len(ledger) : ledger[k].id = i

\* The forward identities that stand before i: all of them, until i is logged.
NumberBefore(i) == IF i \in Logged THEN Place(i) - 1 ELSE Len(ledger)
Before(i) == {ledger[k].id : k \in 1..NumberBefore(i)}

\* Mutant: a waiver outlives the packet it was written for.
Decided_staleWaiver(i) == packet[i] # 0 /\ (closed[i] \/ waiver[i] # 0)
Decided(i) == packet[i] # 0 /\ (closed[i] \/ waiver[i] = packet[i])

\* Mutant: an open batch blocks nobody.
Open_never(b) == b \in sealed /\ ToSet(b) = {}
Open(b) == b \in sealed /\ \E i \in ToSet(b) : ~Decided(i)

\* The members that come before i in its batch.
Predecessors(i, b) == {b[p] : p \in {q \in 1..Len(b) : \E r \in (q + 1)..Len(b) : b[r] = i}}

\* The batch a reservation claims is sealed, and every member before this one is
\* reserved under it.
SoundBatch(i, r) ==
    \/ r.batch = NoBatch
    \/ /\ r.batch \in sealed /\ i \in ToSet(r.batch)
       /\ \A j \in Predecessors(i, r.batch) : reservation[j].batch = r.batch

\* Everyone before i is decided, its own batch apart, and no other batch is open.
Serial(i, r) ==
    /\ \A b \in sealed : Open(b) => b = r.batch
    /\ \A j \in Before(i) : j \in ToSet(r.batch) \/ Decided(j)

\* Members reserved before i that are not logged hold their ordinals.
ExpectedOrdinal(i, b) ==
    Historical + NumberBefore(i) + Cardinality(Predecessors(i, b) \ Before(i)) + 1

Ceiling == IF amended = 0 THEN Budget ELSE Ceilings[amended]

\* An ordinal above the policy's budget binds the amendments in force, and only that.
WithinBudget(r) ==
    IF r.ordinal > Budget
    THEN amended # 0 /\ r.claim = amended /\ r.ordinal <= Ceiling
    ELSE r.claim = 0

\* Mutant: the ordinal of a reservation is not checked.
Valid_anyOrdinal(i, r) == SoundBatch(i, r) /\ Serial(i, r) /\ WithinBudget(r)
Valid(i, r) ==
    /\ SoundBatch(i, r)
    /\ Serial(i, r)
    /\ r.ordinal = ExpectedOrdinal(i, r.batch)
    /\ WithinBudget(r)

\* Mutant: an identity without a reservation passes.
Validated_unreserved(i) == reservation[i] = Unreserved \/ Valid(i, reservation[i])
Validated(i) == reservation[i] # Unreserved /\ Valid(i, reservation[i])

\* Before returns are computed, and again before they are recorded.
Preflight(i) == i \in Logged \/ Validated(i)

--------------------------------------------------------------------------
(* Reservations. *)

NextOrdinal == Historical + Len(ledger) + 1

\* The owner reserves one identity, with the claim its ordinal needs.
ReserveAlone(i) ==
    /\ i \notin Logged
    /\ NextOrdinal > Budget => amended # 0
    /\ reservation' = [reservation EXCEPT ![i] =
          [ordinal |-> NextOrdinal, batch |-> NoBatch,
           claim |-> IF NextOrdinal > Budget THEN amended ELSE 0]]
    /\ UNCHANGED <<sealed, ledger, results, packet, closed, waiver, amended, author, run, resealed>>

\* The author seals the registry first, then reserves each member in turn.
SealRegistry(b) ==
    /\ author = NoAuthor
    /\ sealed' = sealed \cup {b}
    /\ author' = [batch |-> b, first |-> NextOrdinal, at |-> 1]
    /\ UNCHANGED <<reservation, ledger, results, packet, closed, waiver, amended, run, resealed>>

\* A member that does not validate stops the author; what it wrote stays.
ReserveMember ==
    /\ author # NoAuthor
    /\ LET i == author.batch[author.at]
           r == [ordinal |-> author.first + author.at - 1, claim |-> 0, batch |-> author.batch]
       IN  \/ /\ Valid(i, r)
              /\ reservation' = [reservation EXCEPT ![i] = r]
              /\ author' = IF author.at < Len(author.batch)
                           THEN [author EXCEPT !.at = @ + 1] ELSE NoAuthor
           \/ /\ ~Valid(i, r)
              /\ author' = NoAuthor /\ UNCHANGED reservation
    /\ UNCHANGED <<sealed, ledger, results, packet, closed, waiver, amended, run, resealed>>

Amend ==
    /\ amended < Len(Ceilings)
    /\ amended' = amended + 1
    /\ UNCHANGED <<sealed, reservation, ledger, results, packet, closed, waiver, author, run, resealed>>

--------------------------------------------------------------------------
(* A run: every member of the unit is evaluated before any is recorded. *)

StartRun(u) ==
    /\ run = Idle
    /\ run' = [Idle EXCEPT !.unit = u, !.phase = "evaluate", !.at = 1]
    /\ UNCHANGED <<sealed, reservation, ledger, results, packet, closed, waiver, amended, author,
                   resealed>>

InHand == run.unit[run.at]

\* The out-of-sample window of a batch asks for more than a single run does.
Admitted(i) == IF run.unit \in Batches THEN Validated(i) ELSE Preflight(i)

\* The member in hand is validated before a price is read.
Authorizes(i) ==
    /\ run.phase = "evaluate" /\ InHand = i /\ Admitted(i)
    /\ run' = [run EXCEPT !.phase = "compute"]
    /\ resealed' = {}
    /\ UNCHANGED <<sealed, reservation, ledger, results, packet, closed, waiver, amended, author>>

\* Its panel, cohorts and book: the returns, long after what authorized them was read.
Computes(i) ==
    /\ run.phase = "compute" /\ InHand = i
    /\ run' = IF run.at < Len(run.unit) THEN [run EXCEPT !.phase = "evaluate", !.at = @ + 1]
              ELSE [run EXCEPT !.phase = "record", !.at = 1]
    /\ UNCHANGED <<sealed, reservation, ledger, results, packet, closed, waiver, amended, author,
                   resealed>>

\* Refused before the returns are computed, or after, when they would be recorded.
RunRefused ==
    /\ \/ run.phase = "evaluate" /\ ~Admitted(InHand)
       \/ run.phase = "record" /\ ~Preflight(InHand)
    /\ run' = Idle
    /\ UNCHANGED <<sealed, reservation, ledger, results, packet, closed, waiver, amended, author,
                   resealed>>

\* record() up to its append: the reservation is validated once more.
Checks(i) ==
    /\ run.phase = "record" /\ InHand = i /\ Preflight(i)
    /\ run' = [run EXCEPT !.phase = "append", !.ordinal = reservation[i].ordinal]
    /\ resealed' = {}
    /\ UNCHANGED <<sealed, reservation, ledger, results, packet, closed, waiver, amended, author>>

\* The append, under the ordinal that was validated.  Recording the same
\* configuration twice changes nothing.
Records(i) ==
    /\ run.phase = "append" /\ InHand = i
    /\ run' = [run EXCEPT !.phase = "write"]
    /\ ledger' = IF i \in Logged THEN ledger
                 ELSE Append(ledger, [id |-> i, ordinal |-> run.ordinal])
    /\ UNCHANGED <<sealed, reservation, results, packet, closed, waiver, amended, author, resealed>>

WriteResult ==
    /\ run.phase = "write"
    /\ results' = results \cup {InHand}
    /\ run' = IF run.at < Len(run.unit) THEN [run EXCEPT !.phase = "record", !.at = @ + 1]
              ELSE Idle
    /\ UNCHANGED <<sealed, reservation, ledger, packet, closed, waiver, amended, author, resealed>>

Crash ==
    /\ \/ run # Idle /\ run' = Idle /\ UNCHANGED author
       \/ author # NoAuthor /\ author' = NoAuthor /\ UNCHANGED run
    /\ UNCHANGED <<sealed, reservation, ledger, results, packet, closed, waiver, amended, resealed>>

--------------------------------------------------------------------------
(* Decisions. *)

\* The seal of a written result: its closure says ADMIT or KILL, or INCOMPLETE.
SealIdentity(i) ==
    /\ i \in results
    /\ packet[i] < IF i \in Resealed THEN 2 ELSE 1
    /\ packet' = [packet EXCEPT ![i] = @ + 1]
    /\ \E decided \in BOOLEAN : closed' = [closed EXCEPT ![i] = decided]
    /\ resealed' = IF run = Idle THEN resealed ELSE resealed \cup {i}
    /\ UNCHANGED <<sealed, reservation, ledger, results, waiver, amended, author, run>>

\* The owner waives exactly the packet that is sealed, when nothing else decides it.
Waive(i) ==
    /\ packet[i] # 0 /\ ~Decided(i)
    /\ waiver' = [waiver EXCEPT ![i] = packet[i]]
    /\ UNCHANGED <<sealed, reservation, ledger, results, packet, closed, amended, author, run, resealed>>

TrialNext ==
    \/ \E i \in Alone : ReserveAlone(i)
    \/ \E b \in Batches : SealRegistry(b)
    \/ ReserveMember \/ Amend
    \/ \E u \in Units : StartRun(u)
    \/ \E i \in Identities :
          \/ Authorizes(i) \/ Computes(i) \/ Checks(i) \/ Records(i)
          \/ SealIdentity(i) \/ Waive(i)
    \/ RunRefused \/ WriteResult \/ Crash

TrialSpec == TrialInit /\ [][TrialNext]_trialVars

--------------------------------------------------------------------------
(* Properties. *)

Reservations == [ordinal : Nat, claim : Nat, batch : Batches \cup {NoBatch}]

Runs ==
    [unit : Units, phase : {"evaluate", "compute", "record", "append", "write"}, at : Nat, ordinal : Nat]

\* Every variable has its type; what is on the ledger spent a real ordinal.
TrialTypeOK ==
    /\ sealed \subseteq Batches
    /\ reservation \in [Identities -> Reservations]
    /\ ledger \in Seq([id : Identities, ordinal : Nat \ {0}])
    /\ results \subseteq Identities
    /\ packet \in [Identities -> Nat] /\ waiver \in [Identities -> Nat]
    /\ closed \in [Identities -> BOOLEAN]
    /\ amended \in 0..Len(Ceilings)
    /\ \/ author = NoAuthor
       \/ /\ author \in [batch : Batches, first : Nat \ {0}, at : Nat]
          /\ author.at \in 1..Len(author.batch)
    /\ \/ run = Idle
       \/ run \in Runs /\ run.at \in 1..Len(run.unit)
    /\ resealed \subseteq Identities

\* The n-th forward identity spends ordinal Historical + n, whatever was reserved,
\* refused, crashed or reserved again on the way, so the ceiling in force bounds how
\* many identities were ever tried (_validate_governance_epoch).
OrdinalIsPosition ==
    \A n \in 1..Len(ledger) :
        /\ ledger[n].ordinal = Historical + n
        /\ ledger[n].ordinal <= Ceiling

\* The members of a batch stand together on the ledger in their sealed order: nothing
\* comes between them, even when the run crashed after the first or an owner reserved
\* something else meanwhile (_open_identity_batches, run_batch).
BatchesAreAtomic ==
    \A b \in Batches : \A n \in 1..Len(ledger) : \A p \in 1..Len(b) :
        ledger[n].id = b[p] =>
            /\ p > 1 => n > 1 /\ ledger[n - 1].id = b[p - 1]
            /\ p < Len(b) /\ n < Len(ledger) => ledger[n + 1].id = b[p + 1]

\* No returns of a new identity are computed or counted behind an identity that is
\* undecided under its current packet, its own batch apart, unless that packet was sealed
\* anew after the run was last validated: a waiver serves only the packet it was written
\* for, whoever runs, crashes, amends or reserves in between
\* (_validate_prior_identity_admission_disposition).
Looks(i) == Computes(i) \/ Records(i)
DecidedBeforeNext ==
    [][\A i \in Identities \ Logged : Looks(i) =>
          \A j \in Logged :
              \/ \E b \in Batches : {i, j} \subseteq ToSet(b)
              \/ packet[j] # 0 /\ (closed[j] \/ waiver[j] = packet[j])
              \/ j \in resealed]_trialVars

=============================================================================
