------------------------ MODULE LadderRestartProofs ------------------------
(***************************************************************************)
(* The properties of LadderRestart for every set of equities, every        *)
(* threshold, cooldown and bound.                                          *)
(***************************************************************************)
EXTENDS LadderRestart, TLAPS

-----------------------------------------------------------------------------
(* The inductive invariant                                                 *)

Live(l) == l.state # "FLAT_HALTED"

\* The history of the single process is the run of update over the marks.
LivedInv ==
    /\ lived[1] = Pristine
    /\ \A k \in 1 .. Len(marks) : lived[k + 1] = update(lived[k], marks[k])

\* While no halt intervenes the high-water mark only rises.
MarkRises ==
    \A k, m \in 1 .. Len(lived) :
        k <= m /\ (\A i \in k .. m : Live(lived[i])) => lived[k].hwm <= lived[m].hwm

\* As far as the replayed rows are the marks, the ladder is the lived one.
ReplayInv ==
    phase \in {"replay", "decide"} /\ replayed <= Len(marks)
        /\ (\A i \in 1 .. replayed : curve[i] = marks[i])
            => ladder = lived[replayed + 1]

TripIn(f, j) == \E p \in 1 .. j : Breaches(f[p], f[j], Flat)

\* A live ladder fed f covers every element since a served halt (or since the
\* start); a halted one tripped halt_bars elements ago.
Earned(l, f) ==
    /\ Live(l) =>
         /\ \E a \in 1 .. Len(f) + 1 :
              /\ \A i \in a .. Len(f) : f[i] <= l.hwm
              /\ a = 1 \/ \E j \in 1 .. Len(f) - Cooldown : a = j + Cooldown /\ TripIn(f, j)
         /\ f # <<>> => \E p \in 1 .. Len(f) : f[p] = l.hwm
         /\ f = <<>> => l.hwm = 0
    /\ ~Live(l) => /\ Len(f) - l.halt_bars \in 1 .. Len(f)
                   /\ TripIn(f, Len(f) - l.halt_bars)

EarnedInv ==
    /\ phase \in {"replay", "decide"} => Earned(ladder, SubSeq(curve, 1, replayed))
    /\ phase = "sized" =>
         /\ marks # <<>>
         /\ Earned(ladder, Fed)
         /\ ladder.last_equity = Last(marks)

RestartInv ==
    /\ LadderTypeOK
    /\ TierFitsDrawdown
    /\ LivedInv
    /\ MarkRises
    /\ NoFlapping
    /\ ReplayInv
    /\ EarnedInv

-----------------------------------------------------------------------------
(* Thresholds                                                              *)

LEMMA EquityFacts ==
    ASSUME NEW e \in Equities
    PROVE  e \in Nat /\ e > 0
BY LadderAssumption

\* At its own mark an equity breaches nothing and releases.
LEMMA NoDrawdownAtTheMark ==
    ASSUME NEW h \in Nat, h > 0
    PROVE  ~Breaches(h, h, Half) /\ ~Breaches(h, h, Flat) /\ Releases(h, h)
<1>1. Half * h > 0 /\ Flat * h > 0 BY LadderAssumption
<1>2. (h - h) * Scale = 0 /\ 4 * Scale * (h - h) = 0 BY LadderAssumption
<1>3. 3 * Half * h = 3 * (Half * h) /\ Half * h \in Nat BY LadderAssumption
<1> QED BY <1>1, <1>2, <1>3, LadderAssumption DEF Breaches, Releases

\* Between release and trigger lies a gap.
LEMMA ReleaseIsBelowTrigger ==
    ASSUME NEW h \in Nat, h > 0, NEW e \in Nat
    PROVE  ~(Breaches(h, e, Half) /\ Releases(h, e))
<1> DEFINE d == (h - e) * Scale
           t == Half * h
<1>1. d \in Int /\ t \in Nat /\ t > 0 BY LadderAssumption
<1>2. 4 * Scale * (h - e) = 4 * d /\ 3 * Half * h = 3 * t BY LadderAssumption
<1>3. Breaches(h, e, Half) => d >= t BY DEF Breaches
<1>4. Releases(h, e) => 4 * d < 3 * t BY <1>2 DEF Releases
<1> HIDE DEF d, t
<1> QED BY <1>1, <1>3, <1>4

\* A breach under a mark is a breach under every higher one.
LEMMA BreachUnderHigherMark ==
    ASSUME NEW h \in Nat, NEW g \in Nat, NEW e \in Nat, h <= g, Breaches(h, e, Half)
    PROVE  Breaches(g, e, Half)
<1>1. (g - e) * Scale = (h - e) * Scale + (g - h) * Scale BY LadderAssumption
<1>2. Half * g = Half * h + Half * (g - h) BY LadderAssumption
<1>3. (g - h) * Scale >= Half * (g - h)
  <2>1. (g - h) * Scale - Half * (g - h) = (g - h) * (Scale - Half) BY LadderAssumption
  <2>2. (g - h) * (Scale - Half) >= 0 BY LadderAssumption
  <2>3. (g - h) * Scale \in Int /\ Half * (g - h) \in Int BY LadderAssumption
  <2> QED BY <2>1, <2>2, <2>3
<1>4. (h - e) * Scale >= Half * h BY DEF Breaches
<1>5. /\ (g - h) * Scale \in Int /\ Half * (g - h) \in Int
      /\ (h - e) * Scale \in Int /\ Half * h \in Int
  BY LadderAssumption
<1> QED BY <1>1, <1>2, <1>3, <1>4, <1>5 DEF Breaches

-----------------------------------------------------------------------------
(* One update                                                              *)

\* What an update of a live ladder returns.
LEMMA LiveUpdate ==
    ASSUME NEW l \in Ladder, NEW e \in Equities, Live(l)
    PROVE  /\ update(l, e) \in Ladder
           /\ update(l, e).last_equity = e
           /\ update(l, e).halt_bars = 0
           /\ update(l, e).hwm \in Nat \ {0}
           /\ e <= update(l, e).hwm
           /\ l.hwm <= update(l, e).hwm
           /\ update(l, e).hwm = l.hwm \/ update(l, e).hwm = e
           /\ update(l, e).state = NextState(l.state, update(l, e).hwm, e)
<1> DEFINE h == IF e > l.hwm THEN e ELSE l.hwm
<1>0. l.hwm \in Equities \cup {0} BY DEF Ladder
<1>1. l.hwm \in Nat /\ l.hwm \in Equities \cup {0} BY <1>0, EquityFacts
<1>2. e \in Nat /\ e > 0 BY EquityFacts
<1>3. /\ h \in Equities /\ h \in Nat \ {0} /\ e <= h /\ l.hwm <= h
      /\ h = l.hwm \/ h = e
  BY <1>1, <1>2
<1>4. update(l, e) =
        [state |-> NextState(l.state, h, e), hwm |-> h, last_equity |-> e, halt_bars |-> 0]
  BY DEF update, MarkLive, Live
<1>5. NextState(l.state, h, e) \in DDState BY DEF NextState, DDState
<1>6. 0 \in 0 .. Cooldown - 1 BY LadderAssumption
<1> HIDE DEF h
<1> QED BY <1>2, <1>3, <1>4, <1>5, <1>6 DEF Ladder

\* What an update of a halted ladder returns.
LEMMA HaltedUpdate ==
    ASSUME NEW l \in Ladder, NEW e \in Equities, ~Live(l)
    PROVE  /\ update(l, e) \in Ladder
           /\ update(l, e).last_equity = e
           /\ l.halt_bars + 1 = Cooldown => update(l, e) = Rearmed(e)
           /\ l.halt_bars + 1 # Cooldown =>
                /\ update(l, e).state = "FLAT_HALTED"
                /\ update(l, e).halt_bars = l.halt_bars + 1
<1>1. Cooldown \in Nat \ {0} BY LadderAssumption
<1>2. l.halt_bars \in 0 .. Cooldown - 1 /\ l.state = "FLAT_HALTED" BY DEF Ladder, Live
<1>3. update(l, e) = Wait(l, e) BY <1>2 DEF update
<1>4. CASE l.halt_bars + 1 = Cooldown
  <2>1. update(l, e) = Rearmed(e) BY <1>1, <1>2, <1>3, <1>4 DEF Wait
  <2> QED BY <2>1, <1>1, <1>4 DEF Rearmed, Ladder, DDState
<1>5. CASE l.halt_bars + 1 # Cooldown
  <2>1. update(l, e) = [l EXCEPT !.halt_bars = @ + 1, !.last_equity = e]
    BY <1>1, <1>2, <1>3, <1>5 DEF Wait
  <2>2. l.halt_bars + 1 \in 0 .. Cooldown - 1 BY <1>1, <1>2, <1>5
  <2> QED BY <2>1, <2>2, <1>2, <1>5 DEF Ladder
<1> QED BY <1>4, <1>5

LEMMA UpdateType ==
    ASSUME NEW l \in Ladder, NEW e \in Equities
    PROVE  update(l, e) \in Ladder /\ update(l, e).last_equity = e
BY LiveUpdate, HaltedUpdate

\* The tier that an update returns fits the equity it was given.
LEMMA UpdateFits ==
    ASSUME NEW l \in Ladder, NEW e \in Equities, FitsDrawdown(l)
    PROVE  FitsDrawdown(update(l, e))
<1>1. e \in Nat /\ e > 0 BY EquityFacts
<1>2. CASE Live(l)
  <2> DEFINE u == update(l, e)
  <2>1. /\ u.last_equity = e /\ u.halt_bars = 0
        /\ u.hwm \in Nat /\ u.hwm > 0 /\ e <= u.hwm
        /\ u.state = NextState(l.state, u.hwm, e)
    BY <1>2, LiveUpdate
  <2>2. ~(Breaches(u.hwm, e, Half) /\ Releases(u.hwm, e))
    BY <1>1, <2>1, ReleaseIsBelowTrigger
  <2> HIDE DEF u
  <2>3. u.state = "NORMAL" => ~Breaches(u.hwm, e, Half)
    BY <2>1, <2>2 DEF NextState
  <2>4. u.state = "HALF_GROSS" => ~Releases(u.hwm, e) /\ ~Breaches(u.hwm, e, Flat)
    BY <2>1, <2>2 DEF NextState
  <2>5. FitsDrawdown(u) BY <2>1, <2>3, <2>4 DEF FitsDrawdown
  <2> QED BY <2>5 DEF u
<1>3. CASE ~Live(l) /\ l.halt_bars + 1 = Cooldown
  <2>1. update(l, e) = Rearmed(e) BY <1>3, HaltedUpdate
  <2> QED BY <2>1, <1>1, NoDrawdownAtTheMark DEF FitsDrawdown, Rearmed
<1>4. CASE ~Live(l) /\ l.halt_bars + 1 # Cooldown
  <2>1. update(l, e).state = "FLAT_HALTED" BY <1>4, HaltedUpdate
  <2> QED BY <2>1 DEF FitsDrawdown
<1> QED BY <1>2, <1>3, <1>4

\* Leaving the half tier regains a quarter of the trigger that entered it.
LEMMA ReleaseRegains ==
    ASSUME NEW h \in Nat, NEW e \in Nat, Breaches(h, e, Half),
           NEW g \in Nat, NEW r \in Nat, h <= g, g > 0, h > 0, Releases(g, r)
    PROVE  4 * Scale * (r - e) > Half * h
<1> DEFINE d == (h - e) * Scale
           c == (g - r) * Scale
           w == (g - h) * Scale
           x == Half * h
           y == Half * (g - h)
           z == (r - e) * Scale
<1>1. d \in Int /\ c \in Int /\ w \in Int /\ x \in Int /\ y \in Int /\ z \in Int
  BY LadderAssumption
<1>2. d >= x BY DEF Breaches
<1>3. 4 * c < 3 * (x + y)
  <2>1. Half * g = x + y BY LadderAssumption
  <2>2. 4 * Scale * (g - r) = 4 * c /\ 3 * Half * g = 3 * (Half * g) BY LadderAssumption
  <2> QED BY <2>1, <2>2 DEF Releases
<1>4. w - y = (g - h) * (Scale - Half) BY LadderAssumption
<1>5. (g - h) * (Scale - Half) >= 0 /\ y >= 0 BY LadderAssumption
<1>6. z = w + d - c BY LadderAssumption
<1>7. 4 * Scale * (r - e) = 4 * z BY LadderAssumption
<1> HIDE DEF d, c, w, x, y, z
<1>8. w >= y BY <1>1, <1>4, <1>5
<1>9. 4 * z > x BY <1>1, <1>2, <1>3, <1>5, <1>6, <1>8
<1> QED BY <1>7, <1>9 DEF x

\* A feed stays covered, or tripped, when one more equity is fed.
LEMMA UpdateEarns ==
    ASSUME NEW l \in Ladder, NEW f \in Seq(Equities), NEW e \in Equities, Earned(l, f)
    PROVE  Earned(update(l, e), Append(f, e))
<1> DEFINE u == update(l, e)
           g == Append(f, e)
           n == Len(f)
<1>1. /\ n \in Nat /\ g \in Seq(Equities) /\ Len(g) = n + 1 /\ g[n + 1] = e
      /\ \A i \in 1 .. n : g[i] = f[i]
      /\ \A i \in 1 .. n : f[i] \in Equities
      /\ g # <<>>
  OBVIOUS
<1>2. /\ \A x \in Equities : x \in Nat /\ x > 0
      /\ Cooldown \in Nat \ {0}
  BY LadderAssumption
<1>3. ASSUME NEW j \in 1 .. n, TripIn(f, j)
      PROVE  TripIn(g, j)
  BY <1>1, <1>3 DEF TripIn
<1>4. CASE Live(l)
  <2>1. /\ u.halt_bars = 0
        /\ u.hwm \in Nat \ {0} /\ e <= u.hwm /\ l.hwm <= u.hwm
        /\ u.hwm = l.hwm \/ u.hwm = e
        /\ u.state = NextState(l.state, u.hwm, e)
    BY <1>4, LiveUpdate
  <2>0. l.hwm \in Nat
    <3>1. l.hwm \in Equities \cup {0} BY DEF Ladder
    <3> QED BY <3>1, <1>2
  <2>2. PICK p \in 1 .. Len(g) : g[p] = u.hwm
    <3>1. CASE u.hwm = e BY <3>1, <1>1
    <3>2. CASE u.hwm = l.hwm /\ f # <<>>
      <4>1. PICK q \in 1 .. n : f[q] = l.hwm BY <1>4, <3>2 DEF Earned
      <4> QED BY <4>1, <3>2, <1>1
    <3>3. CASE u.hwm = l.hwm /\ f = <<>>
      <4>1. l.hwm = 0 BY <1>4, <3>3 DEF Earned
      <4> QED BY <4>1, <3>3, <2>1
    <3> QED BY <3>1, <3>2, <3>3, <2>1
  <2>3. CASE Live(u)
    <3>1. PICK a \in 1 .. n + 1 :
            /\ \A i \in a .. n : f[i] <= l.hwm
            /\ a = 1 \/ \E j \in 1 .. n - Cooldown : a = j + Cooldown /\ TripIn(f, j)
      BY <1>4 DEF Earned
    <3>2. ASSUME NEW i \in a .. Len(g)
          PROVE  g[i] <= u.hwm
      <4>1. CASE i = n + 1 BY <4>1, <1>1, <2>1
      <4>2. CASE i \in a .. n
        <5>1. f[i] <= l.hwm /\ g[i] = f[i] /\ f[i] \in Nat BY <4>2, <3>1, <1>1, <1>2
        <5> QED BY <5>1, <2>1, <2>0
      <4> QED BY <4>1, <4>2, <1>1, <3>1
    <3>3. a = 1 \/ \E j \in 1 .. Len(g) - Cooldown : a = j + Cooldown /\ TripIn(g, j)
      <4>1. CASE a = 1 BY <4>1
      <4>2. CASE \E j \in 1 .. n - Cooldown : a = j + Cooldown /\ TripIn(f, j)
        <5>1. PICK j \in 1 .. n - Cooldown : a = j + Cooldown /\ TripIn(f, j) BY <4>2
        <5>2. j \in 1 .. n /\ j \in 1 .. Len(g) - Cooldown BY <5>1, <1>1, <1>2
        <5> QED BY <5>1, <5>2, <1>3
      <4> QED BY <4>1, <4>2, <3>1
    <3>4. a \in 1 .. Len(g) + 1 BY <3>1, <1>1
    <3> HIDE DEF u, g
    <3>9. Earned(u, g) BY <2>2, <2>3, <3>2, <3>3, <3>4, <1>1 DEF Earned
    <3> QED BY <3>9 DEF u, g
  <2>4. CASE ~Live(u)
    <3>1. Breaches(u.hwm, e, Flat) BY <2>1, <2>4 DEF NextState, Live
    <3>2. TripIn(g, n + 1) BY <3>1, <2>2, <1>1 DEF TripIn
    <3>3. Len(g) - u.halt_bars = n + 1 BY <2>1, <1>1
    <3>4. Len(g) - u.halt_bars \in 1 .. Len(g) BY <3>3, <1>1
    <3> HIDE DEF u, g
    <3>9. Earned(u, g) BY <2>4, <3>2, <3>3, <3>4 DEF Earned
    <3> QED BY <3>9 DEF u, g
  <2> QED BY <2>3, <2>4
<1>5. CASE ~Live(l)
  <2>1. n - l.halt_bars \in 1 .. n /\ TripIn(f, n - l.halt_bars) BY <1>5 DEF Earned
  <2>2. l.halt_bars \in 0 .. Cooldown - 1 BY DEF Ladder
  <2>3. TripIn(g, n - l.halt_bars) BY <2>1, <1>3
  <2>4. CASE l.halt_bars + 1 = Cooldown
    <3>1. u = Rearmed(e) BY <2>4, <1>5, HaltedUpdate
    <3>2. u.hwm = e /\ Live(u) BY <3>1 DEF Rearmed, Live
    <3>0. l.halt_bars = Cooldown - 1 /\ Len(g) - Cooldown = n - l.halt_bars
      BY <2>2, <2>4, <1>1, <1>2
    <3>3. /\ n - l.halt_bars \in 1 .. Len(g) - Cooldown
          /\ n + 1 = (n - l.halt_bars) + Cooldown
      BY <3>0, <2>1, <1>1, <1>2
    <3>4. \A i \in n + 1 .. Len(g) : g[i] <= u.hwm BY <3>2, <1>1, <1>2
    <3>5. n + 1 \in 1 .. Len(g) + 1 /\ n + 1 \in 1 .. Len(g) BY <1>1
    <3>6. g[n + 1] = u.hwm BY <3>2, <1>1
    <3>7. \E a \in 1 .. Len(g) + 1 :
            /\ \A i \in a .. Len(g) : g[i] <= u.hwm
            /\ a = 1 \/ \E j \in 1 .. Len(g) - Cooldown : a = j + Cooldown /\ TripIn(g, j)
      BY <3>3, <3>4, <3>5, <2>3
    <3> HIDE DEF u, g
    <3>9. Earned(u, g) BY <3>2, <3>5, <3>6, <3>7, <1>1 DEF Earned
    <3> QED BY <3>9 DEF u, g
  <2>5. CASE l.halt_bars + 1 # Cooldown
    <3>1. ~Live(u) /\ u.halt_bars = l.halt_bars + 1 BY <2>5, <1>5, HaltedUpdate DEF Live
    <3>2. Len(g) - u.halt_bars = n - l.halt_bars BY <3>1, <2>2, <1>1
    <3>3. Len(g) - u.halt_bars \in 1 .. Len(g) BY <3>2, <2>1, <2>2, <1>1
    <3> HIDE DEF u, g
    <3>9. Earned(u, g) BY <3>1, <3>2, <3>3, <2>3 DEF Earned
    <3> QED BY <3>9 DEF u, g
  <2> QED BY <2>4, <2>5
<1> QED BY <1>4, <1>5

-----------------------------------------------------------------------------
(* The steps                                                               *)

LEMMA PristineFits == Pristine \in Ladder /\ FitsDrawdown(Pristine) /\ Live(Pristine)
<1>1. 0 \in 0 .. Cooldown - 1 BY LadderAssumption
<1> QED BY <1>1 DEF Pristine, Ladder, DDState, FitsDrawdown, Live

LEMMA Initially == LadderInit => RestartInv
<1> SUFFICES ASSUME LadderInit PROVE RestartInv
  OBVIOUS
<1>1. /\ Len(lived) = 1 /\ lived[1] = Pristine /\ lived \in Seq(Ladder)
      /\ Len(marks) = 0 /\ Len(curve) = 0
      /\ curve \in Seq(Equities) /\ marks \in Seq(Equities)
  BY PristineFits DEF LadderInit
<1>2. LadderTypeOK
  BY <1>1, PristineFits, RestartAssumption DEF LadderInit, LadderTypeOK, Phases
<1>3. TierFitsDrawdown BY <1>1, PristineFits DEF LadderInit, TierFitsDrawdown
<1>4. LivedInv BY <1>1 DEF LivedInv
<1>5. MarkRises BY <1>1 DEF MarkRises, Pristine
<1>6. NoFlapping BY <1>1 DEF NoFlapping
<1>7. ReplayInv /\ EarnedInv BY DEF LadderInit, ReplayInv, EarnedInv
<1> QED BY <1>2, <1>3, <1>4, <1>5, <1>6, <1>7 DEF RestartInv

\* A mark prolongs both histories by one.
LEMMA MarkProlongs ==
    ASSUME RestartInv, NEW e \in Equities,
           ladder' = update(ladder, e),
           marks' = Append(marks, e),
           lived' = Append(lived, update(Last(lived), e))
    PROVE  /\ Len(lived) \in Nat /\ Len(lived) > 0 /\ Len(lived) = Len(marks) + 1
           /\ Len(marks') = Len(marks) + 1 /\ marks' \in Seq(Equities)
           /\ Len(lived') = Len(lived) + 1 /\ lived' \in Seq(Ladder)
           /\ \A k \in 1 .. Len(marks) : marks'[k] = marks[k]
           /\ \A k \in 1 .. Len(lived) : lived'[k] = lived[k] /\ lived[k] \in Ladder
           /\ marks'[Len(marks')] = e
           /\ lived'[Len(lived')] = update(lived[Len(lived)], e)
           /\ Last(marks') = e
<1>1. /\ lived \in Seq(Ladder) /\ marks \in Seq(Equities)
      /\ Len(lived) = Len(marks) + 1
  BY DEF RestartInv, LadderTypeOK
<1>2. Len(lived) \in Nat /\ Len(lived) > 0 /\ Len(marks) \in Nat BY <1>1
<1>3. Last(lived) = lived[Len(lived)] BY DEF Last
<1>4. lived[Len(lived)] \in Ladder BY <1>1, <1>2
<1>5. update(Last(lived), e) \in Ladder BY <1>3, <1>4, UpdateType
<1>6. marks' \in Seq(Equities) /\ Len(marks') = Len(marks) + 1 /\ marks'[Len(marks')] = e
  BY <1>1
<1> QED BY <1>1, <1>2, <1>3, <1>5, <1>6 DEF Last

\* The row of a cycle lengthens the curve by one.
LEMMA CycleRowFacts ==
    ASSUME curve \in Seq(Equities), late \in 0 .. Len(curve), NEW e \in Equities
    PROVE  CycleRow(e) \in Seq(Equities) /\ Len(CycleRow(e)) = Len(curve) + 1
<1> DEFINE n == Len(curve) - late
           s == SubSeq(curve, 1, n)
           u == SubSeq(curve, n + 1, Len(curve))
<1>1. n \in Nat /\ n <= Len(curve) OBVIOUS
<1>2. s \in Seq(Equities) /\ Len(s) = n BY <1>1
<1>3. u \in Seq(Equities) /\ Len(u) = late BY <1>1
<1>4. s \o <<e>> \in Seq(Equities) /\ Len(s \o <<e>>) = n + 1
  <2> HIDE DEF s, u, n
  <2> QED BY <1>1, <1>2
<1>5. (s \o <<e>>) \o u \in Seq(Equities) /\ Len((s \o <<e>>) \o u) = (n + 1) + late
  <2> HIDE DEF s, u, n
  <2> QED BY <1>1, <1>3, <1>4
<1>6. CycleRow(e) = (s \o <<e>>) \o u BY DEF CycleRow
<1> HIDE DEF s, u
<1> QED BY <1>1, <1>5, <1>6

LEMMA TypeStep == RestartInv /\ [LadderNext]_ladderVars => LadderTypeOK'
<1> SUFFICES ASSUME RestartInv, [LadderNext]_ladderVars PROVE LadderTypeOK'
  OBVIOUS
<1> USE DEF LadderTypeOK, Phases
<1>0. LadderTypeOK BY DEF RestartInv
<1>1. CASE BootLadder BY <1>0, <1>1, PristineFits DEF BootLadder
<1>2. CASE ReplayRow
  <2>1. curve[replayed + 1] \in Equities BY <1>0, <1>2 DEF ReplayRow
  <2>2. ladder' \in Ladder BY <1>0, <1>2, <2>1, UpdateType DEF ReplayRow
  <2> QED BY <1>0, <1>2, <2>2 DEF ReplayRow
<1>3. CASE RestoreDone BY <1>0, <1>3 DEF RestoreDone
<1>4. CASE SyncRow
  <2>1. PICK e \in Equities : curve' = Append(curve, e) BY <1>4 DEF SyncRow
  <2>2. curve' \in Seq(Equities) /\ Len(curve') = Len(curve) + 1 BY <1>0, <2>1
  <2> QED BY <1>0, <1>4, <2>2, RestartAssumption DEF SyncRow
<1>5. CASE Mark
  <2>1. PICK e \in Equities : /\ ladder' = update(ladder, e)
                              /\ marks' = Append(marks, e)
                              /\ lived' = Append(lived, update(Last(lived), e))
    BY <1>5 DEF Mark
  <2>2. ladder' \in Ladder BY <1>0, <2>1, UpdateType
  <2> QED BY <1>0, <1>5, <2>1, <2>2, MarkProlongs DEF Mark
<1>6. CASE RecordRow
  <2>1. PICK e \in Equities : curve' = CycleRow(e) BY <1>6 DEF RecordRow
  <2>2. CycleRow(e) \in Seq(Equities) /\ Len(CycleRow(e)) = Len(curve) + 1
    BY <1>0, CycleRowFacts
  <2>3. curve' \in Seq(Equities) /\ Len(curve') = Len(curve) + 1 BY <2>1, <2>2
  <2> QED BY <1>0, <1>6, <2>3 DEF RecordRow
<1>7. CASE LoseRow BY <1>0, <1>7 DEF LoseRow
<1>8. CASE UNCHANGED ladderVars BY <1>0, <1>8 DEF ladderVars
<1> QED BY <1>1, <1>2, <1>3, <1>4, <1>5, <1>6, <1>7, <1>8 DEF LadderNext

\* The histories of a mark keep what they show of the tiers and the mark.
LEMMA HistoryStep ==
    ASSUME RestartInv, NEW e \in Equities,
           ladder' = update(ladder, e),
           marks' = Append(marks, e),
           lived' = Append(lived, update(Last(lived), e))
    PROVE  /\ \A k \in 1 .. Len(lived') : FitsDrawdown(lived'[k])
           /\ LivedInv' /\ MarkRises' /\ NoFlapping'
<1> DEFINE n == Len(lived)
           u == lived'[n + 1]
<1>1. /\ n \in Nat /\ n > 0 /\ n = Len(marks) + 1
      /\ Len(marks') = n
      /\ Len(lived') = n + 1 /\ lived' \in Seq(Ladder)
      /\ \A k \in 1 .. Len(marks) : marks'[k] = marks[k]
      /\ \A k \in 1 .. n : lived'[k] = lived[k] /\ lived[k] \in Ladder
      /\ marks'[n] = e
      /\ u = update(lived[n], e)
  BY MarkProlongs
<1>2. n \in 1 .. n /\ lived[n] \in Ladder BY <1>1
<1>3. e \in Nat /\ e > 0 BY EquityFacts
<1>4. TierFitsDrawdown /\ LivedInv /\ MarkRises /\ NoFlapping BY DEF RestartInv
<1>5. Live(lived[n]) =>
        /\ u.last_equity = e
        /\ u.hwm \in Nat \ {0} /\ e <= u.hwm /\ lived[n].hwm <= u.hwm
        /\ u.state = NextState(lived[n].state, u.hwm, e)
  BY <1>1, <1>2, LiveUpdate
<1>6. \A k \in 1 .. n : lived[k].hwm \in Nat /\ lived[k].last_equity \in Nat
  <2>1. \A k \in 1 .. n : /\ lived[k].hwm \in Equities \cup {0}
                          /\ lived[k].last_equity \in Equities \cup {0}
    BY <1>1 DEF Ladder
  <2> QED BY <2>1, EquityFacts
<1> HIDE DEF n, u
<1>7. \A k \in 1 .. Len(lived') : FitsDrawdown(lived'[k])
  <2>1. FitsDrawdown(lived[n]) BY <1>2, <1>4 DEF TierFitsDrawdown, n
  <2>2. FitsDrawdown(u) BY <2>1, <1>1, <1>2, UpdateFits
  <2>3. \A k \in 1 .. n : FitsDrawdown(lived'[k]) BY <1>1, <1>4 DEF TierFitsDrawdown, n
  <2>4. FitsDrawdown(lived'[n + 1]) BY <2>2 DEF u
  <2> QED BY <2>3, <2>4, <1>1
<1>8. LivedInv'
  <2>1. lived'[1] = Pristine BY <1>1, <1>2, <1>4 DEF LivedInv
  <2>2. ASSUME NEW k \in 1 .. Len(marks')
        PROVE  lived'[k + 1] = update(lived'[k], marks'[k])
    <3>1. CASE k \in 1 .. Len(marks) BY <3>1, <1>1, <1>4 DEF LivedInv
    <3>2. CASE k = n BY <3>2, <1>1, <1>2 DEF u
    <3> QED BY <3>1, <3>2, <1>1
  <2> QED BY <2>1, <2>2 DEF LivedInv
<1>9. MarkRises'
  <2>1. SUFFICES ASSUME NEW k \in 1 .. n + 1, NEW m \in 1 .. n + 1, k <= m,
                        \A i \in k .. m : Live(lived'[i])
                 PROVE  lived'[k].hwm <= lived'[m].hwm
    BY <1>1 DEF MarkRises
  <2>2. CASE m \in 1 .. n
    <3>1. k \in 1 .. n /\ \A i \in k .. m : i \in 1 .. n BY <2>1, <2>2, <1>1
    <3>2. \A i \in k .. m : Live(lived[i]) BY <2>1, <3>1, <1>1
    <3>3. lived[k].hwm <= lived[m].hwm BY <2>1, <2>2, <3>1, <3>2, <1>4 DEF MarkRises, n
    <3> QED BY <3>1, <3>3, <2>2, <1>1
  <2>3. CASE m = n + 1 /\ k \in 1 .. n
    <3>1. \A i \in k .. n : i \in k .. m /\ i \in 1 .. n BY <2>3, <1>1
    <3>2. \A i \in k .. n : Live(lived[i]) BY <2>1, <3>1, <1>1
    <3>3. lived[k].hwm <= lived[n].hwm BY <2>3, <3>2, <1>2, <1>4, <1>1 DEF MarkRises, n
    <3>4. Live(lived[n]) BY <3>2, <2>3, <1>1
    <3>5. lived[n].hwm <= u.hwm /\ u.hwm \in Nat BY <3>4, <1>5
    <3>6. lived'[m] = u BY <2>3 DEF u
    <3>7. lived'[k] = lived[k] /\ lived[k].hwm \in Nat /\ lived[n].hwm \in Nat
      BY <2>3, <1>1, <1>2, <1>6
    <3> QED BY <3>3, <3>5, <3>6, <3>7
  <2>4. CASE m = n + 1 /\ k = n + 1
    <3>1. lived'[k] = u /\ lived'[m] = u BY <2>4 DEF u
    <3>2. u \in Ladder BY <1>1, <1>2, UpdateType
    <3>3. u.hwm \in Equities \cup {0} BY <3>2 DEF Ladder
    <3>4. u.hwm \in Nat BY <3>3, EquityFacts
    <3> QED BY <3>1, <3>4
  <2> QED BY <2>2, <2>3, <2>4, <1>1
<1>10. NoFlapping'
  <2>1. SUFFICES ASSUME NEW k \in 2 .. n + 1, NEW m \in 2 .. n + 1,
                        HalvedFrom(k, m)', lived'[m].state = "NORMAL"
                 PROVE  4 * Scale * (lived'[m].last_equity - lived'[k].last_equity)
                          > Half * lived'[k].hwm
    BY <1>1 DEF NoFlapping
  <2>2. /\ lived'[k - 1].state = "NORMAL"
        /\ k < m
        /\ \A i \in k .. m - 1 : lived'[i].state = "HALF_GROSS"
    BY <2>1 DEF HalvedFrom
  <2>3. /\ k \in 2 .. n /\ k \in 1 .. n /\ k - 1 \in 1 .. n
        /\ \A i \in k .. m - 1 : i \in 1 .. n
        /\ lived'[k] = lived[k] /\ lived'[k - 1] = lived[k - 1]
    BY <2>2, <1>1
  <2>4. CASE m \in 2 .. n
    <3>1. \A i \in k .. m - 1 : lived[i].state = "HALF_GROSS" BY <2>2, <2>3, <1>1
    <3>2. HalvedFrom(k, m) BY <3>1, <2>2, <2>3 DEF HalvedFrom
    <3>3. lived'[m] = lived[m] BY <2>4, <1>1
    <3> QED BY <3>2, <3>3, <2>1, <2>3, <2>4, <1>4 DEF NoFlapping, n
  <2>5. CASE m = n + 1
    <3>1. /\ \A i \in k .. n : i \in k .. m - 1 /\ i \in 1 .. n
          /\ n \in k .. n /\ k \in k .. n
      BY <2>5, <2>3, <1>1
    <3>2. \A i \in k .. n : lived[i].state = "HALF_GROSS" BY <3>1, <2>2, <1>1
    <3>3. \A i \in k .. n : Live(lived[i]) BY <3>2 DEF Live
    <3>4. lived[k].hwm <= lived[n].hwm
      BY <3>3, <2>3, <1>1, <1>2, <1>4 DEF MarkRises, n
    <3>5. /\ u.last_equity = e /\ u.hwm \in Nat \ {0} /\ lived[n].hwm <= u.hwm
          /\ u.state = NextState("HALF_GROSS", u.hwm, e)
      BY <3>1, <3>2, <3>3, <1>5
    <3>6. lived'[m] = u /\ u.state = "NORMAL" BY <2>1, <2>5 DEF u
    <3>7. Releases(u.hwm, e) BY <3>5, <3>6 DEF NextState
    <3>8. /\ Breaches(lived[k].hwm, lived[k].last_equity, Half)
          /\ lived[k].hwm \in Nat \ {0}
      <4>1. k - 1 \in 1 .. Len(marks) /\ (k - 1) + 1 = k BY <2>3, <1>1
      <4>2. lived[k] = update(lived[k - 1], marks[k - 1]) BY <4>1, <1>4 DEF LivedInv
      <4>3. marks[k - 1] \in Equities BY <4>1 DEF RestartInv, LadderTypeOK
      <4>4. lived[k - 1].state = "NORMAL" /\ lived[k - 1] \in Ladder BY <2>2, <2>3, <1>1
      <4>5. /\ lived[k].last_equity = marks[k - 1]
            /\ lived[k].hwm \in Nat \ {0}
            /\ lived[k].state = NextState("NORMAL", lived[k].hwm, marks[k - 1])
        BY <4>2, <4>3, <4>4, LiveUpdate DEF Live
      <4>6. lived[k].state = "HALF_GROSS" BY <3>1, <3>2
      <4> QED BY <4>5, <4>6 DEF NextState
    <3>9. lived[k].hwm <= u.hwm BY <3>4, <3>5, <1>6, <1>2, <2>3
    <3>10. 4 * Scale * (e - lived[k].last_equity) > Half * lived[k].hwm
      <4>1. /\ lived[k].hwm \in Nat /\ lived[k].hwm > 0
            /\ lived[k].last_equity \in Nat
            /\ u.hwm \in Nat /\ u.hwm > 0
        BY <3>5, <3>8, <1>6, <2>3
      <4> QED BY <4>1, <3>7, <3>8, <3>9, <1>3, ReleaseRegains
    <3> QED BY <3>5, <3>6, <3>10, <2>3
  <2> QED BY <2>4, <2>5, <1>1
<1> QED BY <1>7, <1>8, <1>9, <1>10

LEMMA HistoriesStep ==
    RestartInv /\ [LadderNext]_ladderVars =>
        TierFitsDrawdown' /\ LivedInv' /\ MarkRises' /\ NoFlapping'
<1> SUFFICES ASSUME RestartInv, [LadderNext]_ladderVars
             PROVE  TierFitsDrawdown' /\ LivedInv' /\ MarkRises' /\ NoFlapping'
  OBVIOUS
<1>0. LadderTypeOK /\ TierFitsDrawdown /\ LivedInv /\ MarkRises /\ NoFlapping
  BY DEF RestartInv
<1>1. CASE Mark
  <2>1. PICK e \in Equities : /\ ladder' = update(ladder, e)
                              /\ marks' = Append(marks, e)
                              /\ lived' = Append(lived, update(Last(lived), e))
    BY <1>1 DEF Mark
  <2>2. FitsDrawdown(ladder')
    BY <1>0, <2>1, UpdateFits DEF LadderTypeOK, TierFitsDrawdown
  <2>3. /\ \A k \in 1 .. Len(lived') : FitsDrawdown(lived'[k])
        /\ LivedInv' /\ MarkRises' /\ NoFlapping'
    BY <2>1, HistoryStep
  <2> QED BY <2>2, <2>3 DEF TierFitsDrawdown
<1>2. CASE UNCHANGED <<marks, lived>>
  <2>1. LivedInv' /\ MarkRises' /\ NoFlapping'
    BY <1>0, <1>2 DEF LivedInv, MarkRises, NoFlapping, HalvedFrom
  <2>2. FitsDrawdown(ladder')
    <3>1. CASE ReplayRow
      <4>1. curve[replayed + 1] \in Equities BY <1>0, <3>1 DEF ReplayRow, LadderTypeOK
      <4> QED BY <1>0, <3>1, <4>1, UpdateFits DEF ReplayRow, LadderTypeOK, TierFitsDrawdown
    <3>2. CASE BootLadder BY <3>2, PristineFits DEF BootLadder
    <3>3. CASE Mark
      <4>1. PICK e \in Equities : ladder' = update(ladder, e) BY <3>3 DEF Mark
      <4> QED BY <1>0, <4>1, UpdateFits DEF LadderTypeOK, TierFitsDrawdown
    <3>4. CASE UNCHANGED ladder BY <1>0, <3>4 DEF TierFitsDrawdown
    <3> QED BY <3>1, <3>2, <3>3, <3>4
         DEF LadderNext, RestoreDone, SyncRow, RecordRow, LoseRow, ladderVars
  <2>3. \A k \in 1 .. Len(lived') : FitsDrawdown(lived'[k])
    BY <1>0, <1>2 DEF TierFitsDrawdown
  <2> QED BY <2>1, <2>2, <2>3 DEF TierFitsDrawdown
<1> QED BY <1>1, <1>2
     DEF LadderNext, BootLadder, ReplayRow, RestoreDone, SyncRow, RecordRow, LoseRow, ladderVars

LEMMA ReplayStep == RestartInv /\ [LadderNext]_ladderVars => ReplayInv'
<1> SUFFICES ASSUME RestartInv, [LadderNext]_ladderVars PROVE ReplayInv'
  OBVIOUS
<1>0. LadderTypeOK /\ LivedInv /\ ReplayInv BY DEF RestartInv
<1>1. CASE BootLadder
  BY <1>0, <1>1 DEF BootLadder, ReplayInv, LivedInv, LadderTypeOK
<1>2. CASE ReplayRow
  <2>1. SUFFICES ASSUME replayed' <= Len(marks),
                        \A i \in 1 .. replayed' : curve[i] = marks[i]
                 PROVE  ladder' = lived[replayed' + 1]
    BY <1>2 DEF ReplayRow, ReplayInv
  <2>2. /\ replayed \in Nat /\ replayed' = replayed + 1
        /\ ladder' = update(ladder, curve[replayed + 1])
        /\ Len(marks) \in Nat
    BY <1>0, <1>2 DEF ReplayRow, LadderTypeOK
  <2>3. ladder = lived[replayed + 1] BY <1>0, <1>2, <2>1, <2>2 DEF ReplayRow, ReplayInv
  <2>4. replayed + 1 \in 1 .. replayed' /\ replayed + 1 \in 1 .. Len(marks) BY <2>1, <2>2
  <2>5. lived[(replayed + 1) + 1] = update(lived[replayed + 1], marks[replayed + 1])
    BY <1>0, <2>4 DEF LivedInv
  <2> QED BY <2>1, <2>2, <2>3, <2>4, <2>5
<1>3. CASE RestoreDone BY <1>0, <1>3 DEF RestoreDone, ReplayInv
<1>4. CASE SyncRow
  <2>1. PICK e \in Equities : curve' = Append(curve, e) BY <1>4 DEF SyncRow
  <2>2. \A i \in 1 .. replayed : curve'[i] = curve[i] BY <1>0, <2>1 DEF LadderTypeOK
  <2> QED BY <1>0, <1>4, <2>2 DEF SyncRow, ReplayInv
<1>5. CASE Mark BY <1>5 DEF Mark, ReplayInv
<1>6. CASE RecordRow BY <1>6 DEF RecordRow, ReplayInv
<1>7. CASE LoseRow BY <1>7 DEF LoseRow, ReplayInv
<1>8. CASE UNCHANGED ladderVars BY <1>0, <1>8 DEF ladderVars, ReplayInv
<1> QED BY <1>1, <1>2, <1>3, <1>4, <1>5, <1>6, <1>7, <1>8 DEF LadderNext

LEMMA PrefixFacts ==
    ASSUME NEW s \in Seq(Equities), NEW n \in 0 .. Len(s)
    PROVE  /\ SubSeq(s, 1, n) \in Seq(Equities)
           /\ SubSeq(s, 1, 0) = <<>>
           /\ n < Len(s) => SubSeq(s, 1, n + 1) = Append(SubSeq(s, 1, n), s[n + 1])
           /\ \A e \in Equities : SubSeq(Append(s, e), 1, n) = SubSeq(s, 1, n)
OBVIOUS

LEMMA EarnedStep == RestartInv /\ [LadderNext]_ladderVars => EarnedInv'
<1> SUFFICES ASSUME RestartInv, [LadderNext]_ladderVars PROVE EarnedInv'
  OBVIOUS
<1>0. LadderTypeOK /\ EarnedInv BY DEF RestartInv
<1> DEFINE f == SubSeq(curve, 1, replayed)
<1>1. /\ curve \in Seq(Equities) /\ replayed \in 0 .. Len(curve) /\ ladder \in Ladder
      /\ f \in Seq(Equities)
  BY <1>0, PrefixFacts DEF LadderTypeOK
<1>2. CASE BootLadder
  <2>1. SubSeq(curve, 1, 0) = <<>> BY <1>1, PrefixFacts
  <2>2. Earned(Pristine, <<>>) BY DEF Earned, Pristine, Live
  <2>3. Earned(ladder, SubSeq(curve, 1, replayed))' BY <1>2, <2>1, <2>2 DEF BootLadder
  <2> QED BY <1>2, <2>3 DEF BootLadder, EarnedInv
<1>3. CASE ReplayRow
  <2>1. Earned(ladder, f) BY <1>0, <1>3 DEF ReplayRow, EarnedInv
  <2>2. curve[replayed + 1] \in Equities BY <1>1, <1>3 DEF ReplayRow
  <2>3. Earned(update(ladder, curve[replayed + 1]), Append(f, curve[replayed + 1]))
    BY <1>1, <2>1, <2>2, UpdateEarns
  <2>4. SubSeq(curve, 1, replayed + 1) = Append(f, curve[replayed + 1])
    BY <1>1, <1>3, PrefixFacts DEF ReplayRow
  <2>5. Earned(ladder, SubSeq(curve, 1, replayed))' BY <1>3, <2>3, <2>4 DEF ReplayRow
  <2> QED BY <1>3, <2>5 DEF ReplayRow, EarnedInv
<1>4. CASE RestoreDone BY <1>0, <1>4 DEF RestoreDone, EarnedInv
<1>5. CASE SyncRow
  <2>1. PICK e \in Equities : curve' = Append(curve, e) BY <1>5 DEF SyncRow
  <2>2. SubSeq(Append(curve, e), 1, replayed) = f BY <1>1, PrefixFacts
  <2>3. SubSeq(curve, 1, replayed)' = f BY <1>5, <2>1, <2>2 DEF SyncRow
  <2>4. Earned(ladder, f) BY <1>0, <1>5 DEF SyncRow, EarnedInv
  <2> QED BY <1>5, <2>3, <2>4 DEF SyncRow, EarnedInv
<1>6. CASE Mark
  <2>1. PICK e \in Equities : /\ ladder' = update(ladder, e)
                              /\ marks' = Append(marks, e)
                              /\ lived' = Append(lived, update(Last(lived), e))
    BY <1>6 DEF Mark
  <2>2. Earned(ladder, f) BY <1>0, <1>6 DEF Mark, EarnedInv
  <2>3. Earned(update(ladder, e), Append(f, e)) BY <1>1, <2>2, UpdateEarns
  <2>4. Last(marks') = e /\ Len(marks') > 0 /\ marks' # <<>>
    <3>1. marks \in Seq(Equities) BY <1>0 DEF LadderTypeOK
    <3>2. marks' # <<>> /\ Len(marks') > 0 BY <2>1, <3>1
    <3> QED BY <2>1, <3>2, MarkProlongs
  <2>5. Fed' = Append(f, e) BY <1>6, <2>4 DEF Fed, Mark
  <2>6. ladder'.last_equity = e BY <1>1, <2>1, UpdateType
  <2> QED BY <1>6, <2>1, <2>3, <2>4, <2>5, <2>6 DEF Mark, EarnedInv
<1>7. CASE RecordRow BY <1>7 DEF RecordRow, EarnedInv
<1>8. CASE LoseRow BY <1>8 DEF LoseRow, EarnedInv
<1>9. CASE UNCHANGED ladderVars BY <1>0, <1>9 DEF ladderVars, EarnedInv, Fed
<1> QED BY <1>2, <1>3, <1>4, <1>5, <1>6, <1>7, <1>8, <1>9 DEF LadderNext

-----------------------------------------------------------------------------
(* The theorems                                                            *)

\* Every reachable state of the restarts satisfies the inductive invariant.
THEOREM RestartInvariant == LadderSpec => []RestartInv
<1>1. LadderInit => RestartInv BY Initially
<1>2. RestartInv /\ [LadderNext]_ladderVars => RestartInv'
  BY TypeStep, HistoriesStep, ReplayStep, EarnedStep DEF RestartInv
<1> QED BY <1>1, <1>2, PTL DEF LadderSpec

\* The ladder, the curve and the histories keep their types, the cooldown
\* counter staying below the cooldown (DrawdownLadder.update).
THEOREM LadderTypeCorrect == LadderSpec => []LadderTypeOK
<1>1. RestartInv => LadderTypeOK BY DEF RestartInv
<1> QED BY <1>1, RestartInvariant, PTL

\* The tier always fits the last mark (DrawdownLadder.update).
THEOREM TierFits == LadderSpec => []TierFitsDrawdown
<1>1. RestartInv => TierFitsDrawdown BY DEF RestartInv
<1> QED BY <1>1, RestartInvariant, PTL

\* Gross is not switched on and off around the trigger (RELEASE_FRAC).
THEOREM Hysteresis == LadderSpec => []NoFlapping
<1>1. RestartInv => NoFlapping BY DEF RestartInv
<1> QED BY <1>1, RestartInvariant, PTL

\* The replay of a curve whose rows are the marks is exact (_restore_ladder).
THEOREM RestoreIsExact == LadderSpec => []ExactOnMarks
<1>1. RestartInv => ExactOnMarks
  <2>1. SUFFICES ASSUME RestartInv, phase = "decide", replayed = Len(curve), curve = marks
                 PROVE  ladder = Last(lived)
    BY DEF ExactOnMarks
  <2>2. lived \in Seq(Ladder) /\ Len(lived) = Len(marks) + 1 /\ marks \in Seq(Equities)
    BY <2>1 DEF RestartInv, LadderTypeOK
  <2>3. replayed <= Len(marks) /\ \A i \in 1 .. replayed : curve[i] = marks[i]
    BY <2>1, <2>2
  <2>4. ladder = lived[replayed + 1] BY <2>1, <2>3 DEF RestartInv, ReplayInv
  <2> QED BY <2>1, <2>2, <2>4 DEF Last
<1> QED BY <1>1, RestartInvariant, PTL

\* The brake survives the restart: full gross below the half trigger of a
\* recorded equity has been earned by a served halt (_restore_ladder).
THEOREM BrakeSurvivesRestart == LadderSpec => []FullGrossIsEarned
<1>1. RestartInv => FullGrossIsEarned
  <2>1. SUFFICES ASSUME RestartInv, phase = "sized", ladder.state = "NORMAL",
                        NEW i \in 1 .. Len(Fed), Breaches(Fed[i], Last(marks), Half)
                 PROVE  \E j \in 1 .. Len(Fed) - Cooldown : i < j + Cooldown /\ Tripped(j)
    BY DEF FullGrossIsEarned
  <2>2. /\ Earned(ladder, Fed) /\ ladder.last_equity = Last(marks)
        /\ marks # <<>> /\ Live(ladder)
    BY <2>1 DEF RestartInv, EarnedInv, Live
  <2>3. /\ curve \in Seq(Equities) /\ replayed \in 0 .. Len(curve)
        /\ marks \in Seq(Equities) /\ ladder \in Ladder
    BY <2>1 DEF RestartInv, LadderTypeOK
  <2>4. Last(marks) \in Equities BY <2>2, <2>3 DEF Last
  <2>5. Fed \in Seq(Equities)
    <3>1. SubSeq(curve, 1, replayed) \in Seq(Equities) BY <2>3, PrefixFacts
    <3> QED BY <3>1, <2>4 DEF Fed
  <2> DEFINE f == Fed
             e == Last(marks)
             h == ladder.hwm
  <2>6. f \in Seq(Equities) /\ i \in 1 .. Len(f) /\ f[i] \in Equities BY <2>5, <2>1
  <2>7. PICK a \in 1 .. Len(f) + 1 :
          /\ \A k \in a .. Len(f) : f[k] <= h
          /\ a = 1 \/ \E j \in 1 .. Len(f) - Cooldown : a = j + Cooldown /\ TripIn(f, j)
    BY <2>2 DEF Earned
  <2>8. f[i] \in Nat /\ e \in Nat BY <2>4, <2>6, EquityFacts
  <2>9. h \in Nat
    <3>1. h \in Equities \cup {0} BY <2>3 DEF Ladder
    <3> QED BY <3>1, EquityFacts
  <2>10. ~(a <= i)
    <3>1. SUFFICES ASSUME a <= i PROVE FALSE
      OBVIOUS
    <3>2. f[i] <= h BY <3>1, <2>6, <2>7
    <3>3. Breaches(h, e, Half) BY <3>2, <2>1, <2>8, <2>9, BreachUnderHigherMark
    <3>4. h # 0 BY <3>2, <2>6, <2>8, <2>9, EquityFacts
    <3> QED BY <3>3, <3>4, <2>1, <2>2 DEF RestartInv, TierFitsDrawdown, FitsDrawdown
  <2>11. PICK j \in 1 .. Len(f) - Cooldown : a = j + Cooldown /\ TripIn(f, j)
    BY <2>6, <2>7, <2>10
  <2>12. i < j + Cooldown
    <3>1. i \in Int /\ a \in Int BY <2>6, <2>7
    <3> QED BY <3>1, <2>10, <2>11
  <2>13. Tripped(j) BY <2>11 DEF Tripped, TripIn
  <2> QED BY <2>11, <2>12, <2>13
<1> QED BY <1>1, RestartInvariant, PTL

=============================================================================
