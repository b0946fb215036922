--------------------------- MODULE DrawdownLadder ---------------------------
(***************************************************************************)
(* risk/monitors.py, DrawdownLadder: the brake on the book's gross, one    *)
(* update per bar.  Equities are integers and the thresholds are fractions *)
(* of Scale, compared without rounding.  n_auto_rearms is a diagnostic     *)
(* nobody branches on and is left out; rearm() has no caller in src/ and   *)
(* no process of the deployment can reach it.                              *)
(***************************************************************************)
EXTENDS Integers, Sequences

CONSTANTS
    Equities,       \* the equities the account may be marked at
    Scale,          \* denominator of the thresholds
    Half,           \* dd_half_frac * Scale
    Flat,           \* dd_flat_frac * Scale
    Cooldown        \* flat_cooldown_bars

ASSUME LadderAssumption ==
    /\ Equities \subseteq Nat \ {0}
    /\ Scale \in Nat
    /\ Half \in Nat
    /\ Flat \in Nat
    /\ 0 < Half /\ Half < Flat /\ Flat < Scale
    /\ Cooldown \in Nat \ {0}

DDState == {"NORMAL", "HALF_GROSS", "FLAT_HALTED"}

\* hwm and last_equity are 0 (NaN in the code) before the first update.
Ladder == [state : DDState,
           hwm : Equities \cup {0},
           last_equity : Equities \cup {0},
           halt_bars : 0 .. Cooldown - 1]

Pristine == [state |-> "NORMAL", hwm |-> 0, last_equity |-> 0, halt_bars |-> 0]

\* DD >= f / Scale at equity e under the high-water mark h.
Breaches(h, e, f) == (h - e) * Scale >= f * h

\* DD < RELEASE_FRAC * dd_half_frac, RELEASE_FRAC being 3/4.
Releases(h, e) == 4 * Scale * (h - e) < 3 * Half * h

Rearmed(e) == [state |-> "NORMAL", hwm |-> e, last_equity |-> e, halt_bars |-> 0]

\* Mutant: the rearmed ladder keeps the high-water mark of before the halt.
Wait_keepsMark(l, e) ==
    IF l.halt_bars + 1 >= Cooldown THEN [Rearmed(e) EXCEPT !.hwm = l.hwm]
    ELSE [l EXCEPT !.halt_bars = @ + 1, !.last_equity = e]

\* update while FLAT_HALTED: the mark is frozen until the cooldown is served.
Wait(l, e) ==
    IF l.halt_bars + 1 >= Cooldown THEN Rearmed(e)
    ELSE [l EXCEPT !.halt_bars = @ + 1, !.last_equity = e]

\* Mutant: no hysteresis, the half tier releases at its own trigger.
NextState_flapping(state, h, e) ==
    IF Breaches(h, e, Flat) THEN "FLAT_HALTED"
    ELSE IF Breaches(h, e, Half) THEN "HALF_GROSS" ELSE "NORMAL"

\* The tier of a live ladder in state at equity e under h.
NextState(state, h, e) ==
    IF Breaches(h, e, Flat) THEN "FLAT_HALTED"
    ELSE IF state = "NORMAL"
         THEN IF Breaches(h, e, Half) THEN "HALF_GROSS" ELSE "NORMAL"
         ELSE IF Releases(h, e) THEN "NORMAL" ELSE "HALF_GROSS"

\* update while live: the high-water mark first, then the tier.
MarkLive(l, e) ==
    LET h == IF e > l.hwm THEN e ELSE l.hwm
    IN  [state |-> NextState(l.state, h, e), hwm |-> h, last_equity |-> e, halt_bars |-> 0]

update(l, e) == IF l.state = "FLAT_HALTED" THEN Wait(l, e) ELSE MarkLive(l, e)

\* The tier fits the last mark: full gross only above the half trigger, half
\* gross only between release and flat, and a halt is not overdue.
FitsDrawdown(l) ==
    /\ l.state # "FLAT_HALTED" => l.last_equity <= l.hwm /\ l.halt_bars = 0
    /\ l.state = "NORMAL" /\ l.hwm # 0 => ~Breaches(l.hwm, l.last_equity, Half)
    /\ l.state = "HALF_GROSS" =>
         /\ ~Releases(l.hwm, l.last_equity)
         /\ ~Breaches(l.hwm, l.last_equity, Flat)

=============================================================================
