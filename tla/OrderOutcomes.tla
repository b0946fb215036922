--------------------------- MODULE OrderOutcomes ---------------------------
(***************************************************************************)
(* What the durable record promises about an order, whatever happens to    *)
(* the process that places it: an order is intended once, for one          *)
(* quantity; it then either executes, once, for at most that quantity in   *)
(* that direction, or it is void; and what was decided is never undone.    *)
(***************************************************************************)
EXTENDS Integers, Sequences

CONSTANT Orders

VARIABLE outcome    \* the recorded outcome of every order

Unknown == [state |-> "none", qty |-> 0, lots |-> <<>>]

\* The possible executions of an order of qty signed lots.
Executions(qty) == IF qty > 0 THEN 1 .. qty ELSE qty .. -1

Init == outcome = [o \in Orders |-> Unknown]

\* Any quantity but zero may be intended.
Intend(o) ==
    /\ outcome[o].state = "none"
    /\ outcome'[o].qty \in Int \ {0}
    /\ outcome' = [outcome EXCEPT ![o] =
                     [state |-> "open", qty |-> outcome'[o].qty, lots |-> <<>>]]

Execute(o) ==
    /\ outcome[o].state = "open"
    /\ \E q \in Executions(outcome[o].qty) :
         outcome' = [outcome EXCEPT ![o] =
                        [state |-> "executed", qty |-> @.qty, lots |-> <<q>>]]

Void(o) ==
    /\ outcome[o].state = "open"
    /\ outcome' = [outcome EXCEPT ![o].state = "void"]

Next == \E o \in Orders : Intend(o) \/ Execute(o) \/ Void(o)

Spec == Init /\ [][Next]_outcome

=============================================================================
