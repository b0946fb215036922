---------------------------- MODULE OrderManager ----------------------------
(***************************************************************************)
(* execution/order_manager.py: place() hands a batch of accepted orders to *)
(* the broker, one after the other, and records every transition in the    *)
(* store: the intent before the submit, the result after it.  Each of the  *)
(* writes is a durable transaction of its own, so a crash can fall between *)
(* any two of the steps below.                                             *)
(***************************************************************************)
EXTENDS TradingStore, PaperBroker

CONSTANT NoOrder    \* no order is being placed

ASSUME NoOrderAssumption == NoOrder \notin OrderRequest

VARIABLES
    batch,      \* orders of place() not handled yet
    order,      \* the order being placed
    om_step,    \* where place() stands for that order
    booked      \* the signed lots the broker booked since the intent, 0 for none

omVars == <<batch, order, om_step, booked>>

OmSteps == {"next", "submit", "mark_rejected", "mark_submitted", "mark_filled"}

OmTypeOK ==
    /\ batch \subseteq OrderRequest
    /\ order \in OrderRequest \cup {NoOrder}
    /\ om_step \in OmSteps
    /\ booked \in Int

OmIdle == batch = {} /\ order = NoOrder /\ om_step = "next" /\ booked = 0

OmReset == batch' = {} /\ order' = NoOrder /\ om_step' = "next" /\ booked' = 0

\* Orders come sorted by instrument, the close leg of a flip before its open;
\* which instrument is first is left open.
MayBeNext(o) ==
    /\ o \in batch
    /\ o.coid.leg = "open" =>
         \A p \in batch : p.coid.iid = o.coid.iid => p.coid.leg # "close"

\* Step 1 of place: a terminal order is skipped, nothing is written.
SkipReplay(o) ==
    /\ om_step = "next"
    /\ MayBeNext(o)
    /\ orders[o.coid].status \in TERMINAL
    /\ batch' = batch \ {o}
    /\ UNCHANGED <<order, om_step, booked, storeVars, brokerVars>>

\* Mutant: the intent is left to a later write.
PersistIntent_late(o) ==
    /\ om_step = "next"
    /\ MayBeNext(o)
    /\ orders[o.coid].status \notin TERMINAL
    /\ batch' = batch \ {o}
    /\ order' = o
    /\ om_step' = "submit"
    /\ booked' = 0
    /\ UNCHANGED <<storeVars, brokerVars>>

\* Mutant: a terminal order is sent again.
PersistIntent_always(o) ==
    /\ om_step = "next"
    /\ MayBeNext(o)
    /\ record_intent(o)
    /\ batch' = batch \ {o}
    /\ order' = o
    /\ om_step' = "submit"
    /\ booked' = 0
    /\ UNCHANGED brokerVars

\* Step 2: the intent is durable before the broker is contacted.
PersistIntent(o) ==
    /\ om_step = "next"
    /\ MayBeNext(o)
    /\ orders[o.coid].status \notin TERMINAL
    /\ record_intent(o)
    /\ batch' = batch \ {o}
    /\ order' = o
    /\ om_step' = "submit"
    /\ booked' = 0
    /\ UNCHANGED brokerVars

\* Mutant: a partial execution is taken for a reject.
Submit_partialRejects ==
    /\ om_step = "submit"
    /\ \/ submit_rejected(order.coid) /\ UNCHANGED booked
       \/ \E q \in Fillable(order.qty) : submit_filled(order, q) /\ booked' = q
    /\ om_step' = IF booked' = order.qty THEN "mark_submitted" ELSE "mark_rejected"
    /\ UNCHANGED <<batch, order, storeVars>>

\* Step 3: the broker's answer decides the write that follows.
Submit ==
    /\ om_step = "submit"
    /\ \/ submit_known(order.coid) /\ UNCHANGED booked
       \/ submit_rejected(order.coid) /\ UNCHANGED booked
       \/ \E q \in Fillable(order.qty) : submit_filled(order, q) /\ booked' = q
    /\ om_step' = IF acks'[order.coid] = "accepted" THEN "mark_submitted"
                                                     ELSE "mark_rejected"
    /\ UNCHANGED <<batch, order, storeVars>>

\* Step 4, a reject.
PersistReject ==
    /\ om_step = "mark_rejected"
    /\ mark_rejected(order.coid)
    /\ om_step' = "next"
    /\ UNCHANGED <<batch, order, booked, brokerVars>>

\* Step 4, an acceptance: SUBMITTED first ...
PersistSubmitted ==
    /\ om_step = "mark_submitted"
    /\ mark_submitted(order.coid)
    /\ om_step' = IF booked = 0 THEN "next" ELSE "mark_filled"
    /\ UNCHANGED <<batch, order, booked, brokerVars>>

\* Mutant: the requested quantity is recorded as executed.
PersistFill_requested ==
    /\ om_step = "mark_filled"
    /\ mark_filled(order.coid, order.qty)
    /\ om_step' = "next"
    /\ UNCHANGED <<batch, order, booked, brokerVars>>

\* ... then the fill booked since the intent (_persist_fills).
PersistFill ==
    /\ om_step = "mark_filled"
    /\ mark_filled(order.coid, booked)
    /\ om_step' = "next"
    /\ UNCHANGED <<batch, order, booked, brokerVars>>

PlaceStep ==
    \/ \E o \in batch : SkipReplay(o) \/ PersistIntent(o)
    \/ Submit
    \/ PersistReject
    \/ PersistSubmitted
    \/ PersistFill

\* place() returns: every order of the batch was handled.
PlaceDone == om_step = "next" /\ batch = {}

=============================================================================
