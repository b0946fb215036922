---------------------------- MODULE OrderReplay ----------------------------
(***************************************************************************)
(* The submission contract of execution/order_manager.py under a broker    *)
(* that outlives the calls (SubmitBroker): place() is called again and     *)
(* again for the same orders, a submit may raise TransientBrokerError      *)
(* whether or not it landed, and any other exception ends the call.        *)
(***************************************************************************)
EXTENDS OrderManager

CONSTANTS
    Requests,       \* the orders of the cycle that is placed and replayed
    MaxAttempts,    \* max_attempts of the transport retry
    MaxCalls,       \* bound: calls of place()
    MaxRaises       \* bound: exceptions, transient or not

ASSUME ReplayAssumption ==
    /\ Requests \subseteq {o \in OrderRequest : o.qty # 0}
    /\ \A o, p \in Requests : o.coid = p.coid => o = p
    /\ MaxAttempts \in Nat \ {0}
    /\ MaxCalls \in Nat
    /\ MaxRaises \in Nat

VARIABLES
    attempt,        \* failed attempts of the submit in progress
    calls,          \* calls of place() so far
    raises,         \* exceptions so far
    aborted         \* some call of place() ended with an exception

replayVars == <<storeVars, brokerVars, omVars, attempt, calls, raises, aborted>>

ReplayTypeOK ==
    /\ StoreTypeOK
    /\ BrokerTypeOK
    /\ OmTypeOK
    /\ attempt \in 0 .. MaxAttempts - 1
    /\ calls \in 0 .. MaxCalls
    /\ raises \in 0 .. MaxRaises
    /\ aborted \in BOOLEAN

ReplayInit ==
    /\ StoreInit
    /\ Untouched
    /\ OmIdle
    /\ attempt = 0
    /\ calls = 0
    /\ raises = 0
    /\ aborted = FALSE

\* place(orders, cycle_ts) for some of the orders of the cycle.
CallPlace ==
    /\ PlaceDone
    /\ calls < MaxCalls
    /\ calls' = calls + 1
    /\ batch' \in (SUBSET Requests) \ {{}}
    /\ UNCHANGED <<order, om_step, booked, storeVars, brokerVars, attempt, raises, aborted>>

\* The steps of place(); the attempts are counted per submit.
ReplaySkip ==
    /\ \E o \in batch : SkipReplay(o)
    /\ UNCHANGED <<attempt, calls, raises, aborted>>

ReplayIntent ==
    /\ \E o \in batch : PersistIntent(o)
    /\ attempt' = 0
    /\ UNCHANGED <<calls, raises, aborted>>

SubmitAnswered == Submit /\ UNCHANGED <<attempt, calls, raises, aborted>>

ReplayRecord ==
    /\ PersistReject \/ PersistSubmitted \/ PersistFill
    /\ UNCHANGED <<attempt, calls, raises, aborted>>

\* Mutant: the tail of fills is read from the start of the last attempt.
LandedOrNot_lastAttempt ==
    \/ UNCHANGED brokerVars /\ booked' = 0
    \/ submit_rejected(order.coid) /\ booked' = 0
    \/ \E q \in Fillable(order.qty) : submit_filled(order, q) /\ booked' = 0

\* What a submit that raises may have done at the broker: nothing, or all of
\* it.  The tail of fills that place() reads starts before the first attempt.
LandedOrNot ==
    \/ UNCHANGED <<brokerVars, booked>>
    \/ submit_rejected(order.coid) /\ UNCHANGED booked
    \/ \E q \in Fillable(order.qty) : submit_filled(order, q) /\ booked' = q

\* TransientBrokerError with an attempt left: the same order is sent again.
SubmitRetried ==
    /\ om_step = "submit"
    /\ raises < MaxRaises
    /\ attempt + 1 < MaxAttempts
    /\ LandedOrNot
    /\ attempt' = attempt + 1
    /\ raises' = raises + 1
    /\ UNCHANGED <<batch, order, om_step, storeVars, calls, aborted>>

\* Mutant: the order of a submit that kept failing is recorded REJECTED.
SubmitExhausted_rejects ==
    /\ om_step = "submit"
    /\ raises < MaxRaises
    /\ attempt + 1 = MaxAttempts
    /\ LandedOrNot
    /\ raises' = raises + 1
    /\ attempt' = 0
    /\ om_step' = "mark_rejected"
    /\ UNCHANGED <<batch, order, storeVars, calls, aborted>>

\* The last attempt fails: the exception leaves place(), the intent stays.
SubmitExhausted ==
    /\ om_step = "submit"
    /\ raises < MaxRaises
    /\ attempt + 1 = MaxAttempts
    /\ \/ UNCHANGED brokerVars
       \/ submit_rejected(order.coid)
       \/ \E q \in Fillable(order.qty) : submit_filled(order, q)
    /\ raises' = raises + 1
    /\ aborted' = TRUE
    /\ attempt' = 0
    /\ OmReset
    /\ UNCHANGED <<storeVars, calls>>

\* A store write raises, or the process dies: the broker's book survives.
CallAborts ==
    /\ ~PlaceDone
    /\ raises < MaxRaises
    /\ raises' = raises + 1
    /\ aborted' = TRUE
    /\ attempt' = 0
    /\ OmReset
    /\ UNCHANGED <<storeVars, brokerVars, calls>>

ReplayNext ==
    \/ CallPlace
    \/ ReplaySkip
    \/ ReplayIntent
    \/ SubmitAnswered
    \/ ReplayRecord
    \/ SubmitRetried
    \/ SubmitExhausted
    \/ CallAborts

ReplaySpec == ReplayInit /\ [][ReplayNext]_replayVars

-----------------------------------------------------------------------------
(* Properties                                                              *)

\* However often an order is placed, retried or replayed, it executes at most
\* once, and the store never records more than the broker executed ("replaying
\* a cycle never double-submits").
AtMostOneFill ==
    \A c \in Coid :
        /\ Len(broker_fills[c]) <= 1
        /\ fills[c] \in {<<>>, broker_fills[c]}

\* A call that returns has recorded every execution of its submits, also those
\* that landed behind a TransientBrokerError: until some call is aborted, the
\* store's fills are the broker's whenever place() is between two orders
\* (_persist_fills, fills_before).
ReturnedMeansRecorded == ~aborted /\ om_step = "next" => fills = broker_fills

\* A FILLED or REJECTED order is never written nor sent again (place, step 1).
TerminalIsLeftAlone ==
    \A c \in Coid :
        orders[c].status \in TERMINAL =>
            orders'[c] = orders[c] /\ fills'[c] = fills[c] /\ acks'[c] = acks[c]

TerminalOrderSticks == [][TerminalIsLeftAlone]_replayVars

\* A reject is recorded only of an order that the broker refused for good: a
\* transport failure is never taken for one ("A definitive reject").
RejectIsDefinitive ==
    \A c \in Coid : orders[c].status = "REJECTED" => acks[c] = "rejected"

=============================================================================
