------------------------- MODULE OrderReplayProofs -------------------------
(***************************************************************************)
(* Proofs about OrderReplay, for every set of requests, every bound on the *)
(* attempts, the calls and the exceptions: what place() promises when it   *)
(* is retried and replayed against a broker that outlives the calls.       *)
(***************************************************************************)
EXTENDS OrderReplay, TLAPS

-----------------------------------------------------------------------------
(* The inductive invariant                                                 *)

\* The orders of place() are requests, and the one in hand has an open row.
InHand ==
    /\ batch \subseteq Requests
    /\ om_step # "next" =>
         order \in Requests /\ orders[order.coid].status \in NON_TERMINAL

\* The broker executes an order once, and only one that it accepted.
ExecutedOnce ==
    \A c \in Coid :
        /\ Len(broker_fills[c]) <= 1
        /\ acks[c] # "accepted" => broker_fills[c] = <<>>

\* The store records what the broker executed, or nothing.
NothingInvented == \A c \in Coid : fills[c] \in {<<>>, broker_fills[c]}

\* What the step of place() knows of the order in hand.
AnswerInHand ==
    /\ om_step = "mark_rejected" => acks[order.coid] = "rejected"
    /\ om_step = "mark_filled" => booked # 0
    /\ om_step # "next" /\ booked # 0 =>
         broker_fills[order.coid] = <<booked>> /\ fills[order.coid] = <<>>

\* Until a call is aborted only the fill in hand is not on record yet.
OnRecord ==
    ~aborted =>
        \A c \in Coid :
            \/ fills[c] = broker_fills[c]
            \/ om_step # "next" /\ c = order.coid /\ booked # 0

ReplayInv ==
    /\ ReplayTypeOK
    /\ InHand
    /\ ExecutedOnce
    /\ NothingInvented
    /\ RejectIsDefinitive
    /\ AnswerInHand
    /\ OnRecord

-----------------------------------------------------------------------------
(* Facts about the vocabulary                                              *)

LEMMA RequestShape ==
    ASSUME NEW o \in Requests
    PROVE  o.coid \in Coid /\ o.qty \in Int /\ o \in OrderRequest
  BY ReplayAssumption DEF OrderRequest

LEMMA BoundsAreWhole == MaxAttempts \in Nat \ {0} /\ MaxCalls \in Nat /\ MaxRaises \in Nat
  BY ReplayAssumption

LEMMA StatusesApart ==
    ASSUME NEW s \in NON_TERMINAL
    PROVE  s # "absent" /\ s \notin TERMINAL /\ s \in OrderStatus /\ s # "REJECTED"
  BY DEF NON_TERMINAL, TERMINAL, OrderStatus

\* An execution is a whole, non-zero number of lots.
LEMMA FillableIsWhole ==
    ASSUME NEW qty \in Int, NEW q \in Fillable(qty)
    PROVE  q \in Int /\ q # 0
  BY DEF Fillable, Abs

-----------------------------------------------------------------------------
(* What a submit does to the broker, seen from the order in hand           *)

\* Nothing, an answer without a fill, or the one execution.
BrokerMoves(c) ==
    \/ UNCHANGED <<acks, broker_fills, booked>>
    \/ /\ acks[c] = "none"
       /\ acks' = [acks EXCEPT ![c] = "rejected"]
       /\ UNCHANGED <<broker_fills, booked>>
    \/ /\ acks[c] = "none"
       /\ acks' = [acks EXCEPT ![c] = "accepted"]
       /\ booked' \in Int \ {0}
       /\ broker_fills' = [broker_fills EXCEPT ![c] = Append(@, booked')]

\* A move of the broker keeps the types, and what holds of every order.
LEMMA MovesKeepTheBook ==
    ASSUME ReplayInv, NEW c \in Coid, BrokerMoves(c),
           orders[c].status \in NON_TERMINAL, UNCHANGED <<orders, fills>>
    PROVE  /\ acks' \in [Coid -> AckStatus]
           /\ broker_fills' \in [Coid -> Seq(Int)]
           /\ booked' \in Int
           /\ ExecutedOnce'
           /\ NothingInvented'
           /\ RejectIsDefinitive'
           /\ \A d \in Coid \ {c} : acks'[d] = acks[d] /\ broker_fills'[d] = broker_fills[d]
  <1>1. /\ acks \in [Coid -> AckStatus]
        /\ broker_fills \in [Coid -> Seq(Int)]
        /\ booked \in Int
        /\ ExecutedOnce /\ NothingInvented /\ RejectIsDefinitive
    BY DEF ReplayInv, ReplayTypeOK, BrokerTypeOK, OmTypeOK
  <1>2. CASE UNCHANGED <<acks, broker_fills, booked>>
    BY <1>1, <1>2 DEF ExecutedOnce, NothingInvented, RejectIsDefinitive
  <1>3. CASE /\ acks[c] = "none"
             /\ acks' = [acks EXCEPT ![c] = "rejected"]
             /\ UNCHANGED <<broker_fills, booked>>
    BY <1>1, <1>3 DEF ExecutedOnce, NothingInvented, RejectIsDefinitive, AckStatus
  <1>4. CASE /\ acks[c] = "none"
             /\ acks' = [acks EXCEPT ![c] = "accepted"]
             /\ booked' \in Int \ {0}
             /\ broker_fills' = [broker_fills EXCEPT ![c] = Append(@, booked')]
    <2>1. broker_fills[c] = <<>> /\ fills[c] = <<>>
      BY <1>1, <1>4 DEF ExecutedOnce, NothingInvented
    <2>2. /\ acks'[c] = "accepted"
          /\ broker_fills'[c] = <<booked'>>
          /\ \A d \in Coid \ {c} : acks'[d] = acks[d] /\ broker_fills'[d] = broker_fills[d]
      BY <1>1, <1>4, <2>1
    <2>3. acks' \in [Coid -> AckStatus] /\ broker_fills' \in [Coid -> Seq(Int)]
      BY <1>1, <1>4 DEF AckStatus
    <2>4. ExecutedOnce'
      BY <1>1, <1>4, <2>2 DEF ExecutedOnce
    <2>5. NothingInvented'
      BY <1>1, <2>1, <2>2 DEF NothingInvented
    <2>6. RejectIsDefinitive'
      BY <1>1, <1>4, <2>2, StatusesApart DEF RejectIsDefinitive
    <2> QED
      BY <1>4, <2>2, <2>3, <2>4, <2>5, <2>6
  <1> QED
    BY <1>2, <1>3, <1>4 DEF BrokerMoves

\* The order in hand after a move: a fill booked since the intent is the whole
\* log of the broker, and none of it is on record.
LEMMA MovesAreInHand ==
    ASSUME ReplayInv, om_step = "submit", BrokerMoves(order.coid),
           UNCHANGED <<orders, fills, order>>
    PROVE  booked' # 0 => broker_fills'[order.coid] = <<booked'>> /\ fills[order.coid] = <<>>
  <1>1. /\ order.coid \in Coid
        /\ broker_fills \in [Coid -> Seq(Int)]
        /\ ExecutedOnce /\ NothingInvented
        /\ booked # 0 => broker_fills[order.coid] = <<booked>> /\ fills[order.coid] = <<>>
    BY RequestShape
       DEF ReplayInv, ReplayTypeOK, BrokerTypeOK, InHand, AnswerInHand
  <1>2. acks[order.coid] = "none" =>
          broker_fills[order.coid] = <<>> /\ fills[order.coid] = <<>>
    BY <1>1 DEF ExecutedOnce, NothingInvented
  <1> QED
    BY <1>1, <1>2 DEF BrokerMoves

\* The steps that reach the broker move it this way.
LEMMA LandedMoves ==
    ASSUME ReplayInv, om_step = "submit", LandedOrNot
    PROVE  BrokerMoves(order.coid)
  <1>1. order \in Requests
    BY DEF ReplayInv, InHand
  <1>2. CASE UNCHANGED <<brokerVars, booked>>
    BY <1>2 DEF brokerVars, BrokerMoves
  <1>3. CASE submit_rejected(order.coid) /\ UNCHANGED booked
    BY <1>3 DEF submit_rejected, BrokerMoves
  <1>4. CASE \E q \in Fillable(order.qty) : submit_filled(order, q) /\ booked' = q
    <2>1. PICK q \in Fillable(order.qty) : submit_filled(order, q) /\ booked' = q
      BY <1>4
    <2>2. q \in Int \ {0}
      BY <1>1, <2>1, RequestShape, FillableIsWhole
    <2> QED
      BY <2>1, <2>2 DEF submit_filled, book_fill, BrokerMoves
  <1> QED
    BY <1>2, <1>3, <1>4 DEF LandedOrNot

LEMMA SubmitMoves ==
    ASSUME ReplayInv, Submit
    PROVE  BrokerMoves(order.coid)
  <1>1. om_step = "submit"
        /\ (\/ submit_known(order.coid) /\ UNCHANGED booked
            \/ submit_rejected(order.coid) /\ UNCHANGED booked
            \/ \E q \in Fillable(order.qty) : submit_filled(order, q) /\ booked' = q)
    BY DEF Submit
  <1>2. LandedOrNot
    BY <1>1 DEF LandedOrNot, submit_known, brokerVars
  <1> QED
    BY <1>1, <1>2, LandedMoves

-----------------------------------------------------------------------------
(* The steps                                                               *)

\* The types that a step of place() cannot disturb.
LEMMA UntouchedTypes ==
    ASSUME ReplayTypeOK, UNCHANGED <<cycles, positions_snapshots, equity_curve, paper_state>>,
           orders' \in [Coid -> OrderRow], fills' \in [Coid -> Seq(Int)]
    PROVE  StoreTypeOK'
  BY DEF ReplayTypeOK, StoreTypeOK

LEMMA PositionsStayWhole ==
    ASSUME ReplayTypeOK, NEW o \in Requests,
           \/ UNCHANGED positions
           \/ \E q \in Fillable(o.qty) : submit_filled(o, q)
    PROVE  positions' \in [Instruments -> Int]
  <1>1. positions \in [Instruments -> Int]
    BY DEF ReplayTypeOK, BrokerTypeOK
  <1>2. CASE UNCHANGED positions
    BY <1>1, <1>2
  <1>3. CASE \E q \in Fillable(o.qty) : submit_filled(o, q)
    <2>1. PICK q \in Fillable(o.qty) : submit_filled(o, q)
      BY <1>3
    <2>2. q \in Int
      BY RequestShape, FillableIsWhole
    <2>3. positions' = [positions EXCEPT ![o.coid.iid] = @ + q]
      BY <2>1 DEF submit_filled, book_fill
    <2>4. o.coid.iid \in Instruments
      BY RequestShape DEF Coid
    <2>5. positions[o.coid.iid] + q \in Int
      BY <1>1, <2>2, <2>4
    <2> QED
      BY <1>1, <2>3, <2>5
  <1> QED
    BY <1>2, <1>3

\* A row of the orders table after a write.
LEMMA RowsStayRows ==
    ASSUME ReplayTypeOK, NEW c \in Coid, NEW row \in OrderRow,
           orders' = [orders EXCEPT ![c] = row]
    PROVE  /\ orders' \in [Coid -> OrderRow]
           /\ orders'[c] = row
           /\ \A d \in Coid \ {c} : orders'[d] = orders[d]
  BY DEF ReplayTypeOK, StoreTypeOK

LEMMA StatusesKeepTheRow ==
    ASSUME ReplayTypeOK, NEW c \in Coid, NEW status \in OrderStatus, set_order_status(c, status)
    PROVE  /\ orders' \in [Coid -> OrderRow]
           /\ orders'[c].status = status
           /\ \A d \in Coid \ {c} : orders'[d] = orders[d]
  <1> DEFINE row == [orders[c] EXCEPT !.status = status]
  <1>1. orders[c] \in OrderRow
    BY DEF ReplayTypeOK, StoreTypeOK
  <1>2. row \in OrderRow /\ row.status = status
    BY <1>1 DEF OrderRow
  <1>3. orders' = [orders EXCEPT ![c] = row]
    BY DEF set_order_status
  <1> HIDE DEF row
  <1> QED
    BY <1>2, <1>3, RowsStayRows

\* The invariant holds at the start.
LEMMA InitialInv ==
    ASSUME ReplayInit
    PROVE  ReplayInv
  <1>1. NoOrderRow \in OrderRow
    BY DEF NoOrderRow, OrderRow, OrderStatus
  <1>2. NoBlob \in Bars \cup {NoBlob}
    OBVIOUS
  <1>3. [cycle_ts |-> NoBlob, acks |-> NoAcks, fills |-> NoFills, positions |-> Flat]
          \in PaperState
    BY DEF PaperState, NoAcks, NoFills, Flat, AckStatus
  <1>4. StoreTypeOK
    BY <1>1, <1>3 DEF ReplayInit, StoreInit, StoreTypeOK, CycleStatus, NoFills, Flat
  <1>5. BrokerTypeOK
    BY DEF ReplayInit, Untouched, BrokerTypeOK, NoAcks, NoFills, Flat, AckStatus
  <1>6. OmTypeOK
    BY DEF ReplayInit, OmIdle, OmTypeOK, OmSteps
  <1>7. ReplayTypeOK
    <2>1. attempt = 0 /\ calls = 0 /\ raises = 0 /\ aborted = FALSE
      BY DEF ReplayInit
    <2>2. /\ attempt \in 0 .. MaxAttempts - 1
          /\ calls \in 0 .. MaxCalls
          /\ raises \in 0 .. MaxRaises
      BY <2>1, BoundsAreWhole
    <2>3. aborted \in BOOLEAN
      BY <2>1
    <2> QED
      BY <1>4, <1>5, <1>6, <2>2, <2>3 DEF ReplayTypeOK
  <1>8. /\ batch = {} /\ om_step = "next" /\ booked = 0
        /\ \A c \in Coid : /\ orders[c] = NoOrderRow /\ fills[c] = <<>>
                          /\ acks[c] = "none" /\ broker_fills[c] = <<>>
    BY DEF ReplayInit, OmIdle, StoreInit, Untouched, NoAcks, NoFills
  <1>9. InHand /\ ExecutedOnce /\ NothingInvented /\ AnswerInHand /\ OnRecord
    BY <1>8 DEF InHand, ExecutedOnce, NothingInvented, AnswerInHand, OnRecord
  <1>10. RejectIsDefinitive
    BY <1>8 DEF RejectIsDefinitive, NoOrderRow
  <1> QED
    BY <1>7, <1>9, <1>10 DEF ReplayInv

\* A new call, and a skipped order, move neither the store nor the broker.
LEMMA CallPlaceKeeps ==
    ASSUME ReplayInv, CallPlace \/ ReplaySkip
    PROVE  ReplayInv'
  <1>1. /\ UNCHANGED <<order, om_step, booked, storeVars, brokerVars, attempt, raises, aborted>>
        /\ batch' \subseteq Requests
        /\ calls' \in 0 .. MaxCalls
    BY ReplayAssumption
       DEF ReplayInv, InHand, ReplayTypeOK, CallPlace, ReplaySkip, SkipReplay
  <1>2. batch' \subseteq OrderRequest
    BY <1>1, RequestShape
  <1>3. ReplayTypeOK'
    BY <1>1, <1>2
       DEF ReplayInv, ReplayTypeOK, StoreTypeOK, BrokerTypeOK, OmTypeOK, storeVars, brokerVars
  <1>4. (InHand /\ ExecutedOnce /\ NothingInvented /\ RejectIsDefinitive
         /\ AnswerInHand /\ OnRecord)'
    BY <1>1 DEF ReplayInv, InHand, ExecutedOnce, NothingInvented, RejectIsDefinitive,
                AnswerInHand, OnRecord, storeVars, brokerVars
  <1> QED
    BY <1>3, <1>4 DEF ReplayInv

LEMMA IntentKeeps ==
    ASSUME ReplayInv, ReplayIntent
    PROVE  ReplayInv'
  <1>1. PICK o \in batch : PersistIntent(o)
    BY DEF ReplayIntent
  <1>2. o \in Requests /\ o \in OrderRequest /\ o.coid \in Coid /\ o.qty \in Int
    BY RequestShape DEF ReplayInv, InHand
  <1>3. /\ orders[o.coid].status \notin TERMINAL
        /\ batch' = batch \ {o} /\ order' = o /\ om_step' = "submit" /\ booked' = 0
        /\ om_step = "next" /\ attempt' = 0
        /\ UNCHANGED <<acks, broker_fills, positions, cycles, fills, positions_snapshots,
                       equity_curve, paper_state, calls, raises, aborted>>
    BY <1>1 DEF PersistIntent, record_intent, ReplayIntent, brokerVars
  <1> DEFINE row == IF orders[o.coid].status = "absent"
                    THEN [status |-> "NEW", qty |-> o.qty, filled |-> 0]
                    ELSE orders[o.coid]
  <1>4. orders' = [orders EXCEPT ![o.coid] = row]
    BY <1>1 DEF PersistIntent, record_intent
  <1>5. row \in OrderRow /\ row.status \in NON_TERMINAL
    <2>1. orders[o.coid] \in OrderRow
      BY <1>2 DEF ReplayInv, ReplayTypeOK, StoreTypeOK
    <2> QED
      BY <1>2, <1>3, <2>1 DEF OrderRow, OrderStatus, NON_TERMINAL, TERMINAL
  <1> HIDE DEF row
  <1>6. /\ orders' \in [Coid -> OrderRow]
        /\ orders'[o.coid].status \in NON_TERMINAL
        /\ \A d \in Coid \ {o.coid} : orders'[d] = orders[d]
    BY <1>2, <1>4, <1>5, RowsStayRows DEF ReplayInv
  <1>7. ReplayTypeOK'
    <2>1. StoreTypeOK'
      BY <1>3, <1>6, UntouchedTypes DEF ReplayInv, ReplayTypeOK, StoreTypeOK
    <2>2. BrokerTypeOK' /\ OmTypeOK'
      BY <1>2, <1>3 DEF ReplayInv, ReplayTypeOK, BrokerTypeOK, OmTypeOK, OmSteps
    <2> QED
      BY <1>3, <2>1, <2>2, ReplayAssumption DEF ReplayInv, ReplayTypeOK
  <1>8. InHand'
    BY <1>2, <1>3, <1>6 DEF ReplayInv, InHand
  <1>9. ExecutedOnce' /\ NothingInvented' /\ AnswerInHand' /\ OnRecord'
    BY <1>3 DEF ReplayInv, ExecutedOnce, NothingInvented, AnswerInHand, OnRecord
  <1>10. RejectIsDefinitive'
    BY <1>3, <1>6, StatusesApart DEF ReplayInv, RejectIsDefinitive
  <1> QED
    BY <1>7, <1>8, <1>9, <1>10 DEF ReplayInv

\* A submit that is answered, or that raises with an attempt left.
LEMMA SubmitKeeps ==
    ASSUME ReplayInv, SubmitAnswered \/ SubmitRetried
    PROVE  ReplayInv'
  <1>1. /\ om_step = "submit" /\ order \in Requests /\ order.coid \in Coid
        /\ orders[order.coid].status \in NON_TERMINAL
    BY RequestShape
       DEF ReplayInv, InHand, SubmitAnswered, Submit, SubmitRetried
  <1>2. /\ UNCHANGED <<batch, order, storeVars, calls, aborted>>
        /\ raises' \in 0 .. MaxRaises
        /\ attempt' \in 0 .. MaxAttempts - 1
        /\ om_step' \in {"submit", "mark_submitted", "mark_rejected"}
    BY ReplayAssumption
       DEF ReplayInv, ReplayTypeOK, SubmitAnswered, Submit, SubmitRetried
  <1>3. BrokerMoves(order.coid)
    BY <1>1, SubmitMoves, LandedMoves DEF SubmitAnswered, SubmitRetried
  <1>4. UNCHANGED <<orders, fills>>
    BY <1>2 DEF storeVars
  <1>5. /\ acks' \in [Coid -> AckStatus] /\ broker_fills' \in [Coid -> Seq(Int)]
        /\ booked' \in Int
        /\ ExecutedOnce' /\ NothingInvented' /\ RejectIsDefinitive'
        /\ \A d \in Coid \ {order.coid} :
              acks'[d] = acks[d] /\ broker_fills'[d] = broker_fills[d]
    BY <1>1, <1>3, <1>4, MovesKeepTheBook
  <1>6. booked' # 0 => broker_fills'[order.coid] = <<booked'>> /\ fills[order.coid] = <<>>
    BY <1>1, <1>2, <1>3, <1>4, MovesAreInHand
  <1>7. positions' \in [Instruments -> Int]
    <2>1. \/ UNCHANGED positions
          \/ \E q \in Fillable(order.qty) : submit_filled(order, q)
      BY DEF SubmitAnswered, Submit, SubmitRetried, LandedOrNot, submit_known,
             submit_rejected, brokerVars
    <2> QED
      BY <1>1, <2>1, PositionsStayWhole DEF ReplayInv
  <1>8. ReplayTypeOK'
    BY <1>2, <1>5, <1>7
       DEF ReplayInv, ReplayTypeOK, StoreTypeOK, BrokerTypeOK, OmTypeOK, OmSteps, storeVars
  <1>9. InHand'
    BY <1>1, <1>2, <1>4 DEF ReplayInv, InHand
  <1>10. AnswerInHand'
    <2>1. om_step' = "mark_rejected" => acks'[order.coid] = "rejected"
      <3>1. SUFFICES ASSUME om_step' = "mark_rejected" PROVE acks'[order.coid] = "rejected"
        OBVIOUS
      <3>2. Submit
        BY <1>1, <3>1 DEF SubmitAnswered, SubmitRetried
      <3>3. acks'[order.coid] # "accepted" /\ acks'[order.coid] # "none"
        BY <1>1, <1>5, <3>1, <3>2
           DEF Submit, submit_known, submit_rejected, submit_filled, book_fill, brokerVars,
               ReplayInv, ReplayTypeOK, BrokerTypeOK
      <3> QED
        BY <1>1, <1>5, <3>3 DEF AckStatus
    <2> QED
      BY <1>2, <1>4, <1>6, <2>1 DEF AnswerInHand
  <1>11. OnRecord'
    <2>1. SUFFICES ASSUME ~aborted, NEW c \in Coid
                   PROVE  \/ fills[c] = broker_fills'[c]
                          \/ c = order.coid /\ booked' # 0
      BY <1>2, <1>4 DEF OnRecord
    <2>2. fills[c] = broker_fills[c] \/ (c = order.coid /\ booked # 0)
      BY <2>1 DEF ReplayInv, OnRecord
    <2>3. CASE c # order.coid
      BY <1>5, <2>1, <2>2, <2>3
    <2>4. CASE c = order.coid
      BY <2>2, <2>4, <1>3 DEF BrokerMoves
    <2> QED
      BY <2>3, <2>4
  <1> QED
    BY <1>5, <1>8, <1>9, <1>10, <1>11 DEF ReplayInv

\* A status that is written: the reject, and the SUBMITTED of an acceptance.
LEMMA StatusKeeps ==
    ASSUME ReplayInv, PersistReject \/ PersistSubmitted,
           UNCHANGED <<attempt, calls, raises, aborted>>
    PROVE  ReplayInv'
  <1> DEFINE c == order.coid
             status == IF om_step = "mark_rejected" THEN "REJECTED" ELSE "SUBMITTED"
  <1>1. /\ om_step \in {"mark_rejected", "mark_submitted"}
        /\ order \in Requests /\ c \in Coid
        /\ orders[c].status \in NON_TERMINAL
    BY RequestShape DEF ReplayInv, InHand, PersistReject, PersistSubmitted
  <1>2. set_order_status(c, status)
    BY <1>1 DEF PersistReject, PersistSubmitted, mark_rejected, mark_submitted
  <1>3. /\ UNCHANGED <<batch, order, booked, acks, broker_fills, positions, cycles, fills,
                       positions_snapshots, equity_curve, paper_state,
                       attempt, calls, raises, aborted>>
        /\ om_step' = IF om_step = "mark_submitted" /\ booked # 0 THEN "mark_filled"
                                                                  ELSE "next"
    BY <1>1, <1>2 DEF PersistReject, PersistSubmitted, set_order_status, brokerVars
  <1>4. status \in OrderStatus
    BY DEF OrderStatus
  <1>5. /\ orders' \in [Coid -> OrderRow]
        /\ orders'[c].status = status
        /\ \A d \in Coid \ {c} : orders'[d] = orders[d]
    <2> HIDE DEF c, status
    <2> QED
      BY <1>1, <1>2, <1>4, StatusesKeepTheRow DEF ReplayInv
  <1>6. ReplayTypeOK'
    BY <1>3, <1>5, UntouchedTypes
       DEF ReplayInv, ReplayTypeOK, StoreTypeOK, BrokerTypeOK, OmTypeOK, OmSteps
  <1>7. InHand'
    BY <1>1, <1>3, <1>5 DEF ReplayInv, InHand, NON_TERMINAL
  <1>8. ExecutedOnce' /\ NothingInvented'
    BY <1>3 DEF ReplayInv, ExecutedOnce, NothingInvented
  <1>9. om_step = "mark_rejected" => acks[c] = "rejected"
    BY DEF ReplayInv, AnswerInHand
  <1>10. RejectIsDefinitive'
    BY <1>1, <1>3, <1>5, <1>9 DEF ReplayInv, RejectIsDefinitive
  <1>11. AnswerInHand'
    BY <1>1, <1>3 DEF ReplayInv, AnswerInHand
  <1>12. om_step' = "next" => booked = 0
    <2>1. SUFFICES ASSUME om_step = "mark_rejected", booked # 0 PROVE FALSE
      BY <1>1, <1>3
    <2>2. broker_fills[c] = <<>>
      BY <1>1, <1>9, <2>1 DEF ReplayInv, ExecutedOnce
    <2>3. broker_fills[c] = <<booked>>
      BY <2>1 DEF ReplayInv, AnswerInHand
    <2> QED
      BY <2>2, <2>3
  <1>13. OnRecord'
    BY <1>3, <1>12 DEF ReplayInv, OnRecord
  <1> QED
    BY <1>6, <1>7, <1>8, <1>10, <1>11, <1>13 DEF ReplayInv

\* The fill row and the order's row, in one transaction.
LEMMA FillKeeps ==
    ASSUME ReplayInv, PersistFill, UNCHANGED <<attempt, calls, raises, aborted>>
    PROVE  ReplayInv'
  <1> DEFINE c == order.coid
             total == orders[c].filled + Abs(booked)
             row == [status |-> IF total >= Abs(orders[c].qty) THEN "FILLED" ELSE "PARTIAL",
                     qty |-> orders[c].qty,
                     filled |-> total]
  <1>1. /\ om_step = "mark_filled" /\ booked # 0 /\ booked \in Int
        /\ c \in Coid
        /\ orders[c] \in OrderRow
        /\ broker_fills[c] = <<booked>> /\ fills[c] = <<>>
        /\ fills \in [Coid -> Seq(Int)]
    BY RequestShape
       DEF ReplayInv, InHand, AnswerInHand, PersistFill, ReplayTypeOK, StoreTypeOK, OmTypeOK
  <1>2. /\ UNCHANGED <<batch, order, booked, acks, broker_fills, positions, cycles,
                       positions_snapshots, equity_curve, paper_state,
                       attempt, calls, raises, aborted>>
        /\ om_step' = "next"
        /\ fills' = [fills EXCEPT ![c] = Append(@, booked)]
        /\ orders' = [orders EXCEPT ![c] = row]
    BY DEF PersistFill, mark_filled, brokerVars
  <1>3. row \in OrderRow /\ row.status # "REJECTED"
    BY <1>1 DEF OrderRow, OrderStatus, Abs
  <1>4. /\ orders' \in [Coid -> OrderRow]
        /\ orders'[c] = row
        /\ \A d \in Coid \ {c} : orders'[d] = orders[d]
    <2> HIDE DEF c, row
    <2> QED
      BY <1>1, <1>2, <1>3, RowsStayRows DEF ReplayInv
  <1>5. /\ fills' \in [Coid -> Seq(Int)]
        /\ fills'[c] = broker_fills[c]
        /\ \A d \in Coid \ {c} : fills'[d] = fills[d]
    <2> HIDE DEF c
    <2> QED
      BY <1>1, <1>2
  <1> HIDE DEF row, total
  <1>6. ReplayTypeOK'
    BY <1>2, <1>4, <1>5, UntouchedTypes
       DEF ReplayInv, ReplayTypeOK, StoreTypeOK, BrokerTypeOK, OmTypeOK, OmSteps
  <1>7. InHand' /\ ExecutedOnce' /\ AnswerInHand'
    BY <1>2 DEF ReplayInv, InHand, ExecutedOnce, AnswerInHand
  <1>8. NothingInvented' /\ OnRecord'
    <2>1. NothingInvented /\ OnRecord
      BY DEF ReplayInv
    <2>2. \A d \in Coid : d = c \/ (fills'[d] = fills[d] /\ d # c)
      BY <1>5
    <2>3. NothingInvented'
      BY <1>2, <1>5, <2>1, <2>2 DEF NothingInvented
    <2>4. OnRecord'
      BY <1>2, <1>5, <2>1, <2>2 DEF OnRecord
    <2> QED
      BY <2>3, <2>4
  <1>9. RejectIsDefinitive'
    BY <1>2, <1>3, <1>4 DEF ReplayInv, RejectIsDefinitive
  <1> QED
    BY <1>6, <1>7, <1>8, <1>9 DEF ReplayInv

\* The call ends with an exception: the last attempt failed, or anything else.
LEMMA AbortKeeps ==
    ASSUME ReplayInv, SubmitExhausted \/ CallAborts
    PROVE  ReplayInv'
  <1>1. /\ UNCHANGED <<storeVars, calls>>
        /\ batch' = {} /\ order' = NoOrder /\ om_step' = "next" /\ booked' = 0
        /\ aborted' = TRUE /\ attempt' = 0 /\ raises' \in 0 .. MaxRaises
    BY ReplayAssumption
       DEF SubmitExhausted, CallAborts, OmReset, ReplayInv, ReplayTypeOK
  <1>2. UNCHANGED <<orders, fills>>
    BY <1>1 DEF storeVars
  <1>3. /\ acks' \in [Coid -> AckStatus] /\ broker_fills' \in [Coid -> Seq(Int)]
        /\ positions' \in [Instruments -> Int]
        /\ ExecutedOnce' /\ NothingInvented' /\ RejectIsDefinitive'
    <2>1. CASE CallAborts
      BY <1>2, <2>1
         DEF CallAborts, brokerVars, ReplayInv, ReplayTypeOK, BrokerTypeOK, ExecutedOnce,
             NothingInvented, RejectIsDefinitive
    <2>2. CASE SubmitExhausted
      <3>1. /\ om_step = "submit" /\ order \in Requests /\ order.coid \in Coid
            /\ order.qty \in Int
            /\ orders[order.coid].status \in NON_TERMINAL
        BY <2>2, RequestShape DEF ReplayInv, InHand, SubmitExhausted
      <3>2. /\ \/ UNCHANGED brokerVars
               \/ submit_rejected(order.coid)
               \/ \E q \in Fillable(order.qty) : submit_filled(order, q)
            /\ ReplayTypeOK
        BY <2>2 DEF SubmitExhausted, ReplayInv
      <3>3. positions' \in [Instruments -> Int]
        BY <3>1, <3>2, PositionsStayWhole DEF submit_rejected, brokerVars
      <3>4. /\ acks \in [Coid -> AckStatus] /\ broker_fills \in [Coid -> Seq(Int)]
            /\ ExecutedOnce /\ NothingInvented /\ RejectIsDefinitive
        BY DEF ReplayInv, ReplayTypeOK, BrokerTypeOK
      <3>5. CASE UNCHANGED brokerVars
        BY <1>2, <3>3, <3>4, <3>5
           DEF brokerVars, ExecutedOnce, NothingInvented, RejectIsDefinitive
      <3>6. CASE submit_rejected(order.coid)
        BY <1>2, <3>1, <3>3, <3>4, <3>6
           DEF submit_rejected, AckStatus, ExecutedOnce, NothingInvented, RejectIsDefinitive
      <3>7. CASE \E q \in Fillable(order.qty) : submit_filled(order, q)
        <4>1. PICK q \in Fillable(order.qty) : submit_filled(order, q)
          BY <3>7
        <4>2. /\ q \in Int
              /\ acks[order.coid] = "none"
              /\ acks' = [acks EXCEPT ![order.coid] = "accepted"]
              /\ broker_fills' = [broker_fills EXCEPT ![order.coid] = Append(@, q)]
          BY <3>1, <4>1, FillableIsWhole DEF submit_filled, book_fill
        <4>3. broker_fills[order.coid] = <<>> /\ fills[order.coid] = <<>>
          BY <3>1, <3>4, <4>2 DEF ExecutedOnce, NothingInvented
        <4>4. /\ acks' \in [Coid -> AckStatus] /\ broker_fills' \in [Coid -> Seq(Int)]
              /\ acks'[order.coid] = "accepted" /\ broker_fills'[order.coid] = <<q>>
              /\ \A d \in Coid \ {order.coid} :
                    acks'[d] = acks[d] /\ broker_fills'[d] = broker_fills[d]
          BY <3>1, <3>4, <4>2, <4>3 DEF AckStatus
        <4>5. ExecutedOnce'
          <5>1. Len(<<q>>) <= 1
            OBVIOUS
          <5>2. SUFFICES ASSUME NEW d \in Coid
                         PROVE  /\ Len(broker_fills'[d]) <= 1
                                /\ acks'[d] # "accepted" => broker_fills'[d] = <<>>
            BY DEF ExecutedOnce
          <5>3. CASE d = order.coid
            <6>1. acks'[d] = "accepted"
              BY <4>4, <5>3
            <6>2. broker_fills'[d] = <<q>>
              BY <4>4, <5>3
            <6> QED
              BY <5>1, <6>1, <6>2
          <5>4. CASE d # order.coid
            <6>1. acks'[d] = acks[d] /\ broker_fills'[d] = broker_fills[d]
              BY <4>4, <5>4
            <6> QED
              BY <3>4, <6>1 DEF ExecutedOnce
          <5> QED
            BY <5>3, <5>4
        <4>6. NothingInvented'
          BY <1>2, <3>4, <4>3, <4>4 DEF NothingInvented
        <4>7. RejectIsDefinitive'
          BY <1>2, <3>1, <3>4, <4>4, StatusesApart DEF RejectIsDefinitive
        <4> QED
          BY <3>3, <4>4, <4>5, <4>6, <4>7
      <3> QED
        BY <3>2, <3>5, <3>6, <3>7
    <2> QED
      BY <2>1, <2>2
  <1>4. ReplayTypeOK'
    BY <1>1, <1>3, ReplayAssumption
       DEF ReplayInv, ReplayTypeOK, StoreTypeOK, BrokerTypeOK, OmTypeOK, OmSteps, storeVars
  <1>5. InHand' /\ AnswerInHand' /\ OnRecord'
    BY <1>1 DEF InHand, AnswerInHand, OnRecord
  <1> QED
    BY <1>3, <1>4, <1>5 DEF ReplayInv

LEMMA StutterKeeps ==
    ASSUME ReplayInv, UNCHANGED replayVars
    PROVE  ReplayInv'
  BY DEF replayVars, storeVars, brokerVars, omVars, ReplayInv, ReplayTypeOK, StoreTypeOK,
         BrokerTypeOK, OmTypeOK, InHand, ExecutedOnce, NothingInvented, RejectIsDefinitive,
         AnswerInHand, OnRecord

-----------------------------------------------------------------------------
(* The theorems                                                            *)

\* The inductive invariant holds in every state.
THEOREM ReplayInvariant == ReplaySpec => []ReplayInv
  <1>1. ReplayInit => ReplayInv
    BY InitialInv
  <1>2. ReplayInv /\ [ReplayNext]_replayVars => ReplayInv'
    <2>1. SUFFICES ASSUME ReplayInv, [ReplayNext]_replayVars PROVE ReplayInv'
      OBVIOUS
    <2>2. CASE CallPlace \/ ReplaySkip
      BY <2>1, <2>2, CallPlaceKeeps
    <2>3. CASE ReplayIntent
      BY <2>1, <2>3, IntentKeeps
    <2>4. CASE SubmitAnswered \/ SubmitRetried
      BY <2>1, <2>4, SubmitKeeps
    <2>5. CASE ReplayRecord
      BY <2>1, <2>5, StatusKeeps, FillKeeps DEF ReplayRecord
    <2>6. CASE SubmitExhausted \/ CallAborts
      BY <2>1, <2>6, AbortKeeps
    <2>7. CASE UNCHANGED replayVars
      BY <2>1, <2>7, StutterKeeps
    <2> QED
      BY <2>1, <2>2, <2>3, <2>4, <2>5, <2>6, <2>7 DEF ReplayNext
  <1> QED
    BY <1>1, <1>2, PTL DEF ReplaySpec

\* Every row, fill, ack and position has its type, and the counters of the
\* retry stay within max_attempts.
THEOREM ReplayTypeCorrect == ReplaySpec => []ReplayTypeOK
  <1>1. ReplayInv => ReplayTypeOK
    BY DEF ReplayInv
  <1> QED
    BY <1>1, ReplayInvariant, PTL

\* However often place() is called and retried, an order executes at most once
\* and the store never holds a fill the broker did not execute.
THEOREM OrdersExecuteOnce == ReplaySpec => []AtMostOneFill
  <1>1. ReplayInv => AtMostOneFill
    BY DEF ReplayInv, ExecutedOnce, NothingInvented, AtMostOneFill
  <1> QED
    BY <1>1, ReplayInvariant, PTL

\* Until a call is aborted, the store has every fill of every order handled.
THEOREM FillsAreRecorded == ReplaySpec => []ReturnedMeansRecorded
  <1>1. ReplayInv => ReturnedMeansRecorded
    <2>1. SUFFICES ASSUME ReplayInv, ~aborted, om_step = "next" PROVE fills = broker_fills
      BY DEF ReturnedMeansRecorded
    <2>2. \A c \in Coid : fills[c] = broker_fills[c]
      BY <2>1 DEF ReplayInv, OnRecord
    <2>3. fills \in [Coid -> Seq(Int)] /\ broker_fills \in [Coid -> Seq(Int)]
      BY <2>1 DEF ReplayInv, ReplayTypeOK, StoreTypeOK, BrokerTypeOK
    <2> QED
      BY <2>2, <2>3
  <1> QED
    BY <1>1, ReplayInvariant, PTL

\* A REJECTED row is an order the broker refused for good.
THEOREM RejectsAreDefinitive == ReplaySpec => []RejectIsDefinitive
  <1>1. ReplayInv => RejectIsDefinitive
    BY DEF ReplayInv
  <1> QED
    BY <1>1, ReplayInvariant, PTL

\* A FILLED or REJECTED order is neither written nor sent again.
THEOREM TerminalIsFinal == ReplaySpec => TerminalOrderSticks
  <1>1. ReplayInv /\ [ReplayNext]_replayVars => [TerminalIsLeftAlone]_replayVars
    <2>1. SUFFICES ASSUME ReplayInv, ReplayNext, NEW c \in Coid,
                          orders[c].status \in TERMINAL
                   PROVE  orders'[c] = orders[c] /\ fills'[c] = fills[c] /\ acks'[c] = acks[c]
      BY DEF TerminalIsLeftAlone
    <2>2. om_step # "next" => order.coid \in Coid /\ c # order.coid
      BY <2>1, RequestShape, StatusesApart DEF ReplayInv, InHand
    <2>3. CASE CallPlace \/ ReplaySkip \/ CallAborts
      BY <2>3 DEF CallPlace, ReplaySkip, SkipReplay, CallAborts, storeVars, brokerVars
    <2>4. CASE ReplayIntent
      BY <2>1, <2>4
         DEF ReplayIntent, PersistIntent, record_intent, brokerVars, ReplayInv, ReplayTypeOK,
             StoreTypeOK
    <2>5. CASE SubmitAnswered \/ SubmitRetried
      <3>1. BrokerMoves(order.coid) /\ om_step = "submit" /\ UNCHANGED <<orders, fills>>
        BY <2>1, <2>5, SubmitMoves, LandedMoves
           DEF SubmitAnswered, Submit, SubmitRetried, storeVars
      <3>2. acks \in [Coid -> AckStatus]
        BY <2>1 DEF ReplayInv, ReplayTypeOK, BrokerTypeOK
      <3> QED
        BY <2>2, <3>1, <3>2 DEF BrokerMoves
    <2>6. CASE SubmitExhausted
      <3>1. acks \in [Coid -> AckStatus]
        BY <2>1 DEF ReplayInv, ReplayTypeOK, BrokerTypeOK
      <3> QED
        BY <2>2, <2>6, <3>1
           DEF SubmitExhausted, storeVars, brokerVars, submit_rejected, submit_filled, book_fill
    <2>7. CASE ReplayRecord
      <3>1. orders \in [Coid -> OrderRow] /\ fills \in [Coid -> Seq(Int)]
        BY <2>1 DEF ReplayInv, ReplayTypeOK, StoreTypeOK
      <3> QED
        BY <2>2, <2>7, <3>1
           DEF ReplayRecord, PersistReject, PersistSubmitted, PersistFill, mark_rejected,
               mark_submitted, mark_filled, set_order_status, brokerVars
    <2> QED
      BY <2>1, <2>3, <2>4, <2>5, <2>6, <2>7 DEF ReplayNext
  <1> QED
    BY <1>1, ReplayInvariant, PTL DEF ReplaySpec, TerminalOrderSticks
=============================================================================
