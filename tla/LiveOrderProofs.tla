--------------------------- MODULE LiveOrderProofs ---------------------------
(***************************************************************************)
(* Proofs about LiveOrder for any amount, fill sizes, lots, numbers of     *)
(* attempts and faults.                                                    *)
(***************************************************************************)
EXTENDS LiveOrder, TLAPS, WellFoundedInduction

Limit == exch[Key("lmt")]
Market == exch[Key("mkt")]

OrderRecords == [oid : {<<>>, <<"lmt">>, <<"mkt">>}, qty : Nat, filled : Nat,
                 state : {"none", "open", "closed"}]
CryptoSteps == {"limit", "wait", "cancel", "market", "mwait"}
BrokerSteps == {"send", "answer"}
BusySteps == CryptoSteps \cup BrokerSteps \cup {"finish", "book", "retract"}

TypeOK ==
    /\ venue \in Venues /\ kind \in {"open", "close"} /\ limitFirst \in BOOLEAN
    /\ held \in Nat
    /\ exch \in [Keys -> OrderRecords]
    /\ status \in {"pending", "processing", "sent", "failed"}
    /\ attempts \in 0..MaxAttempts
    /\ pc \in {"idle", "prepare"} \cup BusySteps
    /\ amount \in Nat /\ remaining \in Nat /\ total \in Nat /\ seen \in Nat
    /\ booked \in Nat /\ faults \in Nat

\* How the row and the dispatch go together: every attempt but the last cost a
\* fault.
RowInv ==
    /\ status = "pending" => pc = "idle" /\ attempts < MaxAttempts /\ attempts <= faults
    /\ status = "processing" /\ pc \in {"idle", "book"} => attempts <= faults
    /\ attempts <= faults + 1
    /\ pc \notin {"idle", "book", "retract"} => status = "processing"
    /\ pc \in {"book", "retract"} => status \in {"processing", "sent"}
    /\ status # "pending" => attempts > 0
    /\ pc \in CryptoSteps => venue = "crypto"
    /\ pc \in BrokerSteps \cup {"retract"} => venue # "crypto"
    /\ pc = "retract" => faults > 0

\* What an order of the exchange is.
OrderInv(k) ==
    LET order == exch[k] IN
    /\ k[1] > attempts \/ order.state = "none" => order = NoOrder
    /\ order.filled <= order.qty /\ order.qty <= Asked + Rounding
    /\ venue = "crypto" =>
          /\ order.qty <= Asked
          /\ order.state # "none" => order.oid = <<k[2]>>
    /\ venue # "crypto" /\ k[2] = "lmt" => order = NoOrder

OrdersInv == \A k \in Keys : OrderInv(k)

\* No two attempts have an order of the same phase accepted.
OncePerPhase ==
    venue = "crypto" /\ RefusesRepeats =>
        \A k, l \in Keys :
            k[2] = l[2] /\ exch[k].state # "none" /\ exch[l].state # "none" => k = l

\* What a dispatch knows of the orders of its attempt.
AttemptInv ==
    attempts > 0 =>
        /\ Limit.qty <= amount /\ amount <= Asked
        /\ Market.qty + seen <= amount + Rounding
        /\ seen <= Limit.filled /\ total <= Limit.filled + Market.filled
        /\ pc \in {"prepare", "limit", "send"} => Limit = NoOrder /\ seen = 0 /\ total = 0
        /\ pc = "wait" => seen = 0 /\ total = 0
        /\ pc = "answer" => total = 0
        /\ pc \in {"prepare", "limit", "send", "wait", "cancel", "market"} => Market = NoOrder
        /\ pc \in {"cancel", "market", "mwait"} => total = seen
        /\ pc \in BusySteps => amount > 0
        /\ pc \in {"limit", "wait"} => remaining = amount
        /\ pc \in {"cancel", "market"} => remaining + seen <= amount

\* An order stands behind every attempt that comes to its end.
BackingInv ==
    attempts > 0 =>
        /\ pc \in {"wait", "cancel"} => Limit.state # "none"
        /\ pc = "market" => Limit.state # "none" \/ remaining = amount
        /\ pc = "mwait" \/ pc = "answer" => Market.state # "none"
        /\ pc \in {"finish", "book", "retract"} \/ status = "sent" =>
              Limit.state # "none" \/ Market.state # "none"

\* Without faults a limit order stays open only if the rest was not worth cancelling.
RestingInv ==
    (attempts > 0 /\ faults = 0 /\ pc \notin {"wait", "cancel"} /\ Limit.state = "open") =>
        \/ 1000 * (amount - seen) <= amount
        \/ amount - seen < MinTail

\* Without faults the first dispatch is the only one, and it books at its end.
BookingInv ==
    faults = 0 =>
        /\ booked = IF status = "sent" /\ pc = "idle" THEN FilledFinal ELSE 0
        /\ status = "failed" => total = 0

IInv ==
    /\ TypeOK /\ RowInv /\ OrdersInv /\ OncePerPhase
    /\ AttemptInv /\ BackingInv /\ RestingInv /\ BookingInv

-----------------------------------------------------------------------------
(* Lemmas about the operators.                                             *)

\* Rounding to lots adds at most half a lot.
LEMMA LotsBound ==
    ASSUME NEW a \in Nat
    PROVE  Lots(a) \in Nat /\ Lots(a) <= a + LotStep \div 2
<1> DEFINE q == (2 * a + LotStep) \div (2 * LotStep)
<1>1. LotStep \in Nat /\ LotStep > 0
  BY SizesAssumption
<1>2. q \in Nat /\ q * (2 * LotStep) <= 2 * a + LotStep
  BY <1>1
<1>3. Lots(a) = q * LotStep
  BY DEF Lots
<1>4. q * LotStep \in Nat /\ q * (2 * LotStep) = 2 * (q * LotStep)
  BY <1>1, <1>2
<1> HIDE DEF q
<1>5. QED
  BY <1>1, <1>2, <1>3, <1>4

\* A dispatch asks for no more than the payload.
LEMMA AmountsBound == TypeOK => \A a \in Amounts : a \in Nat /\ a <= Asked
<1> SUFFICES ASSUME TypeOK, NEW a \in Amounts
             PROVE  a \in Nat /\ a <= Asked
  OBVIOUS
<1>1. Asked \in Nat /\ FillLevels \subseteq Nat /\ held \in Nat
  BY SizesAssumption DEF TypeOK
<1>2. \A b \in CutToRow : b \in Nat /\ b <= Asked
  BY <1>1 DEF CutToRow, Least
<1>3. \A b \in CutToRow : \A c \in CutToPosition(b) : c \in Nat /\ c <= b
  BY <1>1, <1>2 DEF CutToPosition, Least
<1>4. QED
  BY <1>1, <1>2, <1>3 DEF Amounts

\* What the market phase takes is what is left of the amount, or nothing.
LEMMA RestBound ==
    ASSUME amount \in Nat, NEW f \in Nat
    PROVE  /\ Rest(f) \in Nat /\ Rest(f) <= amount
           /\ f <= amount => Rest(f) = amount - f
           /\ \A r \in TailGuarded(Rest(f)) :
                r = Rest(f) \/ (r = 0 /\ Rest(f) < MinTail)
<1>1. Rest(f) = IF amount > f THEN amount - f ELSE 0
  BY DEF Rest, Max
<1>2. QED
  BY <1>1 DEF TailGuarded

\* A step that leaves the exchange and the attempt alone keeps its two orders.
LEMMA Quiet ==
    ASSUME UNCHANGED <<exch, attempts>>
    PROVE  Limit' = Limit /\ Market' = Market
  BY DEF Limit, Market, Key

\* The two orders of the attempt are orders.
LEMMA OrderTypes ==
    ASSUME TypeOK, attempts > 0
    PROVE  Limit \in OrderRecords /\ Market \in OrderRecords
  BY DEF TypeOK, Limit, Market, Key, Keys, Phases

\* The invariant holds before the first dispatch.
LEMMA InitIInv == Init => IInv
<1> SUFFICES ASSUME Init PROVE IInv
  OBVIOUS
<1>0. Asked \in Nat /\ MaxAttempts \in Nat \ {0} /\ FillLevels \subseteq Nat /\ LotStep \in Nat
  BY SizesAssumption, BoundsAssumption
<1>1. TypeOK
  <2>1. NoOrder \in OrderRecords
    BY DEF NoOrder, OrderRecords
  <2>2. held \in Nat
    BY <1>0 DEF Init
  <2>3. limitFirst \in BOOLEAN
    <3>1. CASE venue = "crypto"
      BY <3>1, Zenon DEF Init
    <3>2. CASE venue # "crypto"
      BY <3>2, Zenon DEF Init
    <3>3. QED
      BY <3>1, <3>2
  <2>4. QED
    BY <1>0, <2>1, <2>2, <2>3 DEF Init, TypeOK
<1>2. OrdersInv
  <2>1. Asked + Rounding \in Nat
    BY <1>0, SizesAssumption DEF Rounding
  <2>2. QED
    BY <1>0, <2>1 DEF Init, OrdersInv, OrderInv, NoOrder
<1>3. QED
  BY <1>0, <1>1, <1>2
     DEF Init, IInv, RowInv, OncePerPhase, AttemptInv, BackingInv, RestingInv,
     BookingInv, NoOrder, CryptoSteps, BrokerSteps

-----------------------------------------------------------------------------
(* Types.                                                                  *)

\* The exchange's side of a step.
LEMMA ExchTypes ==
    ASSUME TypeOK, RowInv,
           \/ \E k \in Keys : Fill(k) \/ Expire(k)
           \/ PlaceLimit \/ LimitFails \/ Cancel \/ PlaceMarket \/ MarketBreaks \/ BrokerSend
    PROVE  TypeOK'
<1> USE SizesAssumption, BoundsAssumption DEF TypeOK, OrderRecords, config, row
<1>0. pc \in CryptoSteps \cup BrokerSteps => Key("lmt") \in Keys /\ Key("mkt") \in Keys
  BY DEF RowInv, Key, Keys, Phases, CryptoSteps, BrokerSteps
<1>1. ASSUME NEW k \in Keys, Fill(k)
      PROVE  TypeOK'
  <2>1. PICK level \in FillLevels :
            /\ 0 < level - exch[k].filled
            /\ ReduceOnly => level - exch[k].filled <= held
            /\ held' = IF ReduceOnly THEN held - (level - exch[k].filled) ELSE held
            /\ exch' = [exch EXCEPT ![k].filled = level,
                                    ![k].state = IF level = exch[k].qty THEN "closed" ELSE @]
    BY <1>1 DEF Fill
  <2>2. held' \in Nat
    BY <2>1
  <2>3. exch' \in [Keys -> OrderRecords]
    <3>1. exch' = [exch EXCEPT ![k] =
                     [exch[k] EXCEPT !.filled = level,
                                     !.state = IF level = exch[k].qty THEN "closed" ELSE @]]
      BY <2>1
    <3>2. level \in Nat /\ exch[k] \in OrderRecords
      OBVIOUS
    <3>3. [exch[k] EXCEPT !.filled = level,
                          !.state = IF level = exch[k].qty THEN "closed" ELSE @] \in OrderRecords
      BY <3>2
    <3>4. QED
      BY <3>1, <3>3
  <2>4. QED
    BY <1>1, <2>2, <2>3 DEF Fill
<1>2. ASSUME NEW k \in Keys, Expire(k)
      PROVE  TypeOK'
  BY <1>2 DEF Expire
<1>3. CASE PlaceLimit
  BY <1>3, <1>0 DEF PlaceLimit, Placed, ClientOid, BusySteps, CryptoSteps
<1>4. CASE LimitFails
  <2>1. exch' \in [Keys -> OrderRecords] /\ faults' \in Nat
    <3>1. CASE UNCHANGED <<exch, faults>>
      BY <3>1
    <3>2. CASE Fault /\ exch' = Placed("lmt", remaining)
      BY <3>2, <1>0, <1>4 DEF LimitFails, Placed, ClientOid, CryptoSteps, Fault
    <3>3. QED
      BY <3>1, <3>2, <1>4 DEF LimitFails
  <2>2. QED
    BY <1>4, <2>1 DEF LimitFails, BusySteps, CryptoSteps
<1>5. CASE Cancel
  <2>1. exch' \in [Keys -> OrderRecords] /\ faults' \in Nat
    <3>1. CASE exch' = [exch EXCEPT ![Key("lmt")].state = "closed"] /\ UNCHANGED faults
      BY <3>1, <1>0, <1>5 DEF Cancel, CryptoSteps
    <3>2. CASE Fault /\ UNCHANGED exch
      BY <3>2 DEF Fault
    <3>3. QED
      BY <3>1, <3>2, <1>5 DEF Cancel
  <2>2. QED
    BY <1>5, <2>1 DEF Cancel, BusySteps, CryptoSteps
<1>6. CASE PlaceMarket
  BY <1>6, <1>0 DEF PlaceMarket, Placed, ClientOid, BusySteps, CryptoSteps
<1>7. CASE MarketBreaks
  BY <1>7, <1>0 DEF MarketBreaks, Placed, ClientOid, MarkFailed, Fault
<1>8. CASE BrokerSend
  BY <1>8, <1>0, LotsBound DEF BrokerSend, NoOrder, BusySteps, BrokerSteps
<1>9. QED
  BY <1>1, <1>2, <1>3, <1>4, <1>5, <1>6, <1>7, <1>8

\* The steps that place and change no order.
LEMMA OtherTypes ==
    ASSUME TypeOK, RowInv,
           \/ Claim \/ Requeue \/ Crash
           \/ Reject \/ Prepare \/ WaitLimit \/ NoMarket \/ MarketRefused \/ WaitMarket
           \/ BrokerRefuses \/ AnswerIbkr \/ AnswerMt5 \/ AnswerLost \/ Finish \/ Retract \/ Book
           \/ UNCHANGED vars
    PROVE  TypeOK'
<1> USE SizesAssumption, BoundsAssumption
    DEF TypeOK, config, row, BusySteps, CryptoSteps, BrokerSteps, MarkFailed, Fault
<1>1. CASE Claim
  BY <1>1 DEF Claim, RowInv
<1>2. CASE Requeue \/ Crash \/ Reject \/ BrokerRefuses \/ AnswerLost \/ NoMarket
  BY <1>2 DEF Requeue, Crash, Reject, BrokerRefuses, AnswerLost, NoMarket
<1>3. CASE Prepare
  BY <1>3, AmountsBound DEF Prepare
<1>4. \A phase \in Phases : \A r \in Reports(phase) : r \in Nat
  BY DEF Reports
<1>5. CASE WaitLimit
  <2>1. PICK r \in Reports("lmt") :
            /\ total' = total + r /\ seen' = r
            /\ \E rest \in TailGuarded(Rest(total')) :
                 /\ remaining' = rest
                 /\ pc' = IF WorthCancelling(rest) THEN "cancel" ELSE "market"
    BY <1>5 DEF WaitLimit
  <2>2. r \in Nat /\ total' \in Nat
    BY <2>1, <1>4 DEF Phases
  <2>3. remaining' \in Nat
    BY <2>1, <2>2, RestBound
  <2>4. QED
    BY <1>5, <2>1, <2>2, <2>3 DEF WaitLimit
<1>6. CASE MarketRefused
  BY <1>6 DEF MarketRefused
<1>7. CASE WaitMarket
  BY <1>7, <1>4 DEF WaitMarket, Phases
<1>8. CASE AnswerIbkr
  BY <1>8, <1>4 DEF AnswerIbkr, Phases
<1>9. CASE AnswerMt5
  BY <1>9 DEF AnswerMt5, Key, Keys, Phases, OrderRecords, RowInv
<1>10. CASE Finish \/ Retract
  BY <1>10 DEF Finish, Retract
<1>11. CASE Book
  BY <1>11 DEF Book, FilledFinal
<1>12. CASE UNCHANGED vars
  BY <1>12 DEF vars
<1>13. QED
  BY <1>1, <1>2, <1>3, <1>5, <1>6, <1>7, <1>8, <1>9, <1>10, <1>11, <1>12

-----------------------------------------------------------------------------
(* The exchange's side of the invariant.                                   *)

\* An order that the exchange executes, closes or leaves alone.
Grows(k) ==
    /\ exch[k].state = "none" => exch'[k] = exch[k]
    /\ exch[k].state # "none" => exch'[k].state # "none"
    /\ exch'[k].state = "open" => exch[k].state = "open"
    /\ exch'[k].oid = exch[k].oid /\ exch'[k].qty = exch[k].qty
    /\ exch[k].filled <= exch'[k].filled /\ exch'[k].filled <= exch[k].qty

\* Executions and expiries are such changes, for every order.
LEMMA FillGrows ==
    ASSUME TypeOK, OrdersInv, NEW k \in Keys, Fill(k) \/ Expire(k)
    PROVE  \A l \in Keys : Grows(l)
<1> SUFFICES ASSUME NEW l \in Keys
             PROVE  Grows(l)
  OBVIOUS
<1> USE DEF TypeOK, OrderRecords, Grows
<1>1. exch[l] \in OrderRecords /\ exch[l].filled <= exch[l].qty /\ exch[l].filled \in Nat
  BY DEF OrdersInv, OrderInv
<1>2. CASE Fill(k)
  <2>1. PICK level \in FillLevels :
            /\ exch[k].state = "open"
            /\ 0 < level - exch[k].filled /\ level <= exch[k].qty
            /\ exch' = [exch EXCEPT ![k].filled = level,
                                    ![k].state = IF level = exch[k].qty THEN "closed" ELSE @]
    BY <1>2 DEF Fill
  <2>2. level \in Nat
    BY SizesAssumption
  <2>3. CASE l = k
    BY <2>1, <2>2, <2>3
  <2>4. CASE l # k
    BY <2>1, <2>4, <1>1
  <2>5. QED
    BY <2>3, <2>4
<1>3. CASE Expire(k)
  BY <1>1, <1>3 DEF Expire
<1>4. QED
  BY <1>2, <1>3

\* Such changes keep what is known of the orders.
LEMMA GrowthKeepsOrders ==
    ASSUME TypeOK, OrdersInv, OncePerPhase, \A k \in Keys : Grows(k),
           UNCHANGED <<config, attempts>>
    PROVE  OrdersInv' /\ OncePerPhase'
<1> USE DEF Grows, TypeOK, OrderRecords, config
<1>1. OrdersInv'
  BY DEF OrdersInv, OrderInv, Rounding, NoOrder
<1>2. OncePerPhase'
  BY DEF OncePerPhase
<1>3. QED
  BY <1>1, <1>2

\* So does an order the exchange accepts: it refused any earlier one of its id.
LEMMA PlacedKeepsOrders ==
    ASSUME TypeOK, OrdersInv, OncePerPhase, attempts > 0, venue = "crypto",
           NEW phase \in Phases, NEW qty \in Nat, qty <= Asked,
           Accepts(phase), exch' = Placed(phase, qty), UNCHANGED <<config, attempts>>
    PROVE  /\ OrdersInv' /\ OncePerPhase'
           /\ exch'[Key(phase)] = [oid |-> <<phase>>, qty |-> qty, filled |-> 0, state |-> "open"]
           /\ \A other \in Phases \ {phase} : exch'[Key(other)] = exch[Key(other)]
<1> USE SizesAssumption DEF TypeOK, config
<1> DEFINE key == <<attempts, phase>>
           order == [oid |-> <<phase>>, qty |-> qty, filled |-> 0, state |-> "open"]
<1>1. exch' = [exch EXCEPT ![key] = order] /\ key \in Keys
  BY DEF Placed, ClientOid, Key, Keys
<1>2. exch'[key] = order /\ \A l \in Keys \ {key} : exch'[l] = exch[l]
  BY <1>1
<1>3. Rounding = 0
  BY DEF Rounding
<1>4. OrdersInv'
  <2> SUFFICES ASSUME NEW l \in Keys
               PROVE  OrderInv(l)'
    BY DEF OrdersInv, OrderInv
  <2>1. CASE l = key
    BY <1>2, <1>3, <2>1 DEF OrderInv, Rounding
  <2>2. CASE l # key
    BY <1>2, <2>2 DEF OrdersInv, OrderInv, Rounding
  <2>3. QED
    BY <2>1, <2>2
<1>5. OncePerPhase'
  <2> SUFFICES ASSUME RefusesRepeats, NEW l \in Keys, l[2] = phase, exch[l].state # "none"
               PROVE  FALSE
    BY <1>2 DEF OncePerPhase
  <2>1. exch[l].oid = <<phase>>
    BY DEF OrdersInv, OrderInv
  <2>2. exch[l].oid # <<phase>>
    BY DEF Accepts, ClientOid
  <2>3. QED
    BY <2>1, <2>2
<1>6. QED
  BY <1>2, <1>4, <1>5 DEF Key, Keys, Phases

\* The steps that leave the exchange's orders and the attempt alone.
Quietly ==
    \/ Requeue \/ Crash \/ Reject \/ Prepare \/ WaitLimit \/ NoMarket \/ MarketRefused
    \/ WaitMarket \/ BrokerRefuses \/ AnswerIbkr \/ AnswerMt5 \/ AnswerLost
    \/ Finish \/ Retract \/ Book \/ UNCHANGED vars

\* They keep what is known of the orders.
LEMMA QuietlyKeepsOrders ==
    ASSUME OrdersInv, OncePerPhase, Quietly
    PROVE  /\ OrdersInv' /\ OncePerPhase'
           /\ UNCHANGED <<exch, attempts, config>>
<1>1. UNCHANGED <<exch, attempts, config>>
  BY DEF Quietly, Requeue, Crash, Reject, Prepare, WaitLimit, NoMarket, MarketRefused,
     WaitMarket, BrokerRefuses, AnswerIbkr, AnswerMt5, AnswerLost, Finish, Retract, Book, vars, row
<1>2. QED
  BY <1>1 DEF OrdersInv, OrderInv, OncePerPhase, Rounding, config

\* Every step keeps what is known of the orders.
LEMMA OrdersStep ==
    ASSUME TypeOK, RowInv, OrdersInv, OncePerPhase, AttemptInv, BackingInv, [Next]_vars
    PROVE  OrdersInv' /\ OncePerPhase'
<1> USE SizesAssumption
<1>0. amount \in Nat /\ remaining \in Nat
  BY DEF TypeOK
<1>1. ASSUME NEW k \in Keys, Fill(k) \/ Expire(k)
      PROVE  OrdersInv' /\ OncePerPhase'
  <2>1. UNCHANGED <<config, attempts>>
    BY <1>1 DEF Fill, Expire, row
  <2>2. QED
    BY <1>1, <2>1, FillGrows, GrowthKeepsOrders
<1>2. CASE Claim
  BY <1>2 DEF Claim, OrdersInv, OrderInv, OncePerPhase, Rounding, config, TypeOK, Keys
<1>3. CASE Quietly
  BY <1>3, QuietlyKeepsOrders
<1>4. ASSUME exch' = Placed("lmt", remaining), pc = "limit", Accepts("lmt"),
             UNCHANGED <<config, attempts>>
      PROVE  OrdersInv' /\ OncePerPhase'
  <2>1. attempts > 0 /\ venue = "crypto" /\ remaining <= Asked
    BY <1>0, <1>4 DEF RowInv, AttemptInv, CryptoSteps
  <2>2. QED
    BY <1>0, <1>4, <2>1, PlacedKeepsOrders DEF Phases
<1>5. ASSUME exch' = Placed("mkt", remaining), pc = "market", Accepts("mkt"),
             UNCHANGED <<config, attempts>>
      PROVE  OrdersInv' /\ OncePerPhase'
  <2>1. attempts > 0 /\ venue = "crypto" /\ remaining <= Asked
    BY <1>0, <1>5 DEF RowInv, AttemptInv, CryptoSteps, TypeOK
  <2>2. QED
    BY <1>0, <1>5, <2>1, PlacedKeepsOrders DEF Phases
<1>6. ASSUME UNCHANGED <<exch, config, attempts>>
      PROVE  OrdersInv' /\ OncePerPhase'
  BY <1>6 DEF OrdersInv, OrderInv, OncePerPhase, Rounding, config
<1>7. CASE PlaceLimit
  BY <1>7, <1>4 DEF PlaceLimit, row
<1>8. CASE LimitFails
  BY <1>8, <1>4, <1>6 DEF LimitFails, row
<1>9. CASE PlaceMarket
  BY <1>9, <1>5 DEF PlaceMarket, row
<1>10. CASE MarketBreaks
  BY <1>10, <1>5, <1>6 DEF MarketBreaks
<1>11. CASE Cancel
  <2>1. Key("lmt") \in Keys /\ Limit.state # "none"
    BY <1>11 DEF Cancel, RowInv, BackingInv, Key, Keys, Phases, TypeOK
  <2>2. CASE exch' = [exch EXCEPT ![Key("lmt")].state = "closed"]
    <3>1. \A k \in Keys : Grows(k)
      BY <2>1, <2>2 DEF Grows, OrdersInv, OrderInv, TypeOK, OrderRecords, Limit
    <3>2. QED
      BY <3>1, <1>11, GrowthKeepsOrders DEF Cancel, row
  <2>3. QED
    BY <1>6, <1>11, <2>2 DEF Cancel, row
<1>12. CASE BrokerSend
  <2>1. Key("mkt") \in Keys /\ venue # "crypto" /\ Key("mkt")[2] # "lmt" /\ attempts > 0
    BY <1>12 DEF BrokerSend, RowInv, BrokerSteps, Key, Keys, Phases, TypeOK
  <2> DEFINE qty == IF venue = "mt5" THEN Lots(amount) ELSE amount
  <2>2. /\ qty \in Nat /\ qty <= Asked + Rounding
        /\ exch' = [exch EXCEPT ![Key("mkt")] = [NoOrder EXCEPT !.qty = qty, !.state = "open"]]
    <3>1. amount <= Asked
      BY <2>1 DEF AttemptInv
    <3>2. qty \in Nat /\ qty <= Asked + Rounding
      BY <1>0, <3>1, LotsBound DEF Rounding
    <3>3. QED
      BY <1>12, <3>2 DEF BrokerSend
  <2> HIDE DEF qty
  <2>3. UNCHANGED <<config, attempts>>
    BY <1>12 DEF BrokerSend, row
  <2>4. OrdersInv'
    BY <2>1, <2>2, <2>3 DEF OrdersInv, OrderInv, NoOrder, Rounding, config, TypeOK, Key
  <2>5. QED
    BY <2>1, <2>3, <2>4 DEF OncePerPhase, config
<1>13. QED
  BY <1>1, <1>2, <1>3, <1>7, <1>8, <1>9, <1>10, <1>11, <1>12
     DEF Next, Exchange, Queue, Dispatch, Quietly

-----------------------------------------------------------------------------
(* The dispatch's side of the invariant.                                   *)

\* Every step keeps the row and the dispatch together.
LEMMA RowStep ==
    ASSUME TypeOK, RowInv, [Next]_vars
    PROVE  RowInv'
<1> USE BoundsAssumption
    DEF TypeOK, RowInv, CryptoSteps, BrokerSteps, row, config, MarkFailed, Fault
<1>1. ASSUME NEW k \in Keys, Fill(k) \/ Expire(k)
      PROVE  RowInv'
  BY <1>1 DEF Fill, Expire
<1>2. CASE Claim \/ Requeue \/ Crash
  BY <1>2 DEF Claim, Requeue, Crash
<1>3. CASE Reject \/ Prepare
  BY <1>3 DEF Reject, Prepare
<1>4. CASE PlaceLimit \/ LimitFails \/ Cancel
  BY <1>4 DEF PlaceLimit, LimitFails, Cancel
<1>5. CASE WaitLimit
  BY <1>5 DEF WaitLimit
<1>6. CASE NoMarket \/ PlaceMarket \/ MarketRefused \/ MarketBreaks \/ WaitMarket
  BY <1>6 DEF NoMarket, PlaceMarket, MarketRefused, MarketBreaks, WaitMarket
<1>7. CASE BrokerSend \/ BrokerRefuses \/ AnswerIbkr \/ AnswerMt5 \/ AnswerLost
  BY <1>7 DEF BrokerSend, BrokerRefuses, AnswerIbkr, AnswerMt5, AnswerLost
<1>8. CASE Finish \/ Retract \/ Book
  BY <1>8 DEF Finish, Retract, Book
<1>9. CASE UNCHANGED vars
  BY <1>9 DEF vars
<1>10. QED
  BY <1>1, <1>2, <1>3, <1>4, <1>5, <1>6, <1>7, <1>8, <1>9
     DEF Next, Exchange, Queue, Dispatch

DispatchInv == AttemptInv /\ BackingInv /\ RestingInv /\ BookingInv

\* Executions and expiries.
LEMMA ExchangeKeepsDispatch ==
    ASSUME TypeOK, RowInv, OrdersInv, DispatchInv, NEW k \in Keys, Fill(k) \/ Expire(k)
    PROVE  DispatchInv'
<1> USE SizesAssumption
<1>1. /\ UNCHANGED <<config, status, attempts, pc, amount, remaining, total, seen, booked, faults>>
  BY DEF Fill, Expire, row
<1>2. CASE attempts = 0
  BY <1>1, <1>2 DEF DispatchInv, AttemptInv, BackingInv, RestingInv, BookingInv, FilledFinal
<1>3. CASE attempts > 0
  <2>1. Key("lmt") \in Keys /\ Key("mkt") \in Keys /\ Key("lmt")' = Key("lmt") /\ Key("mkt")' = Key("mkt")
    BY <1>1, <1>3 DEF Key, Keys, Phases, TypeOK
  <2>2. Grows(Key("lmt")) /\ Grows(Key("mkt"))
    BY <2>1, FillGrows
  <2>3. /\ Limit.state = "none" => Limit' = Limit
        /\ Limit.state # "none" => Limit'.state # "none"
        /\ Limit'.state = "open" => Limit.state = "open"
        /\ Limit'.qty = Limit.qty
        /\ Limit.filled <= Limit'.filled /\ Limit'.filled <= Limit.qty
    BY <2>1, <2>2 DEF Grows, Limit
  <2>4. /\ Market.state = "none" => Market' = Market
        /\ Market.state # "none" => Market'.state # "none"
        /\ Market'.qty = Market.qty
        /\ Market.filled <= Market'.filled /\ Market'.filled <= Market.qty
    BY <2>1, <2>2 DEF Grows, Market
  <2>5. Limit \in OrderRecords /\ Market \in OrderRecords /\ Limit' \in OrderRecords /\ Market' \in OrderRecords
    <3>1. TypeOK'
      BY ExchTypes
    <3>2. QED
      BY <3>1, <2>1 DEF TypeOK, Limit, Market
  <2>6. AttemptInv'
    BY <1>1, <1>3, <2>3, <2>4, <2>5
       DEF DispatchInv, AttemptInv, OrderRecords, NoOrder, Rounding, TypeOK, config
  <2>7. BackingInv'
    BY <1>1, <1>3, <2>3, <2>4 DEF DispatchInv, BackingInv
  <2>8. RestingInv'
    BY <1>1, <1>3, <2>3 DEF DispatchInv, RestingInv
  <2>9. BookingInv'
    BY <1>1 DEF DispatchInv, BookingInv, FilledFinal
  <2>10. QED
    BY <2>6, <2>7, <2>8, <2>9 DEF DispatchInv
<1>4. QED
  BY <1>2, <1>3 DEF TypeOK

\* The row moves between dispatches, or a dispatch begins or gives up.
LEMMA QueueKeepsDispatch ==
    ASSUME TypeOK, RowInv, OrdersInv, DispatchInv,
           \/ Claim \/ Requeue \/ Crash \/ Reject \/ Prepare \/ BrokerRefuses \/ AnswerLost
           \/ UNCHANGED vars
    PROVE  DispatchInv'
<1> USE SizesAssumption, BoundsAssumption DEF DispatchInv
<1>1. CASE Claim
  <2>1. /\ attempts + 1 <= MaxAttempts /\ attempts' = attempts + 1
        /\ exch' = exch /\ UNCHANGED config
    BY <1>1 DEF Claim, RowInv, TypeOK
  <2>2. Limit' = NoOrder /\ Market' = NoOrder
    BY <2>1 DEF OrdersInv, OrderInv, Limit, Market, Key, Keys, Phases, TypeOK
  <2>3. AttemptInv'
    BY <1>1, <2>2
       DEF Claim, AttemptInv, NoOrder, Rounding, BusySteps, CryptoSteps, BrokerSteps
  <2>4. BackingInv'
    BY <1>1 DEF Claim, BackingInv
  <2>5. RestingInv'
    BY <1>1, <2>2 DEF RestingInv, NoOrder
  <2>6. BookingInv'
    BY <1>1 DEF Claim, BookingInv
  <2>7. QED
    BY <2>3, <2>4, <2>5, <2>6
<1>2. CASE Requeue \/ Crash \/ Reject \/ BrokerRefuses \/ AnswerLost
  <2>1. UNCHANGED <<exch, attempts, config, amount, remaining, total, seen, booked>>
    BY <1>2 DEF Requeue, Crash, Reject, BrokerRefuses, AnswerLost, row
  <2>2. Limit' = Limit /\ Market' = Market
    BY <2>1, Quiet
  <2>3. pc' = "idle" /\ (status' = status \/ status' \in {"pending", "failed"})
    BY <1>2 DEF Requeue, Crash, Reject, BrokerRefuses, AnswerLost, MarkFailed, row
  <2>4. AttemptInv'
    BY <2>1, <2>2, <2>3
       DEF AttemptInv, Rounding, BusySteps, CryptoSteps, BrokerSteps, config
  <2>5. BackingInv'
    BY <2>1, <2>2, <2>3 DEF BackingInv
  <2>6. faults' = 0 => faults = 0
    BY <1>2 DEF Requeue, Crash, Reject, BrokerRefuses, AnswerLost, Fault, TypeOK
  <2>7. RestingInv'
    BY <1>2, <2>1, <2>2, <2>6
       DEF RestingInv, Requeue, Crash, Reject, BrokerRefuses, AnswerLost, Fault, TypeOK
  <2>8. BookingInv'
    <3>1. CASE Crash \/ AnswerLost
      BY <3>1 DEF BookingInv, Crash, AnswerLost, Fault, TypeOK
    <3>2. CASE Requeue \/ Reject \/ BrokerRefuses
      <4>1. status # "sent" /\ status' # "sent"
        BY <3>2 DEF Requeue, Reject, BrokerRefuses, MarkFailed, RowInv
      <4>2. status' = "failed" => total' = 0
        BY <2>1, <3>2 DEF Requeue, Reject, BrokerRefuses, AttemptInv, RowInv, BrokerSteps, TypeOK
      <4>3. QED
        BY <2>1, <2>6, <4>1, <4>2 DEF BookingInv
    <3>3. QED
      BY <1>2, <3>1, <3>2
  <2>9. QED
    BY <2>4, <2>5, <2>7, <2>8
<1>3. CASE Prepare
  <2>1. UNCHANGED <<exch, attempts, config, total, seen, booked, faults, status>>
    BY <1>3 DEF Prepare, row
  <2>2. Limit' = Limit /\ Market' = Market
    BY <2>1, Quiet
  <2>3. PICK a \in Nat : a > 0 /\ a <= Asked /\ amount' = a /\ remaining' = a
    BY <1>3, AmountsBound DEF Prepare
  <2>4. pc = "prepare" /\ pc' \in {"send", "limit", "market"}
    BY <1>3 DEF Prepare
  <2>5. Limit = NoOrder /\ Market = NoOrder /\ seen = 0 /\ total = 0 /\ attempts > 0
    BY <2>4 DEF AttemptInv, RowInv
  <2>6. AttemptInv'
    <3>1. Rounding' = Rounding /\ Rounding \in Nat
      BY <2>1 DEF Rounding, config
    <3>2. NoOrder.qty = 0 /\ NoOrder.filled = 0
      BY DEF NoOrder
    <3>3. QED
      BY <2>1, <2>2, <2>3, <2>4, <2>5, <3>1, <3>2 DEF AttemptInv
  <2>7. BackingInv'
    BY <2>1, <2>3, <2>4 DEF BackingInv, RowInv
  <2>8. RestingInv'
    BY <2>2, <2>5 DEF RestingInv, NoOrder
  <2>9. BookingInv'
    BY <2>1, <2>4 DEF BookingInv, RowInv
  <2>10. QED
    BY <2>6, <2>7, <2>8, <2>9
<1>4. CASE UNCHANGED vars
  <2>1. Limit' = Limit /\ Market' = Market
    BY <1>4, Quiet DEF vars
  <2>2. QED
    BY <1>4, <2>1
       DEF vars, config, AttemptInv, BackingInv, RestingInv, BookingInv, FilledFinal,
       Rounding
<1>5. QED
  BY <1>1, <1>2, <1>3, <1>4

\* What a wait reports was executed.
LEMMA ReportsBound ==
    ASSUME TypeOK, attempts > 0
    PROVE  /\ \A r \in Reports("lmt") : r \in Nat /\ r <= Limit.filled
           /\ \A r \in Reports("mkt") : r \in Nat /\ r <= Market.filled
<1>1. Limit.filled \in Nat /\ Market.filled \in Nat
  BY OrderTypes DEF OrderRecords
<1>2. FillLevels \subseteq Nat
  BY SizesAssumption
<1>3. QED
  BY <1>1, <1>2 DEF Reports, Limit, Market

\* The limit phase.
LEMMA LimitKeepsDispatch ==
    ASSUME TypeOK, RowInv, OrdersInv, OncePerPhase, DispatchInv,
           PlaceLimit \/ LimitFails \/ WaitLimit \/ Cancel
    PROVE  DispatchInv'
<1> USE SizesAssumption, BoundsAssumption
<1>0. /\ attempts > 0 /\ venue = "crypto" /\ attempts \in Nat /\ status = "processing"
      /\ pc \in {"limit", "wait", "cancel"}
      /\ UNCHANGED <<config, status, attempts, amount, booked>>
  BY DEF PlaceLimit, LimitFails, WaitLimit, Cancel, RowInv, CryptoSteps, TypeOK, row
<1>1. /\ Rounding = 0 /\ Rounding' = 0
      /\ amount \in Nat /\ remaining \in Nat /\ faults \in Nat /\ Asked \in Nat
      /\ amount > 0 /\ amount <= Asked /\ Market = NoOrder /\ NoOrder.filled = 0 /\ NoOrder.qty = 0
  BY <1>0 DEF Rounding, config, TypeOK, DispatchInv, AttemptInv, BusySteps, CryptoSteps,
     NoOrder
<1>2. Limit \in OrderRecords
  BY <1>0, OrderTypes
<1>3. BookingInv'
  <2>1. faults' = 0 => faults = 0
    BY <1>1 DEF PlaceLimit, LimitFails, WaitLimit, Cancel, Fault
  <2>2. QED
    BY <1>0, <2>1 DEF DispatchInv, BookingInv
<1>4. ASSUME exch' = Placed("lmt", remaining), Accepts("lmt"), pc = "limit"
      PROVE  /\ Limit' = [oid |-> <<"lmt">>, qty |-> amount, filled |-> 0, state |-> "open"]
             /\ Market' = NoOrder
  <2>1. remaining = amount
    BY <1>0, <1>4 DEF DispatchInv, AttemptInv
  <2>2. QED
    BY <1>0, <1>1, <1>4, <2>1, PlacedKeepsOrders DEF Limit, Market, Key, Phases
<1>5. CASE PlaceLimit
  <2>1. pc = "limit" /\ pc' = "wait" /\ UNCHANGED <<remaining, total, seen, faults>>
    BY <1>5 DEF PlaceLimit
  <2>2. /\ Limit' = [oid |-> <<"lmt">>, qty |-> amount, filled |-> 0, state |-> "open"]
        /\ Market' = NoOrder
    BY <1>4, <1>5 DEF PlaceLimit
  <2>3. remaining = amount /\ seen = 0 /\ total = 0
    BY <1>0, <2>1 DEF DispatchInv, AttemptInv
  <2>4. AttemptInv'
    BY <1>0, <1>1, <2>1, <2>2, <2>3 DEF AttemptInv
  <2>5. BackingInv' /\ RestingInv'
    BY <1>0, <2>1, <2>2 DEF BackingInv, RestingInv
  <2>6. QED
    BY <1>3, <2>4, <2>5 DEF DispatchInv
<1>6. CASE LimitFails
  <2>1. pc = "limit" /\ pc' = "market" /\ remaining' = amount /\ UNCHANGED <<total, seen>>
    BY <1>6 DEF LimitFails
  <2>2. seen = 0 /\ total = 0 /\ Limit = NoOrder
    BY <1>0, <2>1 DEF DispatchInv, AttemptInv
  <2>3. CASE UNCHANGED <<exch, faults>>
    <3>1. Limit' = NoOrder /\ Market' = NoOrder
      BY <1>0, <1>1, <2>2, <2>3, Quiet
    <3>2. AttemptInv'
      BY <1>0, <1>1, <2>1, <2>2, <3>1 DEF AttemptInv
    <3>3. BackingInv' /\ RestingInv'
      BY <1>0, <2>1, <3>1 DEF BackingInv, RestingInv, NoOrder
    <3>4. QED
      BY <1>3, <3>2, <3>3 DEF DispatchInv
  <2>4. CASE Accepts("lmt") /\ Fault /\ exch' = Placed("lmt", remaining)
    <3>1. /\ Limit' = [oid |-> <<"lmt">>, qty |-> amount, filled |-> 0, state |-> "open"]
          /\ Market' = NoOrder
      BY <1>4, <2>1, <2>4
    <3>2. faults' # 0
      BY <1>1, <2>4 DEF Fault
    <3>3. AttemptInv'
      BY <1>0, <1>1, <2>1, <2>2, <3>1 DEF AttemptInv
    <3>4. BackingInv' /\ RestingInv'
      BY <1>0, <2>1, <3>1, <3>2 DEF BackingInv, RestingInv
    <3>5. QED
      BY <1>3, <3>3, <3>4 DEF DispatchInv
  <2>5. QED
    BY <1>6, <2>3, <2>4 DEF LimitFails
<1>7. CASE WaitLimit
  <2>1. /\ UNCHANGED <<exch, faults>> /\ pc = "wait"
        /\ \E r \in Reports("lmt") :
             /\ total' = total + r /\ seen' = r
             /\ \E rest \in TailGuarded(Rest(total')) :
                  /\ remaining' = rest
                  /\ pc' = IF WorthCancelling(rest) THEN "cancel" ELSE "market"
    BY <1>7 DEF WaitLimit
  <2>2. total = 0 /\ Limit.filled <= Limit.qty /\ Limit.qty <= amount /\ Limit.state # "none"
    <3>1. Limit.filled <= Limit.qty
      BY <1>0 DEF OrdersInv, OrderInv, Limit, Key, Keys, Phases, TypeOK
    <3>2. QED
      BY <1>0, <2>1, <3>1 DEF DispatchInv, AttemptInv, BackingInv
  <2>3. PICK r \in Nat :
            /\ r <= Limit.filled /\ total' = r /\ seen' = r
            /\ \E rest \in TailGuarded(Rest(r)) :
                 /\ remaining' = rest
                 /\ pc' = IF WorthCancelling(rest) THEN "cancel" ELSE "market"
    BY <1>0, <2>1, <2>2, ReportsBound
  <2>4. r <= amount
    BY <1>1, <1>2, <2>2, <2>3 DEF OrderRecords
  <2>5. PICK rest \in Nat :
            /\ remaining' = rest /\ (rest = amount - r \/ (rest = 0 /\ amount - r < MinTail))
            /\ pc' = IF 1000 * rest > amount THEN "cancel" ELSE "market"
    <3>1. PICK rest \in TailGuarded(Rest(r)) :
              /\ remaining' = rest
              /\ pc' = IF WorthCancelling(rest) THEN "cancel" ELSE "market"
      BY <2>3
    <3>2. rest = Rest(r) \/ (rest = 0 /\ Rest(r) < MinTail)
      <4>1. \A q \in TailGuarded(Rest(r)) : q = Rest(r) \/ (q = 0 /\ Rest(r) < MinTail)
        BY <1>1, RestBound
      <4>2. QED
        BY <4>1
    <3>3. Rest(r) = amount - r
      BY <1>1, <2>4, RestBound
    <3>4. QED
      BY <1>1, <2>4, <3>1, <3>2, <3>3 DEF WorthCancelling
  <2>6. Limit' = Limit /\ Market' = Market
    BY <1>0, <2>1, Quiet
  <2>7. AttemptInv'
    BY <1>0, <1>1, <1>2, <2>2, <2>3, <2>4, <2>5, <2>6 DEF AttemptInv, OrderRecords
  <2>8. BackingInv'
    BY <1>0, <2>2, <2>5, <2>6 DEF BackingInv
  <2>9. RestingInv'
    BY <1>0, <1>1, <2>1, <2>3, <2>4, <2>5, <2>6 DEF RestingInv
  <2>10. QED
    BY <1>3, <2>7, <2>8, <2>9 DEF DispatchInv
<1>8. CASE Cancel
  <2>1. /\ pc = "cancel" /\ pc' = "market" /\ UNCHANGED <<remaining, total, seen>>
        /\ \/ exch' = [exch EXCEPT ![Key("lmt")].state = "closed"] /\ UNCHANGED faults
           \/ Fault /\ UNCHANGED exch
    BY <1>8 DEF Cancel
  <2> DEFINE key == <<attempts, "lmt">>
  <2>0. /\ key \in Keys /\ Limit = exch[key] /\ Limit' = exch'[key]
        /\ Market = exch[<<attempts, "mkt">>] /\ Market' = exch'[<<attempts, "mkt">>]
        /\ <<attempts, "mkt">> \in Keys \ {key}
        /\ exch \in [Keys -> OrderRecords]
    BY <1>0 DEF Limit, Market, Key, Keys, Phases, TypeOK
  <2>9. \/ Fault /\ UNCHANGED exch
        \/ UNCHANGED faults /\ exch' = [exch EXCEPT ![key] = [Limit EXCEPT !.state = "closed"]]
    BY <2>0, <2>1 DEF Key
  <2> HIDE DEF key
  <2>2. Market' = Market /\ Limit'.qty = Limit.qty /\ Limit'.filled = Limit.filled
    BY <1>2, <2>0, <2>9 DEF OrderRecords
  <2>3. Limit'.state # "none" /\ (faults' = 0 => Limit'.state # "open")
    <3>1. Limit.state # "none"
      BY <1>0, <2>1 DEF DispatchInv, BackingInv
    <3>2. QED
      BY <1>1, <1>2, <2>0, <2>9, <3>1 DEF OrderRecords, Fault
  <2>4. AttemptInv'
    BY <1>0, <1>1, <2>1, <2>2 DEF DispatchInv, AttemptInv
  <2>5. BackingInv' /\ RestingInv'
    BY <1>0, <2>1, <2>3 DEF BackingInv, RestingInv
  <2>6. QED
    BY <1>3, <2>4, <2>5 DEF DispatchInv
<1>9. QED
  BY <1>5, <1>6, <1>7, <1>8

\* The market phase.
LEMMA MarketKeepsDispatch ==
    ASSUME TypeOK, RowInv, OrdersInv, OncePerPhase, DispatchInv,
           NoMarket \/ PlaceMarket \/ MarketRefused \/ MarketBreaks \/ WaitMarket
    PROVE  DispatchInv'
<1> USE SizesAssumption, BoundsAssumption
<1>0. /\ attempts > 0 /\ venue = "crypto" /\ attempts \in Nat /\ status = "processing"
      /\ pc \in {"market", "mwait"}
      /\ UNCHANGED <<config, attempts, amount, booked, seen>>
  BY DEF NoMarket, PlaceMarket, MarketRefused, MarketBreaks, WaitMarket, RowInv,
     CryptoSteps,
     TypeOK, row
<1>1. /\ Rounding = 0 /\ Rounding' = 0
      /\ amount \in Nat /\ remaining \in Nat /\ total \in Nat /\ seen \in Nat
      /\ faults \in Nat /\ Asked \in Nat /\ NoOrder.filled = 0 /\ NoOrder.qty = 0
      /\ amount > 0 /\ amount <= Asked /\ Limit.qty <= amount
      /\ seen <= Limit.filled /\ total = seen
  BY <1>0 DEF Rounding, config, TypeOK, DispatchInv, AttemptInv, BusySteps, CryptoSteps,
     NoOrder
<1>2. Limit \in OrderRecords /\ Market \in OrderRecords
  BY <1>0, OrderTypes
<1>3. BookingInv'
  <2>1. faults' = 0 => faults = 0
    BY <1>1 DEF NoMarket, PlaceMarket, MarketRefused, MarketBreaks, WaitMarket, Fault
  <2>2. status' # "sent"
    BY <1>0 DEF NoMarket, PlaceMarket, MarketRefused, MarketBreaks, WaitMarket,
       MarkFailed, row
  <2>3. faults' = 0 /\ status' = "failed" => total' = 0
    BY <1>0, <1>1 DEF NoMarket, PlaceMarket, MarketRefused, MarketBreaks, WaitMarket,
       MarkFailed, Fault, row
  <2>4. QED
    BY <1>0, <2>1, <2>2, <2>3 DEF DispatchInv, BookingInv
<1>4. ASSUME exch' = Placed("mkt", remaining), Accepts("mkt"), pc = "market", remaining > 0
      PROVE  /\ Market' = [oid |-> <<"mkt">>, qty |-> remaining, filled |-> 0, state |-> "open"]
             /\ Limit' = Limit /\ remaining + seen <= amount
  <2>1. remaining + seen <= amount /\ remaining <= Asked
    BY <1>0, <1>1, <1>4 DEF DispatchInv, AttemptInv
  <2>2. QED
    BY <1>0, <1>1, <1>4, <2>1, PlacedKeepsOrders DEF Limit, Market, Key, Phases
<1>5. CASE NoMarket
  <2>1. /\ pc = "market" /\ remaining = 0 /\ pc' = "finish"
        /\ UNCHANGED <<exch, status, remaining, total, faults>>
    BY <1>5 DEF NoMarket, row
  <2>2. Limit' = Limit /\ Market' = Market /\ Market = NoOrder
    BY <1>0, <2>1, Quiet DEF DispatchInv, AttemptInv
  <2>3. Limit.state # "none"
    BY <1>0, <1>1, <2>1 DEF DispatchInv, BackingInv
  <2>4. AttemptInv'
    BY <1>0, <1>1, <2>1, <2>2 DEF DispatchInv, AttemptInv
  <2>5. BackingInv' /\ RestingInv'
    BY <1>0, <2>1, <2>2, <2>3 DEF DispatchInv, BackingInv, RestingInv
  <2>6. QED
    BY <1>3, <2>4, <2>5 DEF DispatchInv
<1>6. CASE PlaceMarket
  <2>1. pc = "market" /\ pc' = "mwait" /\ UNCHANGED <<status, remaining, total, faults>>
    BY <1>6 DEF PlaceMarket, row
  <2>2. /\ Market' = [oid |-> <<"mkt">>, qty |-> remaining, filled |-> 0, state |-> "open"]
        /\ Limit' = Limit /\ remaining + seen <= amount
    BY <1>4, <1>6 DEF PlaceMarket
  <2>3. AttemptInv'
    BY <1>0, <1>1, <1>2, <2>1, <2>2 DEF AttemptInv, OrderRecords
  <2>4. BackingInv' /\ RestingInv'
    BY <1>0, <2>1, <2>2 DEF DispatchInv, BackingInv, RestingInv
  <2>5. QED
    BY <1>3, <2>3, <2>4 DEF DispatchInv
<1>7. CASE MarketRefused
  <2>1. /\ pc = "market" /\ UNCHANGED <<exch, total, faults>>
        /\ \/ total > 0 /\ pc' = "finish" /\ remaining' = 0 /\ UNCHANGED status
           \/ status' = "failed" /\ pc' = "idle" /\ UNCHANGED remaining
    BY <1>7 DEF MarketRefused, MarkFailed
  <2>2. Limit' = Limit /\ Market' = Market /\ Market = NoOrder
    BY <1>0, <2>1, Quiet DEF DispatchInv, AttemptInv
  <2>3. total > 0 => Limit.state # "none"
    <3>1. Limit.state = "none" => Limit = NoOrder
      BY <1>0 DEF OrdersInv, OrderInv, Limit, Key, Keys, Phases, TypeOK
    <3>2. QED
      BY <1>1, <3>1
  <2>4. AttemptInv'
    BY <1>0, <1>1, <1>2, <2>1, <2>2 DEF DispatchInv, AttemptInv, OrderRecords
  <2>5. BackingInv' /\ RestingInv'
    BY <1>0, <2>1, <2>2, <2>3 DEF DispatchInv, BackingInv, RestingInv
  <2>6. QED
    BY <1>3, <2>4, <2>5 DEF DispatchInv
<1>8. CASE MarketBreaks
  <2>1. /\ pc = "market" /\ pc' = "idle" /\ status' = "failed" /\ remaining > 0
        /\ UNCHANGED <<remaining, total>> /\ faults' # 0
    BY <1>1, <1>8 DEF MarketBreaks, MarkFailed, Fault
  <2>2. Limit' = Limit /\ Market'.qty + seen <= amount /\ Market'.filled = 0
    <3>1. CASE UNCHANGED exch
      <4>1. Limit' = Limit /\ Market' = Market /\ Market = NoOrder
        BY <1>0, <2>1, <3>1, Quiet DEF DispatchInv, AttemptInv
      <4>2. seen <= amount
        BY <1>0, <1>1, <2>1 DEF DispatchInv, AttemptInv
      <4>3. QED
        BY <1>1, <4>1, <4>2
    <3>2. CASE Accepts("mkt") /\ exch' = Placed("mkt", remaining)
      BY <1>4, <2>1, <3>2
    <3>3. QED
      BY <1>8, <3>1, <3>2 DEF MarketBreaks
  <2>3. AttemptInv'
    BY <1>0, <1>1, <1>2, <2>1, <2>2
       DEF AttemptInv, OrderRecords, BusySteps, CryptoSteps, BrokerSteps
  <2>4. BackingInv' /\ RestingInv'
    BY <1>0, <2>1 DEF BackingInv, RestingInv
  <2>5. QED
    BY <1>3, <2>3, <2>4 DEF DispatchInv
<1>9. CASE WaitMarket
  <2>1. /\ pc = "mwait" /\ pc' = "finish" /\ UNCHANGED <<exch, status, remaining, faults>>
        /\ \E r \in Reports("mkt") : total' = total + r
    BY <1>9 DEF WaitMarket, row
  <2>2. PICK r \in Nat : r <= Market.filled /\ total' = seen + r
    BY <1>0, <1>1, <2>1, ReportsBound
  <2>3. Limit' = Limit /\ Market' = Market
    BY <1>0, <2>1, Quiet
  <2>4. AttemptInv'
    BY <1>0, <1>1, <1>2, <2>1, <2>2, <2>3 DEF DispatchInv, AttemptInv, OrderRecords
  <2>5. BackingInv' /\ RestingInv'
    BY <1>0, <2>1, <2>3 DEF DispatchInv, BackingInv, RestingInv
  <2>6. QED
    BY <1>3, <2>4, <2>5 DEF DispatchInv
<1>10. QED
  BY <1>5, <1>6, <1>7, <1>8, <1>9

\* The brokers.
LEMMA BrokerKeepsDispatch ==
    ASSUME TypeOK, RowInv, OrdersInv, DispatchInv, BrokerSend \/ AnswerIbkr \/ AnswerMt5
    PROVE  DispatchInv'
<1> USE SizesAssumption, BoundsAssumption
<1>0. /\ attempts > 0 /\ venue # "crypto" /\ attempts \in Nat /\ status = "processing"
      /\ pc \in {"send", "answer"}
      /\ UNCHANGED <<config, attempts, amount, remaining, booked, seen, faults>>
  BY DEF BrokerSend, AnswerIbkr, AnswerMt5, RowInv, BrokerSteps, TypeOK, row
<1>1. /\ Rounding' = Rounding /\ Rounding \in Nat
      /\ amount \in Nat /\ total \in Nat /\ seen \in Nat
      /\ faults \in Nat /\ Asked \in Nat /\ amount > 0 /\ amount <= Asked
  BY <1>0 DEF Rounding, config, TypeOK, DispatchInv, AttemptInv, BusySteps, BrokerSteps
<1>2. Limit = NoOrder /\ NoOrder.filled = 0 /\ NoOrder.qty = 0 /\ NoOrder.state = "none"
  BY <1>0 DEF OrdersInv, OrderInv, Limit, Key, Keys, Phases, TypeOK, NoOrder
<1>3. Market \in OrderRecords
  BY <1>0, OrderTypes
<1>4. BookingInv'
  <2>1. status' # "sent"
    BY <1>0 DEF BrokerSend, AnswerIbkr, AnswerMt5, MarkFailed, row
  <2>2. status' = "failed" => total' = 0
    BY <1>0 DEF BrokerSend, AnswerIbkr, AnswerMt5, MarkFailed, row, DispatchInv, AttemptInv
  <2>3. QED
    BY <1>0, <2>1, <2>2 DEF DispatchInv, BookingInv
<1>5. CASE BrokerSend
  <2> DEFINE qty == IF venue = "mt5" THEN Lots(amount) ELSE amount
  <2>1. /\ pc = "send" /\ pc' = "answer" /\ UNCHANGED <<status, total>>
        /\ exch' = [exch EXCEPT ![Key("mkt")] = [NoOrder EXCEPT !.qty = qty, !.state = "open"]]
    BY <1>5 DEF BrokerSend, row
  <2>2. qty \in Nat /\ qty <= amount + Rounding
    BY <1>1, LotsBound DEF Rounding
  <2> HIDE DEF qty
  <2>3. Limit' = Limit /\ Market'.qty = qty /\ Market'.filled = 0 /\ Market'.state = "open"
    BY <1>0, <2>1 DEF Limit, Market, Key, Keys, Phases, TypeOK, NoOrder
  <2>4. seen = 0 /\ total = 0
    BY <1>0, <2>1 DEF DispatchInv, AttemptInv
  <2>5. AttemptInv'
    BY <1>0, <1>1, <1>2, <2>1, <2>2, <2>3, <2>4 DEF AttemptInv
  <2>6. BackingInv' /\ RestingInv'
    BY <1>0, <1>2, <2>1, <2>3 DEF BackingInv, RestingInv
  <2>7. QED
    BY <1>4, <2>5, <2>6 DEF DispatchInv
<1>6. CASE AnswerIbkr \/ AnswerMt5
  <2>1. /\ pc = "answer" /\ UNCHANGED exch
        /\ \/ pc' = "finish" /\ UNCHANGED status
           \/ status' = "failed" /\ pc' = "idle" /\ UNCHANGED total
    BY <1>6 DEF AnswerIbkr, AnswerMt5, MarkFailed
  <2>2. Limit' = Limit /\ Market' = Market
    BY <1>0, <2>1, Quiet
  <2>3. total' \in Nat /\ total' <= Market.filled
    <3>1. UNCHANGED total => total' \in Nat /\ total' <= Market.filled
      BY <1>0, <1>1, <1>2, <1>3 DEF DispatchInv, AttemptInv, OrderRecords
    <3>2. CASE AnswerIbkr
      BY <1>0, <3>1, <3>2, ReportsBound DEF AnswerIbkr
    <3>3. CASE AnswerMt5
      BY <1>3, <3>1, <3>3 DEF AnswerMt5, Market, OrderRecords
    <3>4. QED
      BY <1>6, <3>2, <3>3
  <2>4. AttemptInv'
    BY <1>0, <1>1, <1>2, <1>3, <2>1, <2>2, <2>3
       DEF DispatchInv, AttemptInv, OrderRecords, BusySteps, CryptoSteps, BrokerSteps
  <2>5. BackingInv' /\ RestingInv'
    BY <1>0, <1>2, <2>1, <2>2 DEF DispatchInv, BackingInv, RestingInv
  <2>6. QED
    BY <1>4, <2>4, <2>5 DEF DispatchInv
<1>7. QED
  BY <1>5, <1>6

\* The end of a dispatch.
LEMMA EndKeepsDispatch ==
    ASSUME TypeOK, RowInv, OrdersInv, DispatchInv, Finish \/ Retract \/ Book
    PROVE  DispatchInv'
<1>0. /\ attempts > 0 /\ attempts \in Nat /\ faults \in Nat /\ total \in Nat
      /\ pc \in {"finish", "book", "retract"} /\ pc' \in {"book", "retract", "idle"}
      /\ UNCHANGED <<config, exch, attempts, amount, remaining, total, seen>>
  BY DEF Finish, Retract, Book, MarkFailed, RowInv, TypeOK, row
<1>1. Limit' = Limit /\ Market' = Market /\ Rounding' = Rounding /\ FilledFinal' = FilledFinal
  BY <1>0, Quiet DEF Rounding, config, FilledFinal
<1>2. faults' = 0 => faults = 0
  BY <1>0 DEF Finish, Retract, Book, Fault
<1>3. AttemptInv'
  BY <1>0, <1>1 DEF DispatchInv, AttemptInv, BusySteps
<1>4. BackingInv'
  BY <1>0, <1>1 DEF DispatchInv, BackingInv
<1>5. RestingInv'
  BY <1>0, <1>1, <1>2 DEF DispatchInv, RestingInv
<1>6. BookingInv'
  <2>1. CASE Finish
    <3>1. status = "processing" /\ booked' = booked /\ pc = "finish"
      BY <2>1 DEF Finish, RowInv
    <3>2. faults' = 0 => pc' = "book" /\ status' = "sent"
      BY <1>0, <2>1 DEF Finish, Fault
    <3>3. QED
      BY <1>2, <3>1, <3>2 DEF DispatchInv, BookingInv
  <2>2. CASE Book
    <3>1. pc = "book" /\ pc' = "idle" /\ status' = status
      BY <2>2 DEF Book, row
    <3>2. faults' = 0 => booked' = booked + FilledFinal
      BY <1>0, <2>2 DEF Book, Fault
    <3>3. faults = 0 => status = "sent" /\ booked = 0
      BY <1>0, <3>1 DEF RowInv, DispatchInv, BookingInv
    <3>4. FilledFinal \in Nat
      BY DEF FilledFinal, TypeOK
    <3>5. QED
      BY <1>1, <1>2, <3>1, <3>2, <3>3, <3>4 DEF BookingInv
  <2>3. CASE Retract
    <3>1. pc = "retract" /\ status' = "failed" /\ booked' = booked
      BY <2>3 DEF Retract, MarkFailed
    <3>2. faults' > 0
      BY <2>3, <3>1 DEF Retract, RowInv
    <3>3. QED
      BY <3>2 DEF BookingInv
  <2>4. QED
    BY <2>1, <2>2, <2>3
<1>7. QED
  BY <1>3, <1>4, <1>5, <1>6 DEF DispatchInv

\* The invariant is inductive.
LEMMA StepIInv == IInv /\ [Next]_vars => IInv'
<1> SUFFICES ASSUME IInv, [Next]_vars PROVE IInv'
  OBVIOUS
<1>0. /\ TypeOK /\ RowInv /\ OrdersInv /\ OncePerPhase /\ DispatchInv
      /\ AttemptInv /\ BackingInv
  BY DEF IInv, DispatchInv
<1>1. TypeOK'
  BY <1>0, ExchTypes, OtherTypes DEF Next, Exchange, Queue, Dispatch
<1>2. RowInv'
  BY <1>0, RowStep
<1>3. OrdersInv' /\ OncePerPhase'
  BY <1>0, OrdersStep
<1>4. DispatchInv'
  BY <1>0, ExchangeKeepsDispatch, QueueKeepsDispatch, LimitKeepsDispatch,
     MarketKeepsDispatch,
     BrokerKeepsDispatch, EndKeepsDispatch DEF Next, Exchange, Queue, Dispatch
<1>5. QED
  BY <1>1, <1>2, <1>3, <1>4 DEF IInv, DispatchInv

\* The inductive invariant holds throughout: what the exchange, the row and the
\* locals of _execute_live_order have to do with each other.
THEOREM Invariance == Spec => []IInv
  BY InitIInv, StepIInv, PTL DEF Spec

-----------------------------------------------------------------------------
(* What the exchange executes over all attempts.                           *)

\* A set of naturals with zero and every successor has every natural.
LEMMA Induction ==
    ASSUME NEW T, T \subseteq Nat, 0 \in T, \A n \in T : n + 1 \in T
    PROVE  T = Nat
<1> SUFFICES ASSUME T # Nat PROVE FALSE
  OBVIOUS
<1> DEFINE R == {p \in Nat \X Nat : p[1] < p[2]}
<1>1. IsWellFoundedOn(R, Nat)
  BY NatLessThanWellFounded DEF OpToRel
<1>2. \A x, y \in Nat : <<y, x>> \in R <=> y < x
  OBVIOUS
<1> HIDE DEF R
<1>3. PICK m \in Nat \ T : \A y \in Nat \ T : ~ (<<y, m>> \in R)
  BY <1>1, WFMin
<1>4. m # 0 /\ m - 1 \in Nat /\ m - 1 < m
  BY <1>3
<1>5. m - 1 \in T
  BY <1>2, <1>3, <1>4
<1>6. QED
  BY <1>4, <1>5

IsSum(S, n) == S = [a \in 0..n |-> IF a = 0 THEN 0 ELSE S[a - 1] + Executed(a)]

\* The recursive definition of ExecutedUpTo has a solution, so it is one.
LEMMA SumExists == \A n \in Nat : \E S : IsSum(S, n)
<1> DEFINE T == {n \in Nat : \E S : IsSum(S, n)}
<1>1. 0 \in T
  <2>1. IsSum([i \in 0..0 |-> 0], 0)
    BY DEF IsSum
  <2>2. QED BY <2>1
<1>2. ASSUME NEW n \in T PROVE n + 1 \in T
  <2>1. PICK S : IsSum(S, n)
    OBVIOUS
  <2> DEFINE S2 == [i \in 0..(n+1) |-> IF i = n + 1 THEN S[n] + Executed(n+1) ELSE S[i]]
  <2>2. ASSUME NEW i \in 0..(n+1)
        PROVE  S2[i] = IF i = 0 THEN 0 ELSE S2[i-1] + Executed(i)
    BY <2>1 DEF IsSum
  <2>3. S2 = [i \in 0..(n+1) |-> S2[i]]
    OBVIOUS
  <2> HIDE DEF S2
  <2>4. S2 = [i \in 0..(n+1) |-> IF i = 0 THEN 0 ELSE S2[i-1] + Executed(i)]
    BY <2>2, <2>3
  <2>5. IsSum(S2, n + 1)
    BY <2>4 DEF IsSum
  <2>6. \E S3 : IsSum(S3, n + 1)
    BY <2>5
  <2>7. QED
    BY <2>6
<1> HIDE DEF T
<1>3. T \subseteq Nat
  BY DEF T
<1>4. T = Nat
  BY <1>1, <1>2, <1>3, Induction
<1>5. QED
  BY <1>4 DEF T

\* The sum over one attempt more adds what that attempt executed.
LEMMA ExecutedUpToIs ==
    ASSUME NEW a \in 0..MaxAttempts
    PROVE  ExecutedUpTo[a] = IF a = 0 THEN 0 ELSE ExecutedUpTo[a - 1] + Executed(a)
<1>1. MaxAttempts \in Nat
  BY BoundsAssumption
<1>2. IsSum(CHOOSE S : IsSum(S, MaxAttempts), MaxAttempts)
  BY <1>1, SumExists
<1>3. IsSum(ExecutedUpTo, MaxAttempts)
  BY <1>2 DEF IsSum, ExecutedUpTo
<1>4. QED
  BY <1>3 DEF IsSum

\* Deterministic client order ids: at most one order of each phase ever executes.
LEMMA CryptoExecutes ==
    ASSUME TypeOK, OrdersInv, OncePerPhase, venue = "crypto", RefusesRepeats
    PROVE  \A a \in 0..MaxAttempts : ExecutedUpTo[a] <= 2 * Asked
<1> USE SizesAssumption, BoundsAssumption
<1> DEFINE Used(phase, a) == \E b \in 1..a : exch[<<b, phase>>].state # "none"
           Share(phase, a) == IF Used(phase, a) THEN Asked ELSE 0
           T == {a \in Nat : a <= MaxAttempts =>
                    /\ ExecutedUpTo[a] \in Nat
                    /\ ExecutedUpTo[a] <= Share("lmt", a) + Share("mkt", a)}
<1>1. 0 \in T
  BY ExecutedUpToIs
<1>2. ASSUME NEW a \in T PROVE a + 1 \in T
  <2> SUFFICES ASSUME a + 1 <= MaxAttempts
               PROVE  /\ ExecutedUpTo[a + 1] \in Nat
                      /\ ExecutedUpTo[a + 1] <= Share("lmt", a + 1) + Share("mkt", a + 1)
    OBVIOUS
  <2>1. a + 1 \in 1..MaxAttempts /\ a \in Nat
    OBVIOUS
  <2>2. ExecutedUpTo[a + 1] = ExecutedUpTo[a] + Executed(a + 1)
    BY <2>1, ExecutedUpToIs
  <2>3. ASSUME NEW phase \in Phases
        PROVE  LET f == exch[<<a + 1, phase>>].filled IN
               f \in Nat /\ Share(phase, a) + f <= Share(phase, a + 1)
    <3> DEFINE k == <<a + 1, phase>>
    <3>1. k \in Keys /\ OrderInv(k) /\ exch[k] \in OrderRecords
      BY <2>1 DEF Keys, OrdersInv, TypeOK
    <3>2. Used(phase, a) => Used(phase, a + 1)
      BY <2>1
    <3>3. CASE exch[k].state = "none"
      <4>1. exch[k].filled = 0
        BY <3>1, <3>3 DEF OrderInv, NoOrder
      <4>2. QED
        BY <3>2, <4>1
    <3>4. CASE exch[k].state # "none"
      <4>1. Used(phase, a + 1)
        BY <2>1, <3>4
      <4>2. ~ Used(phase, a)
        <5> SUFFICES ASSUME NEW b \in 1..a, exch[<<b, phase>>].state # "none" PROVE FALSE
          OBVIOUS
        <5>1. <<b, phase>> \in Keys /\ <<b, phase>> # k
          BY <2>1 DEF Keys
        <5>2. QED
          BY <3>1, <3>4, <5>1 DEF OncePerPhase
      <4>3. exch[k].filled \in Nat /\ exch[k].filled <= Asked
        BY <3>1 DEF OrderInv, OrderRecords
      <4>4. QED
        BY <4>1, <4>2, <4>3
    <3>5. QED
      BY <3>3, <3>4
  <2>4. /\ Share("lmt", a) \in Nat /\ Share("mkt", a) \in Nat
        /\ Share("lmt", a + 1) \in Nat /\ Share("mkt", a + 1) \in Nat
    OBVIOUS
  <2>5. ExecutedUpTo[a] \in Nat /\ ExecutedUpTo[a] <= Share("lmt", a) + Share("mkt", a)
    OBVIOUS
  <2>6. /\ exch[<<a + 1, "lmt">>].filled \in Nat /\ exch[<<a + 1, "mkt">>].filled \in Nat
        /\ Share("lmt", a) + exch[<<a + 1, "lmt">>].filled <= Share("lmt", a + 1)
        /\ Share("mkt", a) + exch[<<a + 1, "mkt">>].filled <= Share("mkt", a + 1)
    BY <2>3 DEF Phases
  <2> HIDE DEF Share
  <2>7. QED
    BY <2>2, <2>4, <2>5, <2>6 DEF Executed
<1>3. \A a \in Nat : Share("lmt", a) + Share("mkt", a) <= 2 * Asked
  OBVIOUS
<1> HIDE DEF T, Share
<1>4. T = Nat
  <2>1. T \subseteq Nat
    BY DEF T
  <2>2. QED
    BY <1>1, <1>2, <2>1, Induction
<1>5. QED
  <2> SUFFICES ASSUME NEW a \in 0..MaxAttempts PROVE ExecutedUpTo[a] <= 2 * Asked
    OBVIOUS
  <2>1. /\ ExecutedUpTo[a] \in Nat /\ ExecutedUpTo[a] <= Share("lmt", a) + Share("mkt", a)
        /\ Share("lmt", a) + Share("mkt", a) <= 2 * Asked
        /\ Share("lmt", a) \in Nat /\ Share("mkt", a) \in Nat
    BY <1>3, <1>4 DEF T, Share
  <2>2. QED
    BY <2>1

\* A broker executes each attempt's one order at most once.
LEMMA BrokerExecutes ==
    ASSUME TypeOK, OrdersInv, venue # "crypto"
    PROVE  \A a \in 0..MaxAttempts :
              ExecutedUpTo[a] \in Nat /\ ExecutedUpTo[a] <= a * (Asked + Rounding)
<1> USE SizesAssumption, BoundsAssumption
<1> DEFINE most == Asked + Rounding
           T == {a \in Nat : a <= MaxAttempts =>
                    ExecutedUpTo[a] \in Nat /\ ExecutedUpTo[a] <= a * most}
<1>0. most \in Nat
  BY DEF Rounding
<1>1. 0 \in T
  BY ExecutedUpToIs, <1>0
<1>2. ASSUME NEW a \in T PROVE a + 1 \in T
  <2> SUFFICES ASSUME a + 1 <= MaxAttempts
               PROVE  /\ ExecutedUpTo[a + 1] \in Nat
                      /\ ExecutedUpTo[a + 1] <= (a + 1) * most
    OBVIOUS
  <2>1. a + 1 \in 1..MaxAttempts /\ a \in Nat
    OBVIOUS
  <2>2. ExecutedUpTo[a + 1] = ExecutedUpTo[a] + Executed(a + 1)
    BY <2>1, ExecutedUpToIs
  <2>3. exch[<<a + 1, "lmt">>].filled = 0
    BY <2>1 DEF OrdersInv, OrderInv, Keys, Phases, NoOrder
  <2>4. exch[<<a + 1, "mkt">>].filled \in Nat /\ exch[<<a + 1, "mkt">>].filled <= most
    <3>1. <<a + 1, "mkt">> \in Keys
      BY <2>1 DEF Keys, Phases
    <3>2. OrderInv(<<a + 1, "mkt">>) /\ exch[<<a + 1, "mkt">>] \in OrderRecords
      BY <3>1 DEF OrdersInv, TypeOK
    <3>3. QED
      BY <1>0, <3>2 DEF OrderInv, OrderRecords
  <2>5. ExecutedUpTo[a] \in Nat /\ ExecutedUpTo[a] <= a * most
    OBVIOUS
  <2> HIDE DEF most
  <2>6. (a + 1) * most = a * most + most /\ a * most \in Nat
    BY <1>0, <2>1
  <2>7. QED
    BY <1>0, <2>2, <2>3, <2>4, <2>5, <2>6 DEF Executed
<1> HIDE DEF T
<1>3. T = Nat
  <2>1. T \subseteq Nat
    BY DEF T
  <2>2. QED
    BY <1>1, <1>2, <2>1, Induction
<1>4. QED
  BY <1>3 DEF T

-----------------------------------------------------------------------------
(* The properties.                                                         *)

\* Whatever faults and repeats the dispatch meets, the exchange executes at most
\* twice the amount under deterministic client order ids; a broker, which gets no
\* such ids, at most the amount and its rounding once per fault and once more.
THEOREM Exposure == Spec => []ExposureBounded
<1>1. IInv => ExposureBounded
  <2> SUFFICES ASSUME IInv PROVE ExposureBounded
    OBVIOUS
  <2>1. attempts \in 0..MaxAttempts /\ faults \in Nat /\ attempts \in Nat /\ attempts <= faults + 1
    BY BoundsAssumption DEF IInv, TypeOK, RowInv
  <2>2. CASE venue = "crypto"
    BY <2>1, <2>2, CryptoExecutes DEF IInv, ExposureBounded, ExecutedInAll
  <2>3. CASE venue # "crypto"
    <3> DEFINE most == Asked + Rounding
    <3>1. most \in Nat
      BY SizesAssumption DEF Rounding
    <3>2. ExecutedInAll \in Nat /\ ExecutedInAll <= attempts * most
      BY <2>1, <2>3, BrokerExecutes DEF IInv, ExecutedInAll
    <3> HIDE DEF most
    <3>3. attempts * most <= (1 + faults) * most
      BY <2>1, <3>1
    <3>4. attempts * most \in Nat /\ (1 + faults) * most \in Nat
      BY <2>1, <3>1
    <3>5. ExecutedInAll <= (1 + faults) * most
      BY <3>2, <3>3, <3>4
    <3>6. QED
      BY <2>3, <3>5 DEF ExposureBounded, most
  <2>4. QED
    BY <2>2, <2>3
<1>2. QED
  BY <1>1, Invariance, PTL

\* The market phase of an attempt takes no more than the wait left of the amount:
\* only limit fills the wait did not report make the attempt overfill.
THEOREM Overfill == Spec => []OverfillIsUnseen
<1>1. IInv => OverfillIsUnseen
  <2> SUFFICES ASSUME IInv, attempts > 0
               PROVE  /\ Market.qty + seen <= amount + Rounding
                      /\ Limit.filled + Market.filled <= amount + Rounding + (Limit.filled - seen)
    BY DEF OverfillIsUnseen, Executed, Limit, Market, Key
  <2>1. Limit \in OrderRecords /\ Market \in OrderRecords
    BY OrderTypes DEF IInv
  <2>2. Market.filled <= Market.qty
    BY DEF IInv, OrdersInv, OrderInv, Market, Key, Keys, Phases, TypeOK
  <2>3. Market.qty + seen <= amount + Rounding
    BY DEF IInv, AttemptInv
  <2>4. amount \in Nat /\ seen \in Nat /\ Rounding \in Nat
    BY SizesAssumption DEF IInv, TypeOK, Rounding
  <2>5. QED
    BY <2>1, <2>2, <2>3, <2>4 DEF OrderRecords
<1>2. QED
  BY <1>1, Invariance, PTL

\* No row is marked sent before the exchange has accepted an order for it in the
\* attempt that marks it.
THEOREM Backed == Spec => []SentIsBacked
<1>1. IInv => SentIsBacked
  <2> SUFFICES ASSUME IInv, status = "sent"
               PROVE  Limit.state # "none" \/ Market.state # "none"
    BY DEF SentIsBacked, Limit, Market, Phases
  <2>1. attempts > 0
    BY DEF IInv, RowInv
  <2>2. QED
    BY <2>1 DEF IInv, BackingInv
<1>2. QED
  BY <1>1, Invariance, PTL

\* As long as no call was lost, an open limit order behind a sent row is one whose
\* rest the code did not find worth cancelling.
THEOREM Resting == Spec => []RestingIsExplained
<1>1. IInv => RestingIsExplained
  <2> SUFFICES ASSUME IInv, status = "sent", faults = 0, Limit.state = "open"
               PROVE  1000 * (amount - seen) <= amount \/ amount - seen < MinTail
    BY DEF RestingIsExplained, Limit
  <2>1. attempts > 0 /\ pc \notin {"wait", "cancel"}
    BY DEF IInv, RowInv
  <2>2. QED
    BY <2>1 DEF IInv, RestingInv
<1>2. QED
  BY <1>1, Invariance, PTL

\* Without faults, what a settled order has booked is what the exchange reported,
\* and that was executed.
THEOREM Booked == Spec => []BookedIsBought
<1>1. IInv => BookedIsBought
  <2> SUFFICES ASSUME IInv, status \in {"sent", "failed"}, pc = "idle", faults = 0, total > 0
               PROVE  status = "sent" /\ booked = total /\ total <= ExecutedInAll
    BY DEF BookedIsBought
  <2>0. status = "sent"
    BY DEF IInv, BookingInv, TypeOK
  <2>1. attempts = 1 /\ 1 \in 0..MaxAttempts /\ 0 \in 0..MaxAttempts
    BY BoundsAssumption DEF IInv, RowInv, TypeOK
  <2>2. ExecutedInAll = 0 + Executed(1)
    <3>1. ExecutedUpTo[1] = ExecutedUpTo[0] + Executed(1)
      BY <2>1, ExecutedUpToIs
    <3>2. ExecutedUpTo[0] = 0
      BY <2>1, ExecutedUpToIs
    <3>3. QED
      BY <2>1, <3>1, <3>2 DEF ExecutedInAll
  <2>3. Executed(1) = Limit.filled + Market.filled
    BY <2>1 DEF Executed, Limit, Market, Key
  <2>4. Limit.filled \in Nat /\ Market.filled \in Nat
    BY <2>1, OrderTypes DEF IInv, OrderRecords
  <2>5. total <= Limit.filled + Market.filled
    BY <2>1 DEF IInv, AttemptInv
  <2>6. booked = total
    BY <2>0 DEF IInv, BookingInv, FilledFinal
  <2>7. QED
    BY <2>0, <2>2, <2>3, <2>4, <2>5, <2>6
<1>2. QED
  BY <1>1, Invariance, PTL

-----------------------------------------------------------------------------
(* Refinement.                                                             *)

Doubted == {o \in {"row"} : status = "sent" /\ pc = "retract"}

\* What the queue's steps are for one row.
LEMMA RowMoves ==
    /\ UNCHANGED <<status, attempts>> /\ Doubted' = Doubted => UNCHANGED Lifecycle!vars
    /\ UNCHANGED <<status, attempts>> /\ Doubted # {} /\ Doubted' = {} =>
          \E o \in {"row"} : Lifecycle!Forget(o)
    /\ \A result \in {"sent", "failed"} :
          status = "processing" /\ status' = result /\ UNCHANGED attempts
             /\ (Doubted' = Doubted \/ (result = "sent" /\ Doubted' = {"row"}))
          => \E o \in {"row"} : Lifecycle!Settle(o, result)
    /\ Doubted # {} /\ Doubted' = {} /\ status' = "failed" /\ UNCHANGED attempts =>
          \E o \in {"row"} : Lifecycle!Retract(o)
    /\ status = "processing" /\ attempts < MaxAttempts /\ status' = "pending" /\ UNCHANGED attempts
          /\ Doubted' = Doubted
       => Lifecycle!GiveBack
<1>1. Doubted \in {{}, {"row"}}
  BY DEF Doubted
<1>2. QED
  BY <1>1 DEF Doubted, Lifecycle!vars, Lifecycle!Forget, Lifecycle!Settle,
     Lifecycle!Retract, Lifecycle!GiveBack

\* A claim starts the row once more.
LEMMA ClaimStarts ==
    ASSUME IInv, Claim
    PROVE  \E o \in {"row"} : Lifecycle!Start(o)
<1>1. Doubted = {} /\ Doubted' = {}
  BY DEF Doubted, Claim
<1>2. QED
  BY <1>1 DEF Doubted, IInv, RowInv, Claim, Lifecycle!Start

\* Every step moves the row as the queue does, or leaves it alone.
LEMMA StepMoves ==
    ASSUME IInv, [Next]_vars
    PROVE  [Lifecycle!Next]_(Lifecycle!vars)
<1>0. /\ status \in {"pending", "processing", "sent", "failed"}
      /\ Doubted = IF status = "sent" /\ pc = "retract" THEN {"row"} ELSE {}
      /\ Doubted' = IF status' = "sent" /\ pc' = "retract" THEN {"row"} ELSE {}
  BY DEF IInv, TypeOK, Doubted
<1>1. CASE Claim
  BY <1>1, ClaimStarts DEF Lifecycle!Next
<1>2. CASE UNCHANGED row /\ (pc' = "retract" => pc = "retract" \/ status # "sent")
  <2>1. Doubted' = Doubted \/ (Doubted # {} /\ Doubted' = {})
    BY <1>0, <1>2 DEF row
  <2>2. QED
    BY <1>2, <2>1, RowMoves DEF row, Lifecycle!Next
<1>3. CASE Requeue
  <2>1. Doubted' = Doubted
    BY <1>3 DEF Requeue, Doubted
  <2>2. QED
    BY <1>3, <2>1, RowMoves DEF Requeue, Lifecycle!Next
<1>4. CASE /\ pc \notin {"idle", "book", "retract"} /\ UNCHANGED attempts
           /\ status' \in {status, "sent", "failed"}
  <2>1. status = "processing" /\ Doubted = {} /\ (Doubted' = {} \/ (status' = "sent" /\ Doubted' = {"row"}))
    BY <1>0, <1>4 DEF IInv, RowInv
  <2>2. CASE status' = "processing"
    BY <1>4, <2>1, <2>2, RowMoves
  <2>3. CASE status' \in {"sent", "failed"}
    <3>1. \E result \in {"sent", "failed"} : \E o \in {"row"} : Lifecycle!Settle(o, result)
      BY <1>4, <2>1, <2>3, RowMoves
    <3>2. QED
      BY <3>1 DEF Lifecycle!Next
  <2>4. QED
    BY <1>4, <2>1, <2>2, <2>3
<1>5. CASE Retract
  <2>1. /\ status \in {"processing", "sent"} /\ status' = "failed" /\ UNCHANGED attempts
        /\ Doubted = (IF status = "sent" THEN {"row"} ELSE {}) /\ Doubted' = {}
    BY <1>0, <1>5 DEF Retract, MarkFailed, IInv, RowInv
  <2>2. CASE status = "processing"
    BY <2>1, <2>2, RowMoves DEF Lifecycle!Next
  <2>3. CASE status = "sent"
    BY <2>1, <2>3, RowMoves DEF Lifecycle!Next
  <2>4. QED
    BY <2>1, <2>2, <2>3
<1>6. QED
  BY <1>1, <1>2, <1>3, <1>4, <1>5
     DEF Next, Exchange, Queue, Dispatch, Fill, Expire, Crash, MarkFailed,
         Reject, Prepare, PlaceLimit, LimitFails, WaitLimit, Cancel, NoMarket, PlaceMarket,
         MarketRefused, MarketBreaks, WaitMarket, BrokerSend, BrokerRefuses, AnswerIbkr,
         AnswerMt5, AnswerLost, Finish, Book, row, vars

\* The live order and the queue agree about the row: for any attempts and faults a
\* dispatch, with all its phases, crashes and repeats, is one start and at most one
\* result, which a broker's flow may take back while it is in doubt about it, as
\* OrderQueueProofs!Implements shows of the table.
THEOREM RowMovesAsQueued == Spec => MovesAsQueued
<1>1. IInv /\ [Next]_vars => [Lifecycle!Next]_(Lifecycle!vars)
  BY StepMoves
<1>2. QED
  BY <1>1, Invariance, PTL DEF Spec, MovesAsQueued

=============================================================================
