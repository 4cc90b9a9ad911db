------------------------------ MODULE LiveOrder ------------------------------
(***************************************************************************)
(* One live order: _execute_live_order with its limit phase, wait, cancel  *)
(* and market phase against a crypto exchange, or with one market order at *)
(* a broker (IBKR, MT5), run again when the queue gives an interrupted row *)
(* back.  One action per exchange call or database transaction; between    *)
(* two of them the exchange may fill its open orders and the process may   *)
(* die.                                                                    *)
(*                                                                         *)
(* Sizes count the smallest step of the exchange.  Fees, prices and the    *)
(* fifteen client classes are left out: each class makes the same calls in *)
(* the same order.  The queue runs one dispatch of the row at a time here  *)
(* (OrderQueue says when that is so).                                      *)
(***************************************************************************)
EXTENDS Integers, FiniteSetsExt

CONSTANTS
    Venues,          \* what orders go to: a subset of {"crypto", "ibkr", "mt5"}
    Asked,           \* the amount in the order's payload
    FillLevels,      \* the executed sizes an order of the exchange can show
    MinTail,         \* below this the OKX tail guard gives up (0: no guard)
    LotStep,         \* volume_step of an MT5 symbol
    RefusesRepeats,  \* the exchange refuses a client order id it has seen
    MaxAttempts,     \* max_attempts of the row
    MaxFaults        \* bound on crashes and calls whose outcome is lost

ASSUME SizesAssumption == /\ Asked \in Nat \ {0} /\ LotStep \in Nat \ {0}
                          /\ FillLevels \subseteq Nat \ {0}
                          /\ MinTail \in Nat
ASSUME BoundsAssumption == /\ Venues \subseteq {"crypto", "ibkr", "mt5"}
                           /\ MaxAttempts \in Nat \ {0} /\ MaxFaults \in Nat
                           /\ RefusesRepeats \in BOOLEAN

Phases == {"lmt", "mkt"}
Keys == (1..MaxAttempts) \X Phases
NoOrder == [oid |-> <<>>, qty |-> 0, filled |-> 0, state |-> "none"]

VARIABLES
    venue,      \* the client that create_client returned
    kind,       \* "open": opens or adds; "close": reduce-only
    limitFirst, \* order_mode asks for the limit phase
    held,       \* what the exchange holds of the position to reduce
    exch,       \* the orders the exchange accepted, by attempt and phase
    status, attempts,           \* the row
    pc,                         \* where the dispatch is; "idle" between two
    amount, remaining, total,   \* its locals: amount, remaining, total_base
    seen,       \* history: limit fills the wait reported in this attempt
    booked,     \* size written to trades and positions, over all attempts
    faults

row == <<status, attempts>>
config == <<venue, kind, limitFirst>>
vars == <<config, held, exch, status, attempts, pc, amount, remaining,
          total, seen, booked, faults>>

\* Brokers know no reduce-only orders.
ReduceOnly == kind = "close" /\ venue = "crypto"

Init ==
    /\ venue \in Venues /\ kind \in {"open", "close"}
    /\ limitFirst \in IF venue = "crypto" THEN BOOLEAN ELSE {FALSE}
    /\ held \in IF ReduceOnly THEN FillLevels \cup {0} ELSE {0}
    /\ exch = [k \in Keys |-> NoOrder]
    /\ status = "pending" /\ attempts = 0
    /\ pc = "idle"
    /\ amount = 0 /\ remaining = 0 /\ total = 0 /\ seen = 0
    /\ booked = 0 /\ faults = 0

Key(phase) == <<attempts, phase>>
Fault == faults < MaxFaults /\ faults' = faults + 1

-----------------------------------------------------------------------------
(* The exchange.                                                           *)

\* Mutant: a client order id that differs from one attempt to the next.
ClientOidFresh(phase) == <<phase, attempts>>

\* The id is derived from the order and the phase, so a repeated attempt uses
\* the same one.
ClientOid(phase) == <<phase>>

Accepts(phase) ==
    RefusesRepeats => \A k \in Keys : exch[k].oid # ClientOid(phase)

Placed(phase, qty) ==
    [exch EXCEPT ![Key(phase)] = [oid |-> ClientOid(phase), qty |-> qty,
                                  filled |-> 0, state |-> "open"]]

\* An open order executes further; a reduce-only one only while the position lasts.
Fill(k) ==
    \E level \in FillLevels :
        LET more == level - exch[k].filled IN
        /\ exch[k].state = "open"
        /\ 0 < more /\ level <= exch[k].qty
        /\ ReduceOnly => more <= held
        /\ held' = IF ReduceOnly THEN held - more ELSE held
        /\ exch' = [exch EXCEPT ![k].filled = level,
                                ![k].state = IF level = exch[k].qty THEN "closed" ELSE @]
        /\ UNCHANGED <<config, row, pc, amount, remaining, total, seen,
                       booked, faults>>

\* The unexecuted part of a market order does not rest.
Expire(k) ==
    /\ k[2] = "mkt" /\ exch[k].state = "open"
    /\ exch' = [exch EXCEPT ![k].state = "closed"]
    /\ UNCHANGED <<config, held, row, pc, amount, remaining, total, seen,
                   booked, faults>>

\* What wait_for_fill may report of an order: the size shown by its last poll
\* that succeeded, nothing if none did or if no price came with it.
Reports(phase) == {0} \cup {f \in FillLevels : f <= exch[Key(phase)].filled}

-----------------------------------------------------------------------------
(* The row, as the queue moves it between dispatches.                      *)

Claim ==
    /\ pc = "idle" /\ status = "pending"
    /\ status' = "processing" /\ attempts' = attempts + 1
    /\ pc' = "prepare"
    /\ amount' = 0 /\ remaining' = 0 /\ total' = 0 /\ seen' = 0
    /\ UNCHANGED <<config, held, exch, booked, faults>>

Requeue ==
    /\ pc = "idle" /\ status = "processing" /\ attempts < MaxAttempts
    /\ status' = "pending"
    /\ UNCHANGED <<config, held, exch, attempts, pc, amount, remaining,
                   total, seen, booked, faults>>

Crash ==
    /\ pc # "idle" /\ Fault
    /\ pc' = "idle"
    /\ UNCHANGED <<config, held, exch, row, amount, remaining, total,
                   seen, booked>>

MarkFailed == status' = "failed" /\ pc' = "idle"

-----------------------------------------------------------------------------
(* The dispatch.                                                           *)

Least(a, b) == IF a < b THEN a ELSE b

\* A reduce-only order is cut to the local row, which the sync has just set unless
\* it failed (no row: to nothing), unless the row cannot be read ...
CutToRow == {Asked} \cup {Least(Asked, local) : local \in {held} \cup FillLevels \cup {0}}

\* ... then to the position the exchange reports, unless that call fails or
\* reports none.
CutToPosition(a) == {a, IF 0 < held THEN Least(a, held) ELSE a}

Amounts == IF ReduceOnly THEN UNION {CutToPosition(a) : a \in CutToRow} ELSE {Asked}

\* Validation, client or leverage errors, and nothing left to reduce.  IBKR
\* takes no short, MT5 must connect.
Reject ==
    /\ pc = "prepare"
    /\ MarkFailed
    /\ UNCHANGED <<config, held, exch, attempts, amount, remaining, total,
                   seen, booked, faults>>

Prepare ==
    /\ pc = "prepare"
    /\ \E a \in Amounts \ {0} : amount' = a /\ remaining' = a
    /\ pc' = IF venue # "crypto" THEN "send" ELSE IF limitFirst THEN "limit" ELSE "market"
    /\ UNCHANGED <<config, held, exch, row, total, seen, booked, faults>>

PlaceLimit ==
    /\ pc = "limit" /\ Accepts("lmt")
    /\ exch' = Placed("lmt", remaining)
    /\ pc' = "wait"
    /\ UNCHANGED <<config, held, row, amount, remaining, total, seen,
                   booked, faults>>

\* Any exception of the phase: the market phase takes the whole amount, also
\* when the exchange has accepted the order and only the answer was lost.
LimitFails ==
    /\ pc = "limit"
    /\ \/ UNCHANGED <<exch, faults>>
       \/ Accepts("lmt") /\ Fault /\ exch' = Placed("lmt", remaining)
    /\ remaining' = amount
    /\ pc' = "market"
    /\ UNCHANGED <<config, held, row, amount, total, seen, booked>>

\* Mutant: the market phase chases the whole amount after a partial limit fill.
RestOfNothing(filled) == amount

Rest(filled) == Max({0, amount - filled})
TailGuarded(rest) == IF rest < MinTail THEN {rest, 0} ELSE {rest}

\* Mutant: only a partially filled order is cancelled.
WorthCancellingPartial(rest) == rest < amount /\ 1000 * rest > amount

WorthCancelling(rest) == 1000 * rest > amount

WaitLimit ==
    /\ pc = "wait"
    /\ \E r \in Reports("lmt") :
        /\ total' = total + r /\ seen' = r
        /\ \E rest \in TailGuarded(Rest(total')) :
            /\ remaining' = rest
            /\ pc' = IF WorthCancelling(rest) THEN "cancel" ELSE "market"
    /\ UNCHANGED <<config, held, exch, row, amount, booked, faults>>

\* Errors of the cancel call are swallowed; the order may then stay open.
Cancel ==
    /\ pc = "cancel"
    /\ \/ exch' = [exch EXCEPT ![Key("lmt")].state = "closed"] /\ UNCHANGED faults
       \/ Fault /\ UNCHANGED exch
    /\ pc' = "market"
    /\ UNCHANGED <<config, held, row, amount, remaining, total, seen, booked>>

NoMarket ==
    /\ pc = "market" /\ remaining = 0
    /\ pc' = "finish"
    /\ UNCHANGED <<config, held, exch, row, amount, remaining, total, seen,
                   booked, faults>>

PlaceMarket ==
    /\ pc = "market" /\ remaining > 0 /\ Accepts("mkt")
    /\ exch' = Placed("mkt", remaining)
    /\ pc' = "mwait"
    /\ UNCHANGED <<config, held, row, amount, remaining, total, seen,
                   booked, faults>>

\* Mutant: a market phase that fails before any fill ends like a partial success.
MarketRefusedForgiven ==
    /\ pc = "market" /\ remaining > 0
    /\ pc' = "finish" /\ remaining' = 0
    /\ UNCHANGED <<config, held, exch, row, amount, total, seen, booked, faults>>

\* LiveTradingError: a partial success when the limit phase has fills.
MarketRefused ==
    /\ pc = "market" /\ remaining > 0
    /\ IF total > 0 THEN pc' = "finish" /\ remaining' = 0 /\ UNCHANGED status
                    ELSE MarkFailed /\ UNCHANGED remaining
    /\ UNCHANGED <<config, held, exch, attempts, amount, total, seen,
                   booked, faults>>

\* Any other exception (a timeout of requests): failed, whatever was executed.
MarketBreaks ==
    /\ pc = "market" /\ remaining > 0 /\ Fault
    /\ \/ UNCHANGED exch
       \/ Accepts("mkt") /\ exch' = Placed("mkt", remaining)
    /\ MarkFailed
    /\ UNCHANGED <<config, held, attempts, amount, remaining, total, seen,
                   booked>>

\* Mutant: the two phases' fills are both counted from the limit order.
WaitMarketTwice ==
    /\ pc = "mwait"
    /\ \E r \in Reports("mkt") : total' = total + r + seen
    /\ pc' = "finish"
    /\ UNCHANGED <<config, held, exch, row, amount, remaining, seen, booked,
                   faults>>

WaitMarket ==
    /\ pc = "mwait"
    /\ \E r \in Reports("mkt") : total' = total + r
    /\ pc' = "finish"
    /\ UNCHANGED <<config, held, exch, row, amount, remaining, seen, booked,
                   faults>>

(* A broker: place_market_order, one call that sends the order and answers. *)

\* The volume rounded to the lot step.
Lots(a) == ((2 * a + LotStep) \div (2 * LotStep)) * LotStep

\* Brokers are given no client order id.
BrokerSend ==
    /\ pc = "send"
    /\ LET qty == IF venue = "mt5" THEN Lots(amount) ELSE amount
       IN  exch' = [exch EXCEPT ![Key("mkt")] = [NoOrder EXCEPT !.qty = qty, !.state = "open"]]
    /\ pc' = "answer"
    /\ UNCHANGED <<config, held, row, amount, remaining, total, seen, booked, faults>>

\* No connection, an unknown symbol, a volume out of range.
BrokerRefuses ==
    /\ pc = "send"
    /\ MarkFailed
    /\ UNCHANGED <<config, held, exch, attempts, amount, remaining, total, seen,
                   booked, faults>>

Unfilled(order) == order.state = "closed" /\ order.filled < order.qty

\* IBKR is asked two seconds later: what it shows then counts, and an order
\* cancelled by then is a failure whatever it has executed.
AnswerIbkr ==
    /\ pc = "answer" /\ venue = "ibkr"
    /\ \/ /\ \E r \in Reports("mkt") : total' = r
          /\ pc' = "finish" /\ UNCHANGED status
       \/ Unfilled(exch[Key("mkt")]) /\ MarkFailed /\ UNCHANGED total
    /\ UNCHANGED <<config, held, exch, attempts, amount, remaining, seen,
                   booked, faults>>

\* MT5 answers when the deal is over; anything but the whole volume is a failure.
AnswerMt5 ==
    /\ pc = "answer" /\ venue = "mt5" /\ exch[Key("mkt")].state = "closed"
    /\ IF Unfilled(exch[Key("mkt")])
       THEN MarkFailed /\ UNCHANGED total
       ELSE total' = exch[Key("mkt")].filled /\ pc' = "finish" /\ UNCHANGED status
    /\ UNCHANGED <<config, held, exch, attempts, amount, remaining, seen,
                   booked, faults>>

\* The client turns every exception into a failure, also one after the order.
AnswerLost ==
    /\ pc = "answer" /\ Fault
    /\ MarkFailed
    /\ UNCHANGED <<config, held, exch, attempts, amount, remaining, total, seen,
                   booked>>

-----------------------------------------------------------------------------
\* Without any reported fill the whole amount counts as filled at ref_price.
FilledFinal == IF total > 0 THEN total ELSE amount

\* When _mark_sent raises, before its commit or after it, a crypto fill is booked
\* all the same; a broker's is not, and its flow goes on to _mark_failed.
Finish ==
    /\ pc = "finish"
    /\ \/ status' = "sent" /\ pc' = "book" /\ UNCHANGED faults
       \/ /\ Fault
          /\ status' \in {status, "sent"}
          /\ pc' = IF venue = "crypto" THEN "book" ELSE "retract"
    /\ UNCHANGED <<config, held, exch, attempts, amount, remaining, total,
                   seen, booked>>

\* The broker flows' handler: WHERE id only, also over a "sent" that was committed.
Retract ==
    /\ pc = "retract"
    /\ MarkFailed
    /\ UNCHANGED <<config, held, exch, attempts, amount, remaining, total,
                   seen, booked, faults>>

Book ==
    /\ pc = "book"
    /\ \/ booked' = booked + FilledFinal /\ UNCHANGED faults
       \/ Fault /\ UNCHANGED booked
    /\ pc' = "idle"
    /\ UNCHANGED <<config, held, exch, row, amount, remaining, total, seen>>

-----------------------------------------------------------------------------

Exchange == \E k \in Keys : Fill(k) \/ Expire(k)
Queue == Claim \/ Requeue \/ Crash
Dispatch == \/ Reject \/ Prepare
            \/ PlaceLimit \/ LimitFails \/ WaitLimit \/ Cancel
            \/ NoMarket \/ PlaceMarket \/ MarketRefused \/ MarketBreaks \/ WaitMarket
            \/ BrokerSend \/ BrokerRefuses \/ AnswerIbkr \/ AnswerMt5 \/ AnswerLost
            \/ Finish \/ Retract \/ Book

Next == Exchange \/ Queue \/ Dispatch

Spec == Init /\ [][Next]_vars

-----------------------------------------------------------------------------
(* Properties.                                                             *)

Executed(a) == exch[<<a, "lmt">>].filled + exch[<<a, "mkt">>].filled
ExecutedUpTo[a \in 0..MaxAttempts] ==
    IF a = 0 THEN 0 ELSE ExecutedUpTo[a - 1] + Executed(a)
ExecutedInAll == ExecutedUpTo[attempts]

\* What rounding to lots may add.
Rounding == IF venue = "mt5" THEN LotStep \div 2 ELSE 0

\* However often the row is dispatched, and whatever crash or lost answer made it
\* so, the exchange executes at most twice what was asked, provided it refuses a
\* client order id it has seen: the ids are deterministic per order and phase.
\* Without such ids a broker may execute the order again for every fault.
ExposureBounded ==
    IF venue = "crypto" THEN RefusesRepeats => ExecutedInAll <= 2 * Asked
    ELSE ExecutedInAll <= (1 + faults) * (Asked + Rounding)

\* Within an attempt the market order takes no more than what the wait left of
\* the amount, rounded to lots: it overfills by the limit fills the wait did not
\* report (those before the cancel took effect, or behind a lost answer), no further.
OverfillIsUnseen ==
    attempts > 0 =>
        /\ exch[Key("mkt")].qty + seen <= amount + Rounding
        /\ Executed(attempts) <= amount + Rounding + (exch[Key("lmt")].filled - seen)

\* A row marked sent has an order the exchange accepted in its last attempt.
SentIsBacked ==
    status = "sent" => \E phase \in Phases : exch[Key(phase)].state # "none"

\* Without lost answers no limit order is left open behind a sent row, except for
\* a rest below 0.1 % of the amount or below the exchange's minimum, which the
\* code leaves on the book.
RestingIsExplained ==
    (status = "sent" /\ faults = 0 /\ exch[Key("lmt")].state = "open") =>
        \/ 1000 * (amount - seen) <= amount
        \/ amount - seen < MinTail

\* Without faults, what the exchange reported of an order is what trades and positions
\* get, and no more than what it executed: a second phase that is refused neither
\* fails the row nor loses the fills of the first.  Only an order with no reported
\* fill at all is booked on trust.
BookedIsBought ==
    (status \in {"sent", "failed"} /\ pc = "idle" /\ faults = 0 /\ total > 0) =>
        status = "sent" /\ booked = total /\ total <= ExecutedInAll

-----------------------------------------------------------------------------
(* Refinement.                                                             *)

Lifecycle == INSTANCE OrderLifecycle
             WITH Orders <- {"row"},
                  state <- [o \in {"row"} |-> status],
                  tries <- [o \in {"row"} |-> attempts],
                  doubted <- {o \in {"row"} : status = "sent" /\ pc = "retract"}

\* The row moves as the queue promises, whatever the dispatch meets: what OrderQueue
\* takes for one call and this module for a dozen has one start and one result.
MovesAsQueued == [][Lifecycle!Next]_(Lifecycle!vars)

=============================================================================
