------------------------------ MODULE Backtest ------------------------------
(***************************************************************************)
(* The two simulators of services/backtest.py as the state machines they   *)
(* are: _simulate_trading_new_format ("bar"), which works a candle through *)
(* risk exits, signal exits, scaling rules, add signals, entries and the   *)
(* liquidation line, and _simulate_trading_mtf ("mtf"), which queues the   *)
(* signals of the strategy's candles and walks the execution candles along *)
(* an assumed price path.                                                  *)
(*                                                                         *)
(* Prices are left out: whether a candle touches a stop, a target, a       *)
(* trigger or the liquidation line is chosen freely, and of the capital    *)
(* only what the code compares is kept: below 0, below 1 (too little to    *)
(* trade), or enough.                                                      *)
(***************************************************************************)
EXTENDS Integers, Sequences

CONSTANTS
    Engines,    \* the simulators run: a subset of {"bar", "mtf"}
    MaxBars,    \* bound: candles
    MaxTimes,   \* maxTimes of every scaling rule, at least 1
    MaxQueue    \* bound: signals waiting in the mtf queue

ASSUME BacktestAssumption ==
    /\ Engines \subseteq {"bar", "mtf"}
    /\ MaxBars \in Nat /\ MaxTimes \in Nat \ {0} /\ MaxQueue \in Nat

VARIABLES
    engine,      \* the simulator
    both,        \* _both_mode: an entry closes the opposite position itself
    direction,   \* trade_direction
    scaling,     \* the scaling rules enabled, and "signal" for add signals
    pc,          \* what the loop body does next
    bar,         \* candles begun
    sig,         \* bar: the candle's signals after timing and filter
    queue,       \* mtf: signal_queue from signal_queue_idx on; act is the signal,
                 \*   of the set its candle carried
    pending,     \* mtf: pending_signal
    side,        \* position_type: "long", "short", or "none" without a position
    capital,     \* "neg": below 0, "low": below min_capital_to_trade, "ok"
    liquidated,  \* is_liquidated
    times,       \* *_times, the uses of each scaling rule
    ledger,      \* the position a reader of the trades list infers (history)
    reduced,     \* a reduction took the last position to zero (history)
    turns,       \* bar: sides to which the candle's signals turn the position,
                 \*   until that is done (history)
    lost         \* entries of reversals that were dropped, and why (history)

config == <<engine, both, direction, scaling>>
vars == <<engine, both, direction, scaling, pc, bar, sig, queue, pending, side,
          capital, liquidated, times, ledger, reduced, turns, lost>>

Sides == {"long", "short"}
Levels == {"neg", "low", "ok"}
Other(s) == IF s = "long" THEN "short" ELSE "long"

Open(s) == IF s = "long" THEN "open_long" ELSE "open_short"
Close(s) == IF s = "long" THEN "close_long" ELSE "close_short"

Rules == {"trend_add", "dca_add", "trend_reduce", "adverse_reduce"}
Unused == [r \in Rules |-> 0]

\* The signal sets one candle can carry.  buy/sell indicators are mapped to
\* the four names by trade direction; in both mode only entries remain.
Carried ==
    IF both THEN SUBSET {"open_long", "open_short"}
    ELSE SUBSET {"open_long", "close_long", "open_short", "close_short"}

\* The filter of the bar simulator by trade direction; mtf has none.
Wanted(S) ==
    CASE engine = "mtf" \/ direction = "both" -> S
      [] direction = "long" -> S \ {"open_short", "close_short"}
      [] OTHER -> S \ {"open_long", "close_long"}

\* What the trades list tells: entries when flat, exits of what is held.
Opened(l, s) == IF l = "none" THEN s ELSE "broken"
Closed(l, s) == IF l = s THEN "none" ELSE "broken"
Adjusted(l, s) == IF l = s THEN l ELSE "broken"

-----------------------------------------------------------------------------
Init ==
    /\ engine \in Engines
    /\ both \in BOOLEAN
    /\ direction \in {"long", "short", "both"}
    /\ both => direction = "both"
    /\ scaling \in IF engine = "mtf" THEN {{}}
                   ELSE {S \in SUBSET (Rules \cup {"signal"}) :
                            ~({"trend_add", "dca_add"} \subseteq S)}
    /\ pc = "top" /\ bar = 0
    /\ sig = {} /\ queue = <<>> /\ pending = "none"
    /\ side = "none" /\ capital = "ok" /\ liquidated = FALSE
    /\ times = Unused
    /\ ledger = "none" /\ reduced = FALSE /\ turns = {} /\ lost = {}

\* Mutant: the counters are forgotten.
ResetForgetful ==
    /\ side' = "none" /\ times' = times /\ reduced' = FALSE

\* The position is gone and its counters with it.
Reset ==
    /\ side' = "none" /\ times' = Unused /\ reduced' = FALSE

\* Ruin: the capital is set to 0 and no candle follows.
Ruin == liquidated' = TRUE /\ capital' = "low"

\* A position of side s ends in a liquidation; its counters stay.
Liquidate(s) ==
    /\ Ruin /\ side' = "none"
    /\ ledger' = Closed(ledger, s)
    /\ UNCHANGED <<times, reduced>>

-----------------------------------------------------------------------------
(* The head of the loop                                                    *)

\* The range ends, or a liquidation ends it early.
Finish ==
    /\ pc = "top" /\ (bar = MaxBars \/ liquidated)
    /\ pc' = "end"
    /\ UNCHANGED <<config, bar, sig, queue, pending, side, capital, liquidated,
                   times, ledger, reduced, turns, lost>>

Running == pc = "top" /\ bar < MaxBars /\ ~liquidated

\* Flat with less than 1 left: the bar simulator books a liquidation of
\* nothing, the other one only a point of the curve.
WipedOut ==
    /\ Running /\ side = "none" /\ capital # "ok"
    /\ bar' = bar + 1
    /\ Ruin
    /\ ledger' = IF engine = "bar" THEN Adjusted(ledger, "none") ELSE ledger
    /\ UNCHANGED <<config, pc, sig, queue, pending, side, times, reduced, turns, lost>>

\* A candle carrying S asks to turn the position over to side s.
Reverses(s, S) ==
    /\ side = Other(s) /\ Open(s) \in S /\ Open(side) \notin S
    /\ both \/ Close(side) \in S

Lost(s, why) == [side |-> s, why |-> why]

NextBar ==
    /\ Running /\ engine = "bar" /\ (side # "none" \/ capital = "ok")
    /\ bar' = bar + 1
    /\ \E S \in Carried :
          /\ sig' = Wanted(S)
          /\ turns' = {s \in Sides : Reverses(s, Wanted(S))}
    /\ pc' = IF side = "none" THEN "exit" ELSE "risk"
    /\ UNCHANGED <<config, queue, pending, side, capital, liquidated, times,
                   ledger, reduced, lost>>

-----------------------------------------------------------------------------
(* The bar simulator                                                       *)

Goto(label) == pc' = label /\ UNCHANGED <<config, bar, sig, queue, pending>>

\* No stop, target or trailing stop was touched.
Undisturbed ==
    /\ pc = "risk" /\ engine = "bar"
    /\ Goto("exit")
    /\ UNCHANGED <<side, capital, liquidated, times, ledger, reduced, turns, lost>>

\* One was: the candle is over, its signals with it.  Only a short's loss is
\* compared with the capital.
RiskExit ==
    /\ pc = "risk" /\ engine = "bar"
    /\ \/ /\ capital' \in IF side = "long" THEN Levels ELSE {"low", "ok"}
          /\ ledger' = Closed(ledger, side)
          /\ Reset
          /\ UNCHANGED liquidated
       \/ side = "short" /\ Liquidate("short")
    /\ Goto("top")
    /\ lost' = lost \cup {Lost(s, "stop") : s \in turns}
    /\ UNCHANGED turns

\* Mutant: a signal exit ends the candle as well.
SignalExitEnds ==
    /\ pc = "exit" /\ side # "none" /\ Close(side) \in sig
    /\ capital' = "ok" /\ UNCHANGED liquidated
    /\ ledger' = Closed(ledger, side)
    /\ Reset
    /\ Goto("mark")
    /\ UNCHANGED <<turns, lost>>

\* An exit signal of the position held, at the open or the close.
SignalExit ==
    /\ pc = "exit" /\ side # "none" /\ Close(side) \in sig
    /\ \/ /\ \E c \in Levels :
                IF c = "ok" THEN capital' = "ok" /\ UNCHANGED liquidated ELSE Ruin
          /\ ledger' = Closed(ledger, side)
          /\ Reset
          /\ Goto("entry")
       \/ /\ side = "short" /\ Liquidate("short")
          /\ Goto("top")
    /\ UNCHANGED <<turns, lost>>

NoExit ==
    /\ pc = "exit" /\ (side = "none" \/ Close(side) \notin sig)
    /\ Goto(IF sig = {} /\ side # "none" /\ capital = "ok" THEN "scale_in"
            ELSE IF sig = {} THEN "add" ELSE "entry")
    /\ UNCHANGED <<side, capital, liquidated, times, ledger, reduced, turns, lost>>

\* The stages that follow one another on a candle without a main signal.
After(label) ==
    CASE label = "scale_in" -> "trend_reduce"
      [] label = "trend_reduce" -> "adverse_reduce"
      [] label = "adverse_reduce" -> "add"
      [] label = "add" -> "entry"

Usable(rule) == rule \in scaling /\ side # "none" /\ times[rule] < MaxTimes

\* Trend and DCA scale-in, of which one can be enabled: only the commission
\* leaves the capital.
ScaleIn ==
    /\ pc = "scale_in"
    /\ \E rule \in {"trend_add", "dca_add"} :
          /\ Usable(rule)
          /\ times' = [times EXCEPT ![rule] = @ + 1]
    /\ capital' \in Levels
    /\ ledger' = Adjusted(ledger, side)
    /\ Goto(After(pc))
    /\ UNCHANGED <<side, liquidated, reduced, turns, lost>>

\* Trend and adverse reduction: part of the position or all of it.
ScaleOut ==
    /\ pc \in {"trend_reduce", "adverse_reduce"} /\ Usable(pc)
    /\ times' = [times EXCEPT ![pc] = @ + 1]
    /\ capital' \in Levels
    /\ \/ /\ ledger' = Adjusted(ledger, side)
          /\ UNCHANGED <<side, reduced>>
       \/ /\ ledger' = Closed(ledger, side)
          /\ side' = "none" /\ reduced' = TRUE
    /\ Goto(After(pc))
    /\ UNCHANGED <<liquidated, turns, lost>>

\* An add_long or add_short signal of the indicator, uncounted.
AddSignal ==
    /\ pc = "add" /\ "signal" \in scaling /\ side # "none" /\ capital = "ok"
    /\ capital' \in Levels
    /\ ledger' = Adjusted(ledger, side)
    /\ Goto(After(pc))
    /\ UNCHANGED <<side, liquidated, times, reduced, turns, lost>>

NoScaling ==
    /\ pc \in {"scale_in", "trend_reduce", "adverse_reduce", "add"}
    /\ Goto(After(pc))
    /\ UNCHANGED <<side, capital, liquidated, times, ledger, reduced, turns, lost>>

\* Mutant: an entry does not look at what is left.
EntersPoor(s) ==
    /\ Open(s) \in sig
    /\ side = "none" \/ (both /\ side = Other(s))

\* Whether an entry signal for side s can be acted on.
Enters(s) ==
    /\ Open(s) \in sig /\ capital = "ok"
    /\ side = "none" \/ (both /\ side = Other(s))

\* The entry tested first is the long one.
Entry(s) == pc = "entry" /\ Enters(s) /\ (s = "short" => ~Enters("long"))

\* Mutant: the exit of the flip is missing from the trades.
FlipRuinedUnlisted(s) ==
    /\ Entry(s) /\ side = Other(s)
    /\ Ruin /\ Reset
    /\ UNCHANGED ledger
    /\ Goto("top")
    /\ UNCHANGED <<turns, lost>>

\* In both mode the opposite position is closed first, and too little is left.
FlipRuined(s) ==
    /\ Entry(s) /\ side = Other(s)
    /\ Ruin /\ Reset
    /\ ledger' = Closed(ledger, side)
    /\ Goto("top")
    /\ UNCHANGED <<turns, lost>>

\* The position opens, after the flip if there is one, and the candle may
\* take it to its liquidation line or its stop at once.
Enter(s) ==
    LET flat == IF side = "none" THEN ledger ELSE Closed(ledger, side)
        open == Opened(flat, s)
        counts == IF side = "none" THEN times ELSE Unused
    IN
    /\ Entry(s)
    /\ times' = counts
    /\ reduced' = (reduced /\ side = "none")
    /\ \/ /\ side' = s /\ ledger' = open
          /\ capital' \in Levels /\ UNCHANGED liquidated
          /\ Goto("mark")
       \/ /\ side' = "none" /\ ledger' = Closed(open, s)
          /\ \/ Ruin
             \/ capital' \in {"low", "ok"} /\ UNCHANGED liquidated
          /\ Goto("top")
    /\ turns' = turns \ {s}
    /\ UNCHANGED lost

NoEntry ==
    /\ pc = "entry" /\ ~Enters("long") /\ ~Enters("short")
    /\ Goto("net")
    /\ UNCHANGED <<side, capital, liquidated, times, ledger, reduced, turns, lost>>

\* The safety net: a position held since before this candle meets its
\* liquidation line.  Its own branch for a stop price needs an exit signal,
\* which has closed such a position by now.
Net ==
    /\ pc = "net" /\ side # "none"
    /\ Liquidate(side)
    /\ Goto("top")
    /\ UNCHANGED <<turns, lost>>

\* The point of the equity curve ends the candle.
Mark ==
    /\ pc \in {"net", "mark"}
    /\ Goto("top")
    /\ lost' = lost \cup {Lost(s, "candle") : s \in {r \in turns : capital = "ok"}}
    /\ UNCHANGED <<side, capital, liquidated, times, ledger, reduced, turns>>

\* What is open at the end is closed at the last close; mtf leaves it open.
ForcedExit ==
    /\ pc = "end"
    /\ IF engine = "mtf" \/ side = "none"
       THEN UNCHANGED <<side, capital, liquidated, times, ledger, reduced>>
       ELSE \/ /\ capital' \in IF side = "long" THEN Levels ELSE {"low", "ok"}
               /\ ledger' = Closed(ledger, side)
               /\ side' = "none"
               /\ UNCHANGED <<liquidated, times, reduced>>
            \/ side = "short" /\ Liquidate("short")
    /\ Goto("done")
    /\ UNCHANGED <<turns, lost>>

-----------------------------------------------------------------------------
(* The mtf simulator                                                       *)

\* Mutant: entries are queued before exits.
OrderEntriesFirst == <<"open_long", "open_short", "close_long", "close_short">>

\* The order in which the signals of one strategy candle are queued.
Order == <<"open_long", "close_long", "open_short", "close_short">>

Batch(S) ==
    LET acts == SelectSeq(Order, LAMBDA x : x \in S)
    IN [i \in 1..Len(acts) |-> [act |-> acts[i], of |-> S]]

CanExecute(x) ==
    \/ x \in {"open_long", "open_short"} /\ side = "none"
    \/ x = "open_long" /\ both /\ side = "short"
    \/ x = "open_short" /\ both /\ side = "long"
    \/ x = "close_long" /\ side = "long"
    \/ x = "close_short" /\ side = "short"

\* The next execution candle, with the signals that have become effective:
\* those the position does not allow are dropped up to the first it allows.
NextCandle ==
    /\ Running /\ engine = "mtf" /\ (side # "none" \/ capital = "ok")
    /\ bar' = bar + 1
    /\ \E S \in Carried :
       LET due == queue \o Batch(Wanted(S))
           able == {i \in 1..Len(due) : CanExecute(due[i].act)}
           first == IF able = {} THEN Len(due) + 1
                    ELSE CHOOSE i \in able : \A j \in able : i <= j
       IN
       /\ Len(due) <= MaxQueue
       /\ pending' = IF able = {} THEN "none" ELSE due[first].act
       /\ queue' = SubSeq(due, first + 1, Len(due))
       /\ lost' = lost \cup
             {Lost(s, "queue") : s \in {r \in Sides : \E i \in 1..(first - 1) :
                 due[i].act = Open(r) /\ Reverses(r, due[i].of)}}
    /\ pc' = IF side = "none" THEN "fill" ELSE "risk"
    /\ UNCHANGED <<config, sig, side, capital, liquidated, times, ledger, reduced, turns>>

Proceed(label) == pc' = label /\ UNCHANGED <<config, bar, sig, queue, turns>>

\* A stop, target or trailing stop is met on the path; at the open it also
\* discards the pending signal.  The loss is floored at a long's stop and at a
\* short's stop and trailing stop.
PathExit ==
    /\ pc \in {"risk", "path"} /\ engine = "mtf" /\ side # "none"
    /\ \/ /\ capital' \in Levels
          /\ ledger' = Closed(ledger, side)
          /\ Reset /\ UNCHANGED liquidated
       \/ /\ side = "long" /\ Ruin /\ Reset
          /\ ledger' = Closed(ledger, side)
       \/ side = "short" /\ Liquidate("short")
    /\ lost' = lost \cup {Lost(s, "stop") : s \in {r \in Sides : pending = Open(r)}}
    /\ pending' = "none"
    /\ Proceed("path")

PathQuiet ==
    /\ pc = "risk" /\ engine = "mtf"
    /\ Proceed("fill")
    /\ UNCHANGED <<pending, side, capital, liquidated, times, ledger, reduced, lost>>

\* The pending entry executes at the open: no candle's low is compared with a
\* liquidation line here.
FillEntry(s) ==
    LET flat == IF side = "none" THEN ledger ELSE Closed(ledger, side) IN
    /\ pc = "fill" /\ pending = Open(s)
    /\ pending' = "none"
    /\ \/ /\ side' = s /\ ledger' = Opened(flat, s)
          /\ capital' \in Levels /\ UNCHANGED liquidated
       \/ /\ side # "none" /\ side' = "none" /\ ledger' = flat
          /\ Ruin
    /\ Proceed("path")
    /\ UNCHANGED <<times, reduced, lost>>

\* The pending exit.
FillExit ==
    /\ pc = "fill" /\ pending \in {"close_long", "close_short"}
    /\ pending' = "none"
    /\ ledger' = Closed(ledger, side)
    /\ Reset
    /\ \/ capital' = "ok" /\ UNCHANGED liquidated
       \/ Ruin
    /\ Proceed("path")
    /\ UNCHANGED lost

NoFill ==
    /\ pc = "fill" /\ pending = "none"
    /\ Proceed("path")
    /\ UNCHANGED <<pending, side, capital, liquidated, times, ledger, reduced, lost>>

\* The rest of the path is quiet and the candle is marked.
MarkCandle ==
    /\ pc = "path"
    /\ Proceed("top")
    /\ UNCHANGED <<pending, side, capital, liquidated, times, ledger, reduced, lost>>

-----------------------------------------------------------------------------
Next ==
    \/ Finish \/ WipedOut \/ NextBar \/ Undisturbed \/ RiskExit \/ SignalExit \/ NoExit
    \/ ScaleIn \/ ScaleOut \/ AddSignal \/ NoScaling
    \/ (\E s \in Sides : FlipRuined(s) \/ Enter(s))
    \/ NoEntry \/ Net \/ Mark \/ ForcedExit
    \/ NextCandle \/ PathExit \/ PathQuiet
    \/ (\E s \in Sides : FillEntry(s))
    \/ FillExit \/ NoFill \/ MarkCandle

Spec == Init /\ [][Next]_vars

-----------------------------------------------------------------------------
(* Properties                                                              *)

\* A reader of the trades list knows the position after every candle: each
\* entry, exit, reduction and liquidation is listed once, whichever of the
\* early ends of the loop body the candle takes.
TradesTellThePosition == ledger = side

\* After a liquidation nothing is held, and nothing is traded again.
LiquidationIsLast ==
    [][liquidated => side = "none" /\ UNCHANGED <<side, capital, ledger>>]_vars

\* A position starts with all uses of its scaling rules, except after a
\* position that a reduction took to zero.
FreshAllowances ==
    pc = "top" /\ side = "none" /\ ~reduced /\ ~liquidated => times = Unused

\* A position that the signals of a candle turn over is turned over while there is the
\* capital: the new side's entry is dropped only with the stop or target that closes
\* the position on the candle of the entry, or, as the long entry of a short's
\* reversal with explicit exits, by the order of the mtf queue.
EntriesKept ==
    \A e \in lost : \/ e.why = "stop"
                    \/ e.why = "queue" /\ e.side = "long" /\ ~both
=============================================================================
