----------------------------- MODULE SignalGate -----------------------------
(***************************************************************************)
(* From signals to orders: the part of a strategy's tick that decides      *)
(* which triggered signal becomes an order (trading_executor.py), against  *)
(* the queue that executes the orders later and the positions that both    *)
(* read and write.  One strategy and symbol, indicator mode (a bot script  *)
(* skips the filter and the once-per-candle rule).                         *)
(*                                                                         *)
(* A signal's timestamp is its candle, counted back from the current one:  *)
(* it is 0 or 1, since older signals expire.  The decision reads positions *)
(* in one transaction and enqueues in a later one; the order worker, the   *)
(* thread of one process, runs in between.  A reading that fails shows no  *)
(* position.  Position sizes are in lots.                                  *)
(***************************************************************************)
EXTENDS Integers, Sequences, FiniteSetsExt, SequencesExt

CONSTANTS
    Acts,         \* kinds of signals the strategy emits; a server-side exit is a close
    CountedActs,  \* kinds and sides of signals whose orders the history counts
    CountedSides,
    Modes,        \* execution modes explored
    Directions,   \* values of trade_direction
    Stops,        \* sides whose stop line the price may cross
    MaxLots,      \* bound on a position's size
    MaxQueue,     \* bound on queued orders
    MaxFaults     \* bound on failing reads, inserts, claims and executions, and on restarts

ASSUME ActsAssumption == /\ Acts \subseteq {"open", "add", "reduce", "close"}
                         /\ CountedActs \subseteq {"open", "close"}
                         /\ CountedSides \subseteq {"long", "short"}
                         /\ Modes \subseteq {"live", "signal"}
                         /\ Directions \subseteq {"long", "short", "both"}
                         /\ Stops \subseteq {"long", "short"}
ASSUME GateBounds == /\ MaxLots \in Nat \ {0} /\ MaxQueue \in Nat \ {0}
                     /\ MaxFaults \in Nat

Sides == {"long", "short"}
Signals == [act : Acts \cup {"close"}, side : Sides, age : 0..1]
Counted == {s \in Signals : s.act \in CountedActs /\ s.side \in CountedSides}
NoSignal == [act |-> "none", side |-> "long", age |-> 0]

VARIABLES
    mode,       \* execution_mode
    direction,  \* trade_direction
    cache,      \* _signal_dedup: the signals it holds reserved
    pos,        \* lots of the local position rows, by side
    stop,       \* side whose stop line the price has crossed for good, or "none"
    queue,      \* pending_orders, oldest first: pending, claimed or set aside
    pc,         \* where the tick is
    picked,     \* the signal selected in this tick
    size,       \* lots of its side when the positions were read for it
    issued,     \* history: orders this process inserted per counted signal
    sure,       \* history: this tick's first reading worked, and no entry was on order
    overlap,    \* history: an entry was decided while another one was queued
    blind,      \* history: an entry passed on a failed reading without a sure one before it
    outOfTurn,  \* history: an order was filled that had been set aside before
    faults

history == <<issued, sure, overlap, blind, outOfTurn>>
vars == <<mode, direction, cache, pos, stop, queue, pc, picked, size, history, faults>>

Init ==
    /\ mode \in Modes /\ direction \in Directions
    /\ cache = {}
    /\ pos = [d \in Sides |-> 0]
    /\ stop = "none"
    /\ queue = <<>>
    /\ pc = "tick" /\ picked = NoSignal /\ size = 0
    /\ issued = [s \in Counted |-> 0]
    /\ sure = FALSE /\ overlap = FALSE /\ blind = FALSE /\ outOfTurn = FALSE
    /\ faults = 0

Fault == faults < MaxFaults /\ faults' = faults + 1

-----------------------------------------------------------------------------
(* The decision.                                                           *)

\* The side of the first row read; rows come in no particular order.
States == {d \in Sides : pos[d] > 0} \cup {d \in {"flat"} : \A e \in Sides : pos[e] = 0}

\* Mutant: an entry is allowed against the position.
AllowedReverse(state, s) ==
    IF state = "flat" THEN s.act = "open" ELSE s.side = state => s.act # "open"

Allowed(state, s) ==
    IF state = "flat" THEN s.act = "open" ELSE s.side = state /\ s.act # "open"

\* While flat the configured direction decides between the two entries.
Wanted(state, s) == state = "flat" /\ direction # "both" => s.side = direction

Priority(act) == CASE act = "close"  -> 0
                   [] act = "reduce" -> 1
                   [] act = "open"   -> 2
                   [] act = "add"    -> 3

Before(s, t) ==
    \/ Priority(s.act) < Priority(t.act)
    \/ Priority(s.act) = Priority(t.act) /\ s.age > t.age
    \/ Priority(s.act) = Priority(t.act) /\ s.age = t.age /\ s.side = "long" /\ t.side = "short"

\* The server-side stop emits a close at every tick while the price is beyond the
\* line, with the candle's timestamp.
ServerExits(state) == {[act |-> "close", side |-> d, age |-> 0] : d \in {state} \cap {stop}}

\* Mutant: a reservation lasts until its candle ends.
RememberedBriefly(s) == FALSE

\* A reservation lasts two candles from when it is made.
Remembered(s) == s.age < 1

Candidates(state) ==
    {s \in Signals : s.act \in Acts /\ Allowed(state, s) /\ Wanted(state, s)}

Entry(o) == o.act \in {"open", "add"}
EntryOnOrder == \E i \in 1..Len(queue) : Entry(queue[i])

\* Of the candidates offered in a tick (two at most, and the server's exits), the
\* best one not yet reserved is reserved and selected.
Select(state, exits) ==
    \E one \in Candidates(state), two \in Candidates(state) :
        LET fresh == ({one, two} \cup exits) \ cache
        IN  \E s \in fresh :
                /\ \A t \in fresh \ {s} : Before(s, t)
                /\ picked' = s
                /\ cache' = cache \cup {s}

\* An exception while the positions are read shows none, where there are some.
Misread == Fault /\ "flat" \notin States

\* The server's exits and the filter read the positions separately.
Tick ==
    /\ pc = "tick"
    /\ \/ \E state \in States : Select(state, ServerExits(state))
          /\ sure' = ~EntryOnOrder /\ UNCHANGED faults
       \/ \E state \in States : ServerExits(state) # {} /\ Select(state, {})
          /\ sure' = ~EntryOnOrder /\ Misread
       \/ Select("flat", {}) /\ sure' = FALSE /\ Misread
    /\ pc' = "recheck"
    /\ UNCHANGED <<mode, direction, pos, stop, queue, size, issued, overlap, blind,
                   outOfTurn>>

Drop == pc' = "tick" /\ picked' = NoSignal /\ size' = 0 /\ sure' = FALSE

\* The filter, on what the second reading shows; the size is taken from it.
Filter(state, lots) ==
    IF Allowed(state, picked)
    THEN pc' = "enqueue" /\ size' = lots[picked.side] /\ sure' = FALSE /\ UNCHANGED picked
    ELSE Drop

Overlaps == overlap' = (overlap \/ (Entry(picked) /\ EntryOnOrder))

\* Mutant: the filter is not applied to the positions read again.
RecheckSkipped ==
    /\ pc = "recheck"
    /\ pc' = "enqueue" /\ size' = pos[picked.side] /\ sure' = FALSE
    /\ Overlaps
    /\ UNCHANGED <<mode, direction, cache, pos, stop, queue, picked, issued, blind,
                   outOfTurn, faults>>

\* The positions are read again.
Recheck ==
    /\ pc = "recheck"
    /\ \/ /\ \E state \in States : Filter(state, pos)
          /\ UNCHANGED <<blind, faults>>
       \/ /\ Misread /\ Filter("flat", [side \in Sides |-> 0])
          /\ blind' = (blind \/ (picked.act = "open" /\ ~sure))
    /\ Overlaps
    /\ UNCHANGED <<mode, direction, cache, pos, stop, queue, issued, outOfTurn>>

\* Entries can be vetoed: by the AI filter, the spot market, max_position,
\* max_daily_loss, or a size of nothing.
Veto ==
    /\ pc = "enqueue" /\ Entry(picked)
    /\ Drop
    /\ UNCHANGED <<mode, direction, cache, pos, stop, queue, issued, overlap, blind,
                   outOfTurn, faults>>

-----------------------------------------------------------------------------
(* Enqueue.                                                                *)

\* An entry is one lot, a close all the lots that were read; a reduction takes one
\* of them and is a close when it takes the last.
Order ==
    [act |-> IF picked.act = "reduce" /\ size = 1 THEN "close" ELSE picked.act,
     side |-> picked.side,
     amount |-> IF picked.act = "close" THEN size ELSE 1,
     late |-> FALSE, at |-> "pending", past |-> "none"]

QueuedEntries(side) == {i \in 1..Len(queue) : Entry(queue[i]) /\ queue[i].side = side}

\* Bounds of the model: the queue holds MaxQueue orders, and entries beyond MaxLots
\* are vetoed.
Bounded ==
    /\ Len(queue) < MaxQueue
    /\ Entry(picked) => pos[picked.side] + Cardinality(QueuedEntries(picked.side)) < MaxLots

\* The guard against a second order of the same candle raises on every row it finds
\* (int() of a timestamp) and its exception is swallowed: nothing is ever blocked.
Enqueue ==
    /\ pc = "enqueue" /\ Bounded
    /\ \/ /\ queue' = Append(queue, Order)
          /\ issued' = [s \in Counted |-> IF s = picked THEN issued[s] + 1 ELSE issued[s]]
          /\ UNCHANGED faults
       \/ Fault /\ UNCHANGED <<queue, issued>>
    /\ IF mode = "live" THEN Drop ELSE pc' = "simulate" /\ UNCHANGED <<picked, size, sure>>
    /\ UNCHANGED <<mode, direction, cache, pos, stop, overlap, blind, outOfTurn>>

\* In signal mode the strategy thread writes the position itself, from the rows it
\* read, whether or not the order was inserted.
Simulate ==
    /\ pc = "simulate"
    /\ pos' = [pos EXCEPT ![picked.side] = IF Entry(Order) THEN size + 1
                                           ELSE size - Order.amount]
    /\ Drop
    /\ UNCHANGED <<mode, direction, cache, stop, queue, issued, overlap, blind,
                   outOfTurn, faults>>

-----------------------------------------------------------------------------
(* The order worker: one thread, one row in hand.                          *)

Waiting == {i \in 1..Len(queue) : queue[i].at = "pending"}
InHand == {i \in 1..Len(queue) : queue[i].at = "claimed"}

\* Mutant: the newest order first.
DueNewest(i) == \A j \in Waiting : j <= i

\* The oldest order first.
Due(i) == \A j \in Waiting : i <= j

\* A row the worker leaves behind: "processing", or "pending" after the rest of its
\* batch; past tells whether its fill was booked.
Aside(o, booked) ==
    [o EXCEPT !.at = "aside",
              !.past = IF booked \/ o.past = "booked" THEN "booked" ELSE "missed"]

\* A claim that raises is given up, whether or not its update was committed.
Claim ==
    /\ InHand = {}
    /\ \E i \in Waiting :
        /\ Due(i)
        /\ \/ queue' = [queue EXCEPT ![i].at = "claimed"] /\ UNCHANGED faults
           \/ queue' = [queue EXCEPT ![i] = Aside(queue[i], FALSE)] /\ Fault
    /\ UNCHANGED <<mode, direction, cache, pos, stop, pc, picked, size, history>>

\* A row that reaches zero is deleted.
Reduced(lots, amount) == Max({0, lots - amount})

\* Filling an entry on a flat side opens a new position: exits queued before that
\* are late for it.
Fill(o, left) ==
    LET lots == IF Entry(o) THEN pos[o.side] + 1 ELSE Reduced(pos[o.side], o.amount)
        opens == pos[o.side] = 0 /\ Entry(o)
    IN  /\ pos' = [pos EXCEPT ![o.side] = lots]
        /\ queue' = [i \in DOMAIN left |->
                        [left[i] EXCEPT !.late = @ \/ (opens /\ left[i].side = o.side
                                                             /\ ~Entry(left[i]))]]

\* Filled or not, the row gets its final status or, when that cannot be written,
\* stays "processing".  In signal mode only a notification is sent.
Execute ==
    /\ \E i \in InHand, filled \in BOOLEAN, gone \in BOOLEAN :
        LET o == queue[i]
            left == IF gone THEN RemoveAt(queue, i)
                    ELSE [queue EXCEPT ![i] = Aside(o, filled)]
        IN  /\ filled => mode = "live"
            /\ IF gone /\ (filled \/ mode = "signal") THEN UNCHANGED faults ELSE Fault
            /\ IF filled THEN Fill(o, left) ELSE queue' = left /\ UNCHANGED pos
            /\ outOfTurn' = (outOfTurn \/ (filled /\ o.past # "none"))
    /\ UNCHANGED <<mode, direction, cache, stop, pc, picked, size, issued, sure,
                   overlap, blind>>

\* Rows "processing" for 90 seconds are given back, those skipped are in the next batch.
Return ==
    /\ \E i \in 1..Len(queue) :
        queue[i].at = "aside" /\ queue' = [queue EXCEPT ![i].at = "pending"]
    /\ UNCHANGED <<mode, direction, cache, pos, stop, pc, picked, size, history, faults>>

-----------------------------------------------------------------------------
(* The price, time and the process.                                        *)

\* The price crosses the stop line of a position and stays there while it is held.
CrossStop(side) ==
    /\ side \in Stops /\ stop = "none" /\ pos[side] > 0
    /\ stop' = side
    /\ UNCHANGED <<mode, direction, cache, pos, queue, pc, picked, size, history, faults>>

ForgetStop ==
    /\ stop \in Sides /\ pos[stop] = 0
    /\ stop' = "none"
    /\ UNCHANGED <<mode, direction, cache, pos, queue, pc, picked, size, history, faults>>

\* A tick lasts less than a candle: at most one boundary falls into it.
CandleEnds ==
    /\ pc # "tick" => picked.age = 0
    /\ issued' = [s \in Counted |-> IF s.age = 0 THEN 0 ELSE issued[[s EXCEPT !.age = 0]]]
    /\ picked' = IF pc = "tick" THEN picked ELSE [picked EXCEPT !.age = 1]
    /\ UNCHANGED <<mode, direction, pos, stop, queue, pc, size, sure, overlap, blind,
                   outOfTurn, faults>>

\* Mutant: reservations are kept without their candle.
NextCandleKeepsCache == CandleEnds /\ UNCHANGED cache

NextCandle ==
    /\ CandleEnds
    /\ cache' = {[s EXCEPT !.age = 1] : s \in {c \in cache : Remembered(c)}}

\* The cache is memory of the process, and a row in hand is left "processing".
Restart ==
    /\ Fault
    /\ cache' = {}
    /\ queue' = [i \in 1..Len(queue) |->
                    IF i \in InHand THEN Aside(queue[i], FALSE) ELSE queue[i]]
    /\ issued' = [s \in Counted |-> 0]
    /\ Drop
    /\ UNCHANGED <<mode, direction, pos, stop, overlap, blind, outOfTurn>>

-----------------------------------------------------------------------------

Strategy == Tick \/ Recheck \/ Veto \/ Enqueue \/ Simulate
Worker == Claim \/ Execute \/ Return
World == \/ \E side \in Sides : CrossStop(side)
         \/ ForgetStop \/ NextCandle \/ Restart

Next == Strategy \/ Worker \/ World

\* The tick loop and the worker keep running, and time passes.
Spec == /\ Init /\ [][Next]_vars
        /\ WF_vars(Strategy) /\ WF_vars(NextCandle)
        /\ WF_vars(Claim) /\ WF_vars(Execute) /\ WF_vars(Return)

-----------------------------------------------------------------------------
(* Properties.                                                             *)

\* "If any record already exists, do NOT enqueue again": an entry or a close is
\* ordered once per candle signal by each process.  (The query that should find the
\* record of an earlier process blocks nothing.)
OncePerCandle == \A s \in Counted : issued[s] <= 1

\* An entry is decided on a flat account and executed on one, unless another entry
\* was waiting in the queue when it was decided, both readings of its tick failed or
\* one failed while an entry was on order, or the row has been booked before: one
\* failing reading alone lets no entry through.
EntersFlat ==
    ~overlap /\ ~blind => \A i \in 1..Len(queue) :
        (queue[i].act = "open" /\ mode = "live" /\ queue[i].past # "booked") =>
            \A side \in Sides : pos[side] = 0

\* "Local mode assumes single-direction position per symbol": the two sides are
\* never held together, with the same exceptions; a row booked twice is none here.
OneDirection == ~overlap /\ ~blind => \E side \in Sides : pos[side] = 0

\* An exit executes against the position it was decided for: no exit waits in the
\* queue while its position is closed and a new one opened, unless the exit or an
\* order filled before had been set aside, or an entry came of failed readings.
ExitsAreTimely ==
    ~outOfTurn /\ ~blind => \A i \in 1..Len(queue) :
        queue[i].late => queue[i].past # "none" \/ pos[queue[i].side] = 0

\* A position whose price stays beyond the stop line is closed once the strategy has
\* ceased to add to it, although the exit is tried once per candle only and reads,
\* inserts, claims and executions may fail: what an add left over goes with a later
\* candle.
CeasesToEnter == <>[](\A i \in 1..Len(queue) : ~Entry(queue[i]))

StopsOut ==
    CeasesToEnter =>
        \A side \in Sides : stop = side ~> (pos[side] = 0 \/ overlap)

=============================================================================
