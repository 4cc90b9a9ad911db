----------------------------- MODULE PositionBook -----------------------------
(***************************************************************************)
(* The local row of a position against the position on the exchange        *)
(* (pending_order_worker.py, live_trading/records.py, trading_executor.py):*)
(* one live strategy, one symbol and side, one account.                    *)
(*                                                                         *)
(* Three threads write the row.  The order worker reconciles it and books  *)
(* the fills of the orders it executes, one thing after the other; a       *)
(* strategy thread reconciles it when it starts and later writes back, with*)
(* the size it read, the rows whose high and low it tracks.  Everything    *)
(* else on the account (the user, a second strategy) trades without        *)
(* touching this row.  Every read and every write is a transaction.        *)
(*                                                                         *)
(* Sizes are in lots.  The reconciliation ignores differences of 1 %, or   *)
(* of 0.01 below one unit: none of these lots (slack 0) or one (slack 1).  *)
(***************************************************************************)
EXTENDS Integers

CONSTANTS
    MaxLots,      \* bound on the exchange's position
    MaxOrders,    \* bound on orders executed
    MaxExternal,  \* bound on trades of others
    MaxStarts,    \* bound on starts of the strategy
    MaxFaults,    \* bound on failing reads, writes and queries
    Slacks        \* lots of difference the comparison ignores: a subset of {0, 1}

ASSUME BookBounds == /\ MaxLots \in Nat \ {0} /\ MaxOrders \in Nat
                     /\ MaxExternal \in Nat /\ MaxStarts \in Nat /\ MaxFaults \in Nat
                     /\ Slacks \subseteq {0, 1}

Threads == {"worker", "startup"}

\* A row and its serial id, which a row inserted later does not share.  Ids are
\* compared only with ids remembered, so an id nobody remembers is as good as new.
Ids == 1..4
NoRow == [id |-> 0, size |-> 0]

NoPlan == [do |-> "nothing", id |-> 0, size |-> 0]
NoOrder == [act |-> "none", asked |-> 0, amount |-> 0]

VARIABLES
    exch,     \* the exchange's position
    row,      \* the row of qd_strategy_positions
    slack,    \* what the comparison ignores
    running,  \* status is 'running'
    sync,     \* by thread: where its reconciliation is, the row it loaded, its plan
    stage,    \* where the worker is
    order,    \* the order it executes
    filled,   \* the fill it believes in
    cur,      \* the size it read to book the fill
    held,     \* the size the strategy read and will write back, 0 for none
    budget    \* what is left of the bounds

\* History: whether the row can be trusted, and whether a thread's
\* reconciliation was overtaken by another change.
VARIABLES trusted, overtaken

bookVars == <<exch, row, slack, running, sync, stage, order, filled, cur, held, budget,
              trusted, overtaken>>

Resting == [at |-> "idle", seen |-> NoRow, plan |-> NoPlan]

BookInit ==
    /\ exch = 0 /\ row = NoRow /\ slack \in Slacks
    /\ running = FALSE
    /\ sync = [t \in Threads |-> Resting]
    /\ stage = "idle" /\ order = NoOrder /\ filled = 0 /\ cur = 0 /\ held = 0
    /\ budget = [orders |-> MaxOrders, external |-> MaxExternal,
                 starts |-> MaxStarts, faults |-> MaxFaults]
    /\ trusted = TRUE /\ overtaken = [t \in Threads |-> FALSE]

Spend(what) == budget[what] > 0 /\ budget' = [budget EXCEPT ![what] = @ - 1]

Distance(a, b) == IF a > b THEN a - b ELSE b - a

\* A change to the row or the exchange overtakes the reconciliations under way,
\* but for the one of the thread that makes it.
Overtaken(by, changed) ==
    [t \in Threads |-> overtaken[t] \/ (changed /\ t # by /\ sync[t].at # "idle")]

-----------------------------------------------------------------------------
(* Writing the row.                                                        *)

FreshId == CHOOSE i \in Ids : /\ i # row.id
                              /\ \A t \in Threads : i \notin {sync[t].seen.id, sync[t].plan.id}

Upserted(size) == [id |-> IF row = NoRow THEN FreshId ELSE row.id, size |-> size]

\* Deletes and updates go by id and miss a row that was replaced; an insert that
\* meets a row violates the unique key and its transaction is rolled back.
Applied(plan) ==
    CASE plan.do = "delete" -> IF row.id = plan.id THEN NoRow ELSE row
      [] plan.do = "update" -> IF row.id = plan.id THEN [row EXCEPT !.size = plan.size] ELSE row
      [] plan.do = "insert" -> IF row = NoRow THEN Upserted(plan.size) ELSE row
      [] OTHER -> row

-----------------------------------------------------------------------------
(* Reconciliation: load the row, ask the exchange, apply the difference.   *)

Loads(t) == sync' = [sync EXCEPT ![t] = [at |-> "ask", seen |-> row, plan |-> NoPlan]]

\* The worker goes on with its order, if it has one.
AfterSync(t) ==
    IF t # "worker" THEN stage ELSE IF order = NoOrder THEN "idle" ELSE "clamp"

Ends(t) ==
    /\ sync' = [sync EXCEPT ![t] = Resting]
    /\ overtaken' = [overtaken EXCEPT ![t] = FALSE]
    /\ stage' = AfterSync(t)

Plan(do, id, size) == [do |-> do, id |-> id, size |-> size]

\* Without a row only a strategy that runs, or that is asked for, is reconciled.
Eligible(t) == running \/ t = "startup" \/ order # NoOrder \/ sync[t].seen # NoRow

\* The worker's reconciliations restore the trust, if nothing overtook them.
Restores(t) == t = "worker" /\ ~overtaken[t] /\ Eligible(t)

\* Mutant: the tolerance also covers a flat exchange.
VerdictsTolerant(t) ==
    LET seen == sync[t].seen
    IN  CASE Distance(exch, seen.size) <= slack -> {NoPlan}
          [] exch = 0 -> {Plan("delete", seen.id, 0)}
          [] seen # NoRow -> {Plan("update", seen.id, exch)}
          [] OTHER -> IF Eligible(t) THEN {Plan("insert", 0, exch)} ELSE {NoPlan}

\* What the loaded row calls for.  An entry price off by more than 0.5 % calls for
\* an update whatever the sizes.
Verdicts(t) ==
    LET seen == sync[t].seen
    IN  CASE exch = 0 /\ seen # NoRow -> {Plan("delete", seen.id, 0)}
          [] exch > 0 /\ seen # NoRow ->
                {Plan("update", seen.id, exch)}
                    \cup {p \in {NoPlan} : Distance(exch, seen.size) <= slack}
          [] exch > 0 /\ seen = NoRow /\ Eligible(t) -> {Plan("insert", 0, exch)}
          [] OTHER -> {NoPlan}

Ask(t) ==
    /\ sync[t].at = "ask"
    /\ \E plan \in Verdicts(t) :
        IF plan = NoPlan
        THEN Ends(t) /\ trusted' = (trusted \/ Restores(t))
        ELSE /\ sync' = [sync EXCEPT ![t].at = "apply", ![t].plan = plan]
             /\ UNCHANGED <<stage, overtaken, trusted>>
    /\ UNCHANGED <<exch, row, slack, running, order, filled, cur, held, budget>>

\* Loading, asking or applying raises and the reconciliation is given up.
SyncFails(t) ==
    /\ sync[t].at # "idle"
    /\ Spend("faults")
    /\ Ends(t)
    /\ UNCHANGED <<exch, row, slack, running, order, filled, cur, held, trusted>>

Apply(t) ==
    /\ sync[t].at = "apply"
    /\ row' = Applied(sync[t].plan)
    /\ sync' = [sync EXCEPT ![t] = Resting]
    /\ stage' = AfterSync(t)
    /\ overtaken' = [u \in Threads |-> u # t /\ (overtaken[u] \/ (sync[u].at # "idle" /\ row' # row))]
    /\ trusted' = IF overtaken[t] THEN trusted /\ row' = row ELSE trusted \/ Restores(t)
    /\ UNCHANGED <<exch, slack, running, order, filled, cur, held, budget>>

-----------------------------------------------------------------------------
(* The order worker.                                                       *)

\* The periodic reconciliation, between batches.
PeriodicSync ==
    /\ stage = "idle"
    /\ stage' = "sync" /\ Loads("worker")
    /\ UNCHANGED <<exch, row, slack, running, order, filled, cur, held, budget,
                   trusted, overtaken>>

\* An order is preceded by a reconciliation of its strategy.
TakeOrder ==
    /\ stage = "idle"
    /\ Spend("orders")
    /\ \E act \in {"open", "close"}, asked \in 1..MaxLots :
            order' = [act |-> act, asked |-> asked, amount |-> asked]
    /\ stage' = "sync" /\ Loads("worker")
    /\ UNCHANGED <<exch, row, slack, running, filled, cur, held, trusted, overtaken>>

Lower(a, b) == IF a < b THEN a ELSE b

\* Mutant: the amount of a close is not limited to the row.
ClampSkipped ==
    /\ stage = "clamp"
    /\ stage' = "query"
    /\ UNCHANGED <<exch, row, slack, running, sync, order, filled, cur, held, budget,
                   trusted, overtaken>>

\* A close is limited to the row, to nothing without one; a failing read leaves it.
Clamp ==
    /\ stage = "clamp"
    /\ \/ /\ order' = IF order.act = "open" THEN order
                      ELSE [order EXCEPT !.amount = Lower(@, row.size)]
          /\ UNCHANGED budget
       \/ order.act = "close" /\ Spend("faults") /\ UNCHANGED order
    /\ stage' = "query"
    /\ UNCHANGED <<exch, row, slack, running, sync, filled, cur, held, trusted, overtaken>>

\* Then to the exchange's position, if that is not flat; an amount of nothing is
\* refused.
Query ==
    /\ stage = "query"
    /\ \/ /\ order' = IF order.amount = 0 THEN NoOrder
                      ELSE IF order.act = "close" /\ exch > 0
                           THEN [order EXCEPT !.amount = Lower(@, exch)] ELSE order
          /\ UNCHANGED budget
       \/ /\ order.act = "close" /\ order.amount > 0
          /\ Spend("faults") /\ UNCHANGED order
    /\ stage' = IF order.amount = 0 THEN "idle" ELSE "place"
    /\ UNCHANGED <<exch, row, slack, running, sync, filled, cur, held, trusted, overtaken>>

\* What is booked of an order.  One that breaks off is given up; of one the exchange
\* accepted, the fill the answers showed, or all that was ordered when they showed
\* none.
Believed(accepted, known) ==
    IF ~accepted THEN 0 ELSE IF known > 0 THEN known ELSE order.amount

\* The exchange executes some of the order, of a reduce-only one at most the position,
\* and its answers show some of that.
Place ==
    /\ stage = "place"
    /\ \E f \in 0..order.amount, known \in 0..order.amount, accepted \in BOOLEAN :
        /\ known <= f
        /\ IF order.act = "open" THEN exch + f <= MaxLots /\ exch' = exch + f
                                 ELSE f <= exch /\ exch' = exch - f
        /\ filled' = Believed(accepted, known)
        /\ trusted' = (trusted /\ filled' = f)
        /\ overtaken' = Overtaken("worker", f > 0 \/ filled' > 0)
    /\ stage' = IF filled' > 0 THEN "book" ELSE "idle"
    /\ order' = IF filled' > 0 THEN order ELSE NoOrder
    /\ UNCHANGED <<row, slack, running, sync, cur, held, budget>>

\* apply_fill_to_local_position reads the row ...
BookRead ==
    /\ stage = "book"
    /\ cur' = row.size
    /\ stage' = "write"
    /\ UNCHANGED <<exch, row, slack, running, sync, order, filled, held, budget,
                   trusted, overtaken>>

\* Mutant: a close books the amount ordered.
BookedOrdered ==
    IF order.act = "open" THEN Upserted(cur + filled)
    ELSE IF cur > order.asked THEN Upserted(cur - order.asked) ELSE NoRow

\* ... and writes the new size, or deletes the row by its key.
Booked ==
    IF order.act = "open" THEN Upserted(cur + filled)
    ELSE IF cur > filled THEN Upserted(cur - filled) ELSE NoRow

BookWrite ==
    /\ stage = "write"
    /\ \/ row' = Booked /\ UNCHANGED <<budget, trusted>>
       \/ Spend("faults") /\ trusted' = FALSE /\ UNCHANGED row
    /\ stage' = "idle" /\ order' = NoOrder /\ filled' = 0 /\ cur' = 0
    /\ overtaken' = Overtaken("worker", row' # row)
    /\ UNCHANGED <<exch, slack, running, sync, held>>

-----------------------------------------------------------------------------
(* The strategy and the rest of the account.                               *)

\* A thread starting up reconciles its strategy; a fill not yet booked is in its way.
Start ==
    /\ ~running /\ sync["startup"].at = "idle"
    /\ Spend("starts")
    /\ running' = TRUE
    /\ Loads("startup")
    /\ overtaken' = [overtaken EXCEPT !["startup"] = filled > 0]
    /\ UNCHANGED <<exch, row, slack, stage, order, filled, cur, held, trusted>>

Stop ==
    /\ running
    /\ running' = FALSE
    /\ UNCHANGED <<exch, row, slack, sync, stage, order, filled, cur, held, budget,
                   trusted, overtaken>>

ReadPosition ==
    /\ running /\ sync["startup"].at = "idle"
    /\ held = 0 /\ row # NoRow
    /\ held' = row.size
    /\ UNCHANGED <<exch, row, slack, running, sync, stage, order, filled, cur, budget,
                   trusted, overtaken>>

\* The high and the low are written with an upsert that carries the size read: it
\* undoes what changed since and re-creates a deleted row.
WriteBack ==
    /\ held > 0
    /\ row' = Upserted(held) /\ held' = 0
    /\ trusted' = (trusted /\ row' = row)
    /\ overtaken' = Overtaken("strategy", row' # row)
    /\ UNCHANGED <<exch, slack, running, sync, stage, order, filled, cur, budget>>

\* A trade of others, or a fill that comes after the worker's last answer.
External ==
    /\ Spend("external")
    /\ \E e \in (0..MaxLots) \ {exch} : exch' = e
    /\ trusted' = FALSE
    /\ overtaken' = Overtaken("others", TRUE)
    /\ UNCHANGED <<row, slack, running, sync, stage, order, filled, cur, held>>

-----------------------------------------------------------------------------
Worker ==
    \/ PeriodicSync \/ Clamp \/ Query \/ Place \/ BookRead \/ BookWrite
    \/ Ask("worker") \/ Apply("worker") \/ SyncFails("worker")

BookNext ==
    \/ Worker \/ TakeOrder
    \/ Ask("startup") \/ Apply("startup") \/ SyncFails("startup")
    \/ Start \/ Stop \/ ReadPosition \/ WriteBack \/ External

\* The worker's loop comes round, and a strategy thread finishes its tick.
BookSpec == BookInit /\ [][BookNext]_bookVars /\ WF_bookVars(Worker) /\ WF_bookVars(WriteBack)

-----------------------------------------------------------------------------
(* Properties.                                                             *)

\* Between orders the row is right within the tolerance, unless one of these came
\* between: a trade of others or a late fill, a fill that is not the one booked, a booking
\* that fails, a reconciliation overtaken by another change, or a size written back
\* that had changed; and a reconciliation that nothing overtakes makes it right again.  Reconciling and booking in one thread
\* is what keeps a fill from being counted twice.
TrustedIsRight ==
    trusted /\ stage \notin {"book", "write"} => Distance(row.size, exch) <= slack

\* A close about to be placed asks for no less and no more than is there, up to the
\* tolerance, while the row can be trusted: limiting it to the row and to the
\* exchange neither leaves a rest nor opens the other side.
CloseIsWhole ==
    /\ stage = "place" /\ order.act = "close"
    /\ trusted /\ budget.faults = MaxFaults
    => Lower(order.asked, exch) - slack <= order.amount /\ order.amount <= exch

Agrees ==
    IF row = NoRow THEN exch = 0 \/ ~running
    ELSE exch > 0 /\ Distance(row.size, exch) <= slack

\* The row comes back to the exchange's position again and again, however often
\* stale sizes are written over it (the docstring's "prevents ghost positions").
Heals == []<>Agrees

=============================================================================
