--------------------------- MODULE PositionProofs ---------------------------
(***************************************************************************)
(* Proofs about the two components that keep a position: PositionBook (the *)
(* row of a live position against the exchange), for any number of orders, *)
(* trades of others, starts and faults and any lots, and Backtest (the     *)
(* simulated position against its trades list), for any number of candles, *)
(* uses of the scaling rules and waiting signals.                          *)
(***************************************************************************)
EXTENDS PositionBook, Backtest, TLAPS

(* The live position: the inductive invariant. *)

\* The values of the variables.
Rows == [id : Ids \cup {0}, size : Nat]
Plans == [do : {"nothing", "delete", "update", "insert"}, id : Ids \cup {0}, size : Nat]
Syncs == [at : {"idle", "ask", "apply"}, seen : Rows, plan : Plans]
Orders == [act : {"none", "open", "close"}, asked : Nat, amount : Nat]
Budgets == [orders : Nat, external : Nat, starts : Nat, faults : Nat]
\* The worker's stages before an order is placed, and while its fill is booked.
AfterLimits == {"clamp", "query", "place"}
Booking == {"book", "write"}

BookTypes ==
    /\ exch \in Nat /\ row \in Rows /\ slack \in Slacks /\ running \in BOOLEAN
    /\ sync \in [Threads -> Syncs]
    /\ \A t \in Threads : sync[t].plan.id \in {0, sync[t].seen.id}
    /\ stage \in {"idle", "sync"} \cup AfterLimits \cup Booking
    /\ order \in Orders
    /\ filled \in Nat /\ cur \in Nat /\ held \in Nat
    /\ budget \in Budgets /\ budget.faults <= MaxFaults
    /\ trusted \in BOOLEAN /\ overtaken \in [Threads -> BOOLEAN]

\* The worker reconciles, executes and books one after the other; a reconciliation
\* that starts up beside an unbooked fill counts as overtaken.
Steady ==
    /\ stage = "sync" <=> sync["worker"].at # "idle"
    /\ stage = "idle" => order = NoOrder
    /\ stage \in {"idle", "sync", "clamp"} => order.amount = order.asked
    /\ stage \in AfterLimits \cup Booking => order.act \in {"open", "close"}
    /\ order.act = "none" => order = NoOrder
    /\ filled > 0 <=> stage \in Booking
    /\ filled > 0 /\ sync["startup"].at # "idle" => overtaken["startup"]
    /\ \A t \in Threads : sync[t].at = "idle" => ~overtaken[t]

\* A plan that makes the row what the exchange holds.
Corrects(plan) ==
    \/ plan.do = "delete" /\ plan.id = row.id /\ exch = 0
    \/ plan.do = "update" /\ plan.id = row.id /\ plan.size = exch
    \/ plan.do = "insert" /\ row = NoRow /\ plan.size = exch

\* A reconciliation that nothing overtook has read the row as it is and will correct it.
Sound(t) ==
    /\ sync[t].at # "idle" => sync[t].seen = row
    /\ sync[t].at = "apply" => Corrects(sync[t].plan)
PlansTrue == \A t \in Threads : ~overtaken[t] => Sound(t)

\* While a fill is booked the row is right about the position before the fill.
Before == IF order.act = "open" THEN exch - filled ELSE exch + filled
BookingRight ==
    trusted /\ stage \in Booking =>
        /\ Before \in Nat /\ Distance(row.size, Before) <= slack
        /\ stage = "write" => cur = row.size

\* A reconciliation before an order leaves no row beside a flat exchange, and whatever
\* overtakes it without costing the trust does not either.
Reconciled == (sync["worker"].at # "idle" /\ overtaken["worker"]) \/ stage \in AfterLimits
FlatRight ==
    trusted /\ budget.faults = MaxFaults /\ Reconciled => (exch = 0 => row.size = 0)

\* The first limit of a close.
Limited ==
    trusted /\ budget.faults = MaxFaults /\ order.act = "close" /\ stage = "query" =>
        /\ Lower(order.asked, exch) - slack <= order.amount
        /\ exch = 0 => order.amount = 0

RowInv == /\ BookTypes /\ Steady /\ PlansTrue
          /\ BookingRight /\ TrustedIsRight /\ FlatRight /\ Limited /\ CloseIsWhole

-----------------------------------------------------------------------------
(* Rows and reconciliations *)

\* The slack is a small number.
LEMMA SlackIs == ASSUME BookTypes PROVE slack \in 0..1
  BY BookBounds DEF BookTypes

\* The four ids leave one that nobody remembers.
LEMMA FreshIs ==
    ASSUME BookTypes
    PROVE  FreshId \in Ids
<1> DEFINE a == row.id   b == sync["worker"].seen.id   c == sync["startup"].seen.id
           Free(i) == i # a /\ \A t \in Threads : i \notin {sync[t].seen.id, sync[t].plan.id}
<1>1. \A t \in Threads : sync[t].plan.id \in {0, sync[t].seen.id}
  BY DEF BookTypes
<1>2. \A i \in Ids : i # a /\ i # b /\ i # c => Free(i)
  BY <1>1 DEF Threads, Ids
<1>3. \E i \in Ids : i # a /\ i # b /\ i # c
  <2> HIDE DEF a, b, c
  <2>1. 1 \in Ids /\ 2 \in Ids /\ 3 \in Ids /\ 4 \in Ids
    BY DEF Ids
  <2>2. QED
    BY <2>1
<1>4. \E i \in Ids : Free(i)
  BY <1>2, <1>3
<1>5. QED
  BY <1>4 DEF FreshId

\* What an upsert leaves.
LEMMA UpsertedIs ==
    ASSUME BookTypes, NEW n \in Nat
    PROVE  Upserted(n) \in Rows /\ Upserted(n).size = n
  BY FreshIs DEF Upserted, Rows, BookTypes

\* What a plan leaves.
LEMMA AppliedIs ==
    ASSUME BookTypes, NEW plan \in Plans
    PROVE  Applied(plan) \in Rows /\ (Corrects(plan) => Applied(plan).size = exch)
<1>1. plan.size \in Nat /\ row \in Rows /\ NoRow \in Rows
  BY DEF Plans, BookTypes, Rows, NoRow
<1>2. /\ [row EXCEPT !.size = plan.size] \in Rows
      /\ [row EXCEPT !.size = plan.size].size = plan.size
  BY <1>1 DEF Rows
<1>3. NoRow.size = 0
  BY DEF NoRow
<1>4. QED
  BY <1>1, <1>2, <1>3, UpsertedIs DEF Applied, Corrects

\* What the exchange's answer calls for.
LEMMA VerdictsAre ==
    ASSUME BookTypes, NEW t \in Threads, NEW plan \in Verdicts(t)
    PROVE  /\ plan \in Plans /\ plan.id \in {0, sync[t].seen.id}
           /\ sync[t].seen = row /\ plan # NoPlan => Corrects(plan)
           /\ sync[t].seen = row /\ plan = NoPlan /\ Restores(t) =>
                 Distance(row.size, exch) <= slack
           /\ sync[t].seen = row /\ plan = NoPlan => (exch = 0 => row.size = 0)
<1> DEFINE seen == sync[t].seen
<1>1. /\ seen \in Rows /\ seen.id \in Ids \cup {0} /\ exch \in Nat /\ slack \in 0..1
      /\ seen.size \in Nat /\ row \in Rows
  BY SlackIs DEF BookTypes, Syncs, Rows
<1>2. /\ NoPlan \in Plans /\ NoPlan.id = 0
      /\ \A do \in {"delete", "update", "insert"}, id \in Ids \cup {0} :
            /\ Plan(do, id, exch) \in Plans /\ Plan(do, id, 0) \in Plans
            /\ Plan(do, id, exch).id = id /\ Plan(do, id, 0).id = id
            /\ Plan(do, id, exch).do = do /\ Plan(do, id, 0).do = do
            /\ Plan(do, id, exch).size = exch
  BY <1>1 DEF Plans, Plan, NoPlan
<1>3. NoRow.size = 0
  BY DEF NoRow
<1>4. CASE exch = 0 /\ seen # NoRow
  <2>1. plan = Plan("delete", seen.id, 0)
    BY <1>4 DEF Verdicts
  <2>2. plan \in Plans /\ plan.id = seen.id /\ plan.do = "delete" /\ plan # NoPlan
    BY <1>1, <1>2, <2>1 DEF NoPlan
  <2>3. QED
    BY <1>4, <2>2 DEF Corrects
<1>5. CASE exch > 0 /\ seen # NoRow
  <2>1. \/ plan = Plan("update", seen.id, exch)
        \/ plan = NoPlan /\ Distance(exch, seen.size) <= slack
    BY <1>1, <1>5 DEF Verdicts
  <2>2. CASE plan = Plan("update", seen.id, exch)
    <3>1. plan \in Plans /\ plan.id = seen.id /\ plan.do = "update" /\ plan.size = exch
          /\ plan # NoPlan
      BY <1>1, <1>2, <2>2 DEF NoPlan
    <3>2. QED
      BY <1>5, <3>1 DEF Corrects
  <2>3. CASE plan = NoPlan /\ Distance(exch, seen.size) <= slack
    BY <1>1, <1>2, <1>5, <2>3 DEF Distance
  <2>4. QED
    BY <2>1, <2>2, <2>3
<1>6. CASE exch > 0 /\ seen = NoRow /\ Eligible(t)
  <2>1. plan = Plan("insert", 0, exch)
    BY <1>1, <1>6 DEF Verdicts
  <2>2. plan \in Plans /\ plan.id = 0 /\ plan.do = "insert" /\ plan.size = exch /\ plan # NoPlan
    BY <1>2, <2>1 DEF NoPlan
  <2>3. QED
    BY <1>6, <2>2 DEF Corrects
<1>7. CASE seen = NoRow /\ (exch = 0 \/ ~Eligible(t))
  <2>1. plan = NoPlan
    BY <1>1, <1>7 DEF Verdicts
  <2>2. QED
    BY <1>1, <1>2, <1>3, <1>7, <2>1 DEF Restores, Distance
<1>8. QED
  BY <1>1, <1>4, <1>5, <1>6, <1>7

-----------------------------------------------------------------------------
(* What a reconciliation does *)

SyncTypes ==
    /\ sync' \in [Threads -> Syncs]
    /\ \A t \in Threads : sync'[t].plan.id \in {0, sync'[t].seen.id}
Others(t) == \A u \in Threads \ {t} : sync'[u] = sync[u]

\* The worker goes on with its order; a strategy thread is none of its business.
Continues(t) ==
    \/ t = "startup" /\ stage' = stage
    \/ t = "worker" /\ order = NoOrder /\ stage' = "idle"
    \/ t = "worker" /\ order # NoOrder /\ stage' = "clamp"

\* The reconciliation that ends is no longer overtaken; the others are if the row
\* changes under them.
Cleared(t, changed) ==
    /\ overtaken' \in [Threads -> BOOLEAN] /\ ~overtaken'[t]
    /\ \A u \in Threads \ {t} :
          overtaken'[u] <=> overtaken[u] \/ (sync[u].at # "idle" /\ changed)

\* After a reconciliation.
LEMMA ContinuesIs ==
    ASSUME NEW t \in Threads, stage' = AfterSync(t)
    PROVE  Continues(t)
  BY DEF AfterSync, Continues, Threads

\* A reconciliation that writes nothing overtakes nobody.
LEMMA ClearedIs ==
    ASSUME BookTypes, NEW t \in Threads, overtaken' = [overtaken EXCEPT ![t] = FALSE]
    PROVE  Cleared(t, FALSE)
  BY DEF BookTypes, Cleared

\* A thread's reconciliation is replaced.
LEMMA SetIs ==
    ASSUME BookTypes, NEW t \in Threads, NEW x \in Syncs, x.plan.id \in {0, x.seen.id},
           sync' = [sync EXCEPT ![t] = x]
    PROVE  SyncTypes /\ Others(t) /\ sync'[t] = x
  BY DEF BookTypes, SyncTypes, Others

\* The row is loaded.
LEMMA LoadsIs ==
    ASSUME BookTypes, NEW t \in Threads, Loads(t)
    PROVE  /\ SyncTypes /\ Others(t)
           /\ sync'[t].at = "ask" /\ sync'[t].seen = row
<1> DEFINE x == [at |-> "ask", seen |-> row, plan |-> NoPlan]
<1>1. /\ x \in Syncs /\ x.plan.id \in {0, x.seen.id} /\ x.at = "ask" /\ x.seen = row
  BY DEF BookTypes, Syncs, Plans, NoPlan
<1>2. sync' = [sync EXCEPT ![t] = x]
  BY DEF Loads
<1> HIDE DEF x
<1>3. QED
  BY <1>1, <1>2, SetIs

\* A reconciliation ends.
LEMMA EndsIs ==
    ASSUME BookTypes, NEW t \in Threads, sync' = [sync EXCEPT ![t] = Resting]
    PROVE  SyncTypes /\ Others(t) /\ sync'[t].at = "idle"
<1>1. Resting \in Syncs /\ Resting.plan.id \in {0, Resting.seen.id} /\ Resting.at = "idle"
  BY DEF Resting, Syncs, Rows, Plans, NoPlan, NoRow
<1>2. QED
  BY <1>1, SetIs

\* The exchange answers.
LEMMA AskIs ==
    ASSUME BookTypes, NEW t \in Threads, Ask(t)
    PROVE  /\ UNCHANGED <<exch, row, slack, running, order, filled, cur, held, budget>>
           /\ sync[t].at = "ask" /\ SyncTypes /\ Others(t)
           /\ \/ /\ sync'[t].at = "idle" /\ Continues(t)
                 /\ Cleared(t, FALSE)
                 /\ trusted' \in BOOLEAN /\ (trusted' <=> trusted \/ Restores(t))
                 /\ sync[t].seen = row =>
                       /\ Restores(t) => Distance(row.size, exch) <= slack
                       /\ exch = 0 => row.size = 0
              \/ /\ sync'[t].at = "apply" /\ sync'[t].seen = sync[t].seen
                 /\ UNCHANGED <<stage, overtaken, trusted>>
                 /\ sync[t].seen = row => Corrects(sync'[t].plan)
<1>1. PICK plan \in Verdicts(t) :
        IF plan = NoPlan
        THEN Ends(t) /\ trusted' = (trusted \/ Restores(t))
        ELSE /\ sync' = [sync EXCEPT ![t].at = "apply", ![t].plan = plan]
             /\ UNCHANGED <<stage, overtaken, trusted>>
  BY DEF Ask
<1>2. /\ UNCHANGED <<exch, row, slack, running, order, filled, cur, held, budget>>
      /\ sync[t].at = "ask"
  BY DEF Ask
<1>3. CASE plan = NoPlan
  <2>1. Continues(t) /\ Cleared(t, FALSE)
    BY <1>1, <1>3, ContinuesIs, ClearedIs DEF Ends
  <2>2. trusted' \in BOOLEAN /\ (trusted' <=> trusted \/ Restores(t))
    BY <1>1, <1>3
  <2>3. QED
    BY <1>1, <1>2, <1>3, <2>1, <2>2, EndsIs, VerdictsAre DEF Ends
<1>4. CASE plan # NoPlan
  <2> DEFINE x == [sync[t] EXCEPT !.at = "apply", !.plan = plan]
  <2>1. sync[t] \in Syncs
    BY DEF BookTypes
  <2>2. sync' = [sync EXCEPT ![t] = x] /\ UNCHANGED <<stage, overtaken, trusted>>
    BY <1>1, <1>4
  <2>3. /\ x \in Syncs /\ x.at = "apply" /\ x.seen = sync[t].seen /\ x.plan = plan
        /\ plan.id \in {0, sync[t].seen.id}
    BY <2>1, VerdictsAre DEF Syncs
  <2> HIDE DEF x
  <2>4. QED
    BY <1>2, <1>4, <2>2, <2>3, SetIs, VerdictsAre
<1>5. QED
  BY <1>3, <1>4

\* The difference is applied.
LEMMA ApplyIs ==
    ASSUME BookTypes, NEW t \in Threads, Apply(t)
    PROVE  /\ UNCHANGED <<exch, slack, running, order, filled, cur, held, budget>>
           /\ sync[t].at = "apply" /\ SyncTypes /\ Others(t) /\ sync'[t].at = "idle"
           /\ Continues(t) /\ row' \in Rows
           /\ Corrects(sync[t].plan) => row'.size = exch
           /\ Cleared(t, row' # row) /\ trusted' \in BOOLEAN
           /\ IF overtaken[t] THEN trusted' <=> trusted /\ row' = row
                              ELSE trusted' <=> trusted \/ Restores(t)
<1>1. sync[t].plan \in Plans
  BY DEF BookTypes, Syncs
<1>2. Continues(t)
  BY ContinuesIs DEF Apply
<1>3. Cleared(t, row' # row)
  BY DEF Apply, Cleared, BookTypes
<1>4. /\ trusted' \in BOOLEAN
      /\ IF overtaken[t] THEN trusted' <=> trusted /\ row' = row
                         ELSE trusted' <=> trusted \/ Restores(t)
  BY DEF Apply, BookTypes
<1>5. QED
  BY <1>1, <1>2, <1>3, <1>4, EndsIs, AppliedIs DEF Apply

\* A reconciliation fails.
LEMMA FailsIs ==
    ASSUME BookTypes, NEW t \in Threads, SyncFails(t)
    PROVE  /\ UNCHANGED <<exch, row, slack, running, order, filled, cur, held, trusted>>
           /\ sync[t].at # "idle" /\ SyncTypes /\ Others(t) /\ sync'[t].at = "idle"
           /\ Continues(t) /\ Cleared(t, FALSE) /\ Spend("faults")
  BY EndsIs, ContinuesIs, ClearedIs DEF SyncFails, Ends

-----------------------------------------------------------------------------
(* What the worker and the others do *)

BudgetTypes ==
    budget' \in Budgets /\ budget'.faults <= budget.faults /\ budget'.faults <= MaxFaults

\* No order is one of nothing.
LEMMA NoOrderIs == /\ NoOrder \in Orders /\ NoOrder.act = "none"
                   /\ NoOrder.amount = 0 /\ NoOrder.asked = 0
  BY DEF NoOrder, Orders

\* What is spent is gone.
LEMMA SpendIs ==
    ASSUME BookTypes, NEW what \in {"orders", "external", "starts", "faults"}, Spend(what)
    PROVE  BudgetTypes /\ (what = "faults" => budget'.faults # MaxFaults)
<1>1. /\ budget \in Budgets /\ budget[what] \in Nat /\ budget[what] > 0
      /\ budget' = [budget EXCEPT ![what] = @ - 1]
      /\ budget.faults \in Nat /\ budget.faults <= MaxFaults /\ MaxFaults \in Nat
  BY BookBounds DEF BookTypes, Budgets, Spend
<1>2. CASE what = "faults"
  BY <1>1, <1>2 DEF Budgets, BudgetTypes
<1>3. CASE what = "orders"
  BY <1>1, <1>3 DEF Budgets, BudgetTypes
<1>4. CASE what = "external"
  BY <1>1, <1>4 DEF Budgets, BudgetTypes
<1>5. CASE what = "starts"
  BY <1>1, <1>5 DEF Budgets, BudgetTypes
<1>6. QED
  BY <1>2, <1>3, <1>4, <1>5

\* The reconciliations under way, but for one, are overtaken.
Noticed(by, changed) ==
    /\ overtaken' \in [Threads -> BOOLEAN]
    /\ \A t \in Threads :
          overtaken'[t] <=> overtaken[t] \/ (changed /\ t # by /\ sync[t].at # "idle")

\* What a change overtakes.
LEMMA NoticedIs ==
    ASSUME BookTypes, NEW by, NEW changed \in BOOLEAN, overtaken' = Overtaken(by, changed)
    PROVE  Noticed(by, changed)
  BY DEF BookTypes, Overtaken, Noticed

\* A fault, or none.
Faultless == UNCHANGED budget
Faulty == BudgetTypes /\ budget'.faults # MaxFaults

\* The order in hand.
LEMMA OrderIs ==
    ASSUME BookTypes
    PROVE  /\ order.act \in {"none", "open", "close"} /\ order.asked \in Nat /\ order.amount \in Nat
           /\ order = [act |-> order.act, asked |-> order.asked, amount |-> order.amount]
           /\ budget.faults \in Nat /\ budget.faults <= MaxFaults
  BY DEF BookTypes, Orders, Budgets, BudgetTypes

\* An order is taken.
LEMMA TakeIs ==
    ASSUME BookTypes, TakeOrder
    PROVE  /\ stage = "idle" /\ stage' = "sync" /\ Loads("worker") /\ BudgetTypes
           /\ order' \in Orders /\ order'.act \in {"open", "close"} /\ order'.amount = order'.asked
           /\ UNCHANGED <<exch, row, slack, running, filled, cur, held, trusted, overtaken>>
<1>1. PICK act \in {"open", "close"}, asked \in 1..MaxLots :
        order' = [act |-> act, asked |-> asked, amount |-> asked]
  BY DEF TakeOrder
<1>2. order' \in Orders /\ order'.act \in {"open", "close"} /\ order'.amount = order'.asked
  BY <1>1, BookBounds DEF Orders
<1>3. QED
  BY <1>2, SpendIs DEF TakeOrder

\* A close is limited to the row.
LEMMA ClampIs ==
    ASSUME BookTypes, Clamp
    PROVE  /\ stage = "clamp" /\ stage' = "query"
           /\ order' \in Orders /\ order'.act = order.act /\ order'.asked = order.asked
           /\ \/ Faultless /\ (order.act = "close" => order'.amount = Lower(order.amount, row.size))
              \/ Faulty
           /\ UNCHANGED <<exch, row, slack, running, sync, filled, cur, held, trusted, overtaken>>
<1>1. order \in Orders /\ Lower(order.amount, row.size) \in Nat
  BY OrderIs DEF BookTypes, Rows, Lower
<1> DEFINE n == Lower(order.amount, row.size)
<1>2. CASE order' = IF order.act = "open" THEN order ELSE [order EXCEPT !.amount = n]
  <2> HIDE DEF n
  <2>1. /\ order' \in Orders /\ order'.act = order.act /\ order'.asked = order.asked
        /\ order.act = "close" => order'.amount = n
    BY <1>1, <1>2 DEF Orders, n
  <2>2. QED
    BY <2>1, SpendIs DEF Clamp, Faultless, Faulty, n
<1>3. CASE order.act = "close" /\ Spend("faults") /\ UNCHANGED order
  BY <1>1, <1>3, SpendIs DEF Clamp, Faulty
<1>4. QED
  BY <1>2, <1>3 DEF Clamp

\* A close is limited to the exchange, and an amount of nothing is refused.
LEMMA QueryIs ==
    ASSUME BookTypes, Query
    PROVE  /\ stage = "query"
           /\ order' \in Orders
           /\ \/ order.amount = 0 /\ Faultless /\ order' = NoOrder /\ stage' = "idle"
              \/ /\ order.amount > 0 /\ stage' = "place"
                 /\ order'.act = order.act /\ order'.asked = order.asked
                 /\ \/ /\ Faultless
                       /\ order.act = "close" =>
                             order'.amount = IF exch > 0 THEN Lower(order.amount, exch)
                                             ELSE order.amount
                    \/ Faulty
           /\ UNCHANGED <<exch, row, slack, running, sync, filled, cur, held, trusted, overtaken>>
<1>1. /\ order \in Orders /\ NoOrder \in Orders /\ Lower(order.amount, exch) \in Nat
      /\ order.amount \in Nat /\ exch \in Nat
  BY OrderIs DEF BookTypes, Lower, Orders, NoOrder
<1> DEFINE n == Lower(order.amount, exch)
<1>2. CASE /\ Faultless
           /\ order' = IF order.amount = 0 THEN NoOrder
                       ELSE IF order.act = "close" /\ exch > 0
                            THEN [order EXCEPT !.amount = n] ELSE order
  <2> HIDE DEF n
  <2>1. CASE order.amount = 0
    BY <1>1, <1>2, <2>1 DEF Query
  <2>2. CASE order.amount > 0
    <3>1. /\ order' \in Orders /\ order'.act = order.act /\ order'.asked = order.asked
          /\ order.act = "close" => order'.amount = IF exch > 0 THEN n ELSE order.amount
      BY <1>1, <1>2, <2>2 DEF Orders, n
    <3>2. QED
      BY <1>2, <2>2, <3>1 DEF Query, n
  <2>3. QED
    BY <1>1, <2>1, <2>2
<1>3. CASE order.act = "close" /\ order.amount > 0 /\ Spend("faults") /\ UNCHANGED order
  BY <1>1, <1>3, SpendIs DEF Query, Faulty
<1>4. QED
  BY <1>2, <1>3 DEF Query, Faultless

\* The exchange executes some of the order, and what is booked of it is that or costs
\* the trust.
LEMMA PlaceIs ==
    ASSUME BookTypes, Place
    PROVE  /\ stage = "place" /\ exch' \in Nat /\ filled' \in Nat
           /\ \/ /\ filled' > 0 /\ stage' = "book" /\ UNCHANGED order
                 /\ Noticed("worker", TRUE)
                 /\ \/ trusted' = FALSE
                    \/ /\ UNCHANGED trusted
                       /\ exch' = IF order.act = "open" THEN exch + filled' ELSE exch - filled'
              \/ /\ filled' = 0 /\ stage' = "idle" /\ order' = NoOrder
                 /\ \/ exch' = exch /\ UNCHANGED trusted /\ Noticed("worker", FALSE)
                    \/ trusted' = FALSE /\ Noticed("worker", TRUE)
           /\ UNCHANGED <<row, slack, running, sync, cur, held, budget>>
<1>1. PICK f \in 0..order.amount, known \in 0..order.amount, accepted \in BOOLEAN :
        /\ IF order.act = "open" THEN exch + f <= MaxLots /\ exch' = exch + f
                                 ELSE f <= exch /\ exch' = exch - f
        /\ filled' = Believed(accepted, known)
        /\ trusted' = (trusted /\ filled' = f)
        /\ overtaken' = Overtaken("worker", f > 0 \/ filled' > 0)
  BY DEF Place
<1>2. /\ f \in Nat /\ exch \in Nat /\ exch' \in Nat /\ filled' \in Nat
      /\ trusted \in BOOLEAN /\ trusted' \in BOOLEAN
  BY <1>1, OrderIs DEF BookTypes, Believed
<1>3. /\ stage = "place" /\ UNCHANGED <<row, slack, running, sync, cur, held, budget>>
      /\ stage' = IF filled' > 0 THEN "book" ELSE "idle"
      /\ order' = IF filled' > 0 THEN order ELSE NoOrder
  BY DEF Place
<1>4. (f > 0 \/ filled' > 0) \in BOOLEAN
  OBVIOUS
<1>5. Noticed("worker", f > 0 \/ filled' > 0)
  BY <1>1, <1>4, NoticedIs
<1>6. trusted' = FALSE \/ (trusted' = trusted /\ filled' = f)
  BY <1>1, <1>2
<1>7. CASE filled' > 0
  <2>1. Noticed("worker", TRUE)
    BY <1>5, <1>7 DEF Noticed
  <2>2. QED
    BY <1>1, <1>2, <1>3, <1>6, <1>7, <2>1
<1>8. CASE filled' = 0 /\ f = 0
  <2>1. Noticed("worker", FALSE) /\ exch' = exch
    BY <1>1, <1>2, <1>5, <1>8 DEF Noticed
  <2>2. trusted' = trusted
    BY <1>1, <1>2, <1>8
  <2>3. stage' = "idle" /\ order' = NoOrder
    BY <1>3, <1>8
  <2>4. QED
    BY <1>2, <1>3, <1>8, <2>1, <2>2, <2>3
<1>9. CASE filled' = 0 /\ f > 0
  <2>1. Noticed("worker", TRUE)
    BY <1>5, <1>9 DEF Noticed
  <2>2. trusted' = FALSE
    BY <1>6, <1>9
  <2>3. QED
    BY <1>2, <1>3, <1>9, <2>1, <2>2
<1>10. filled' > 0 \/ (filled' = 0 /\ f = 0) \/ (filled' = 0 /\ f > 0)
  BY <1>2
<1>11. QED
  BY <1>7, <1>8, <1>9, <1>10

\* A fill is written to the row.
LEMMA BookIs ==
    ASSUME BookTypes, BookWrite
    PROVE  /\ stage = "write" /\ stage' = "idle" /\ order' = NoOrder /\ filled' = 0 /\ cur' = 0
           /\ row' \in Rows
           /\ \/ /\ row'.size = IF order.act = "open" THEN cur + filled
                                ELSE IF cur > filled THEN cur - filled ELSE 0
                 /\ UNCHANGED <<budget, trusted>>
              \/ Faulty /\ trusted' = FALSE
           /\ Noticed("worker", row' # row)
           /\ UNCHANGED <<exch, slack, running, sync, held>>
<1>1. cur \in Nat /\ filled \in Nat /\ row \in Rows /\ NoRow \in Rows /\ NoRow.size = 0
  BY DEF BookTypes, Rows, NoRow
<1>2. /\ Booked \in Rows
      /\ Booked.size = IF order.act = "open" THEN cur + filled
                       ELSE IF cur > filled THEN cur - filled ELSE 0
  <2>1. CASE order.act = "open"
    <3>1. cur + filled \in Nat
      BY <1>1
    <3>2. QED
      BY <2>1, <3>1, UpsertedIs DEF Booked
  <2>2. CASE order.act # "open" /\ cur > filled
    <3>1. cur - filled \in Nat
      BY <1>1, <2>2
    <3>2. QED
      BY <2>2, <3>1, UpsertedIs DEF Booked
  <2>3. CASE order.act # "open" /\ ~(cur > filled)
    BY <1>1, <2>3 DEF Booked
  <2>4. QED
    BY <2>1, <2>2, <2>3
<1>3. Noticed("worker", row' # row)
  <2>1. (row' # row) \in BOOLEAN
    OBVIOUS
  <2>2. QED
    BY <2>1, NoticedIs DEF BookWrite
<1>4. CASE row' = Booked /\ UNCHANGED <<budget, trusted>>
  BY <1>2, <1>3, <1>4 DEF BookWrite
<1>5. CASE Spend("faults") /\ trusted' = FALSE /\ UNCHANGED row
  BY <1>1, <1>3, <1>5, SpendIs DEF BookWrite, Faulty
<1>6. QED
  BY <1>4, <1>5 DEF BookWrite

\* A stale size is written back.
LEMMA WriteBackIs ==
    ASSUME BookTypes, WriteBack
    PROVE  /\ row' \in Rows /\ held' \in Nat /\ trusted' = (trusted /\ row' = row)
           /\ Noticed("strategy", row' # row)
           /\ UNCHANGED <<exch, slack, running, sync, stage, order, filled, cur, budget>>
<1>1. (row' # row) \in BOOLEAN
  OBVIOUS
<1>2. Noticed("strategy", row' # row)
  BY <1>1, NoticedIs DEF WriteBack
<1>3. QED
  BY <1>2, UpsertedIs DEF WriteBack, BookTypes

\* Others trade.
LEMMA ExternalIs ==
    ASSUME BookTypes, External
    PROVE  /\ exch' \in Nat /\ trusted' = FALSE /\ BudgetTypes /\ Noticed("others", TRUE)
           /\ UNCHANGED <<row, slack, running, sync, stage, order, filled, cur, held>>
<1>1. exch' \in Nat
  BY BookBounds DEF External
<1>2. Noticed("others", TRUE)
  BY NoticedIs DEF External
<1>3. QED
  BY <1>1, <1>2, SpendIs DEF External

\* A strategy starts up.
LEMMA StartIs ==
    ASSUME BookTypes, Start
    PROVE  /\ Loads("startup") /\ running' = TRUE /\ BudgetTypes
           /\ overtaken' \in [Threads -> BOOLEAN]
           /\ overtaken'["startup"] <=> filled > 0
           /\ overtaken'["worker"] <=> overtaken["worker"]
           /\ UNCHANGED <<exch, row, slack, stage, order, filled, cur, held, trusted>>
<1>1. overtaken \in [Threads -> BOOLEAN] /\ overtaken' = [overtaken EXCEPT !["startup"] = filled > 0]
  BY DEF BookTypes, Start
<1>2. (filled > 0) \in BOOLEAN
  OBVIOUS
<1>3. QED
  BY <1>1, <1>2, SpendIs DEF Start, Threads

-----------------------------------------------------------------------------
(* The steps *)

\* The types are kept.
LEMMA BookTypesStep == RowInv /\ [BookNext]_bookVars => BookTypes'
<1> SUFFICES ASSUME RowInv, [BookNext]_bookVars PROVE BookTypes'
  OBVIOUS
<1>0. BookTypes
  BY DEF RowInv
<1>1. CASE PeriodicSync
  BY <1>0, <1>1, LoadsIs DEF PeriodicSync, Threads, SyncTypes, BookTypes
<1>2. CASE TakeOrder
  BY <1>0, <1>2, TakeIs, LoadsIs DEF Threads, SyncTypes, BudgetTypes, BookTypes
<1>3. CASE Clamp
  BY <1>0, <1>3, ClampIs, OrderIs DEF Faultless, Faulty, BudgetTypes, AfterLimits, BookTypes
<1>4. CASE Query
  BY <1>0, <1>4, QueryIs, OrderIs, NoOrderIs
     DEF Faultless, Faulty, BudgetTypes, AfterLimits, BookTypes
<1>5. CASE Place
  BY <1>0, <1>5, PlaceIs, NoOrderIs DEF Noticed, Faulty, BudgetTypes, Booking, BookTypes
<1>6. CASE BookRead
  BY <1>0, <1>6 DEF BookRead, Rows, Booking, BookTypes
<1>7. CASE BookWrite
  <2>1. /\ stage' = "idle" /\ order' = NoOrder /\ filled' = 0 /\ cur' = 0 /\ row' \in Rows
        /\ UNCHANGED <<exch, slack, running, sync, held>>
        /\ overtaken' \in [Threads -> BOOLEAN]
    BY <1>0, <1>7, BookIs DEF Noticed
  <2>2. trusted' \in BOOLEAN /\ budget' \in Budgets /\ budget'.faults <= MaxFaults
    BY <1>0, <1>7, BookIs DEF Faulty, BudgetTypes, BookTypes
  <2>3. QED
    BY <1>0, <2>1, <2>2, NoOrderIs DEF BookTypes
<1>8. ASSUME NEW t \in Threads, Ask(t) PROVE BookTypes'
  BY <1>0, <1>8, AskIs DEF Continues, Cleared, SyncTypes, AfterLimits, Restores, BookTypes
<1>9. ASSUME NEW t \in Threads, Apply(t) PROVE BookTypes'
  BY <1>0, <1>9, ApplyIs DEF Continues, Cleared, SyncTypes, AfterLimits, Restores, BookTypes
<1>10. ASSUME NEW t \in Threads, SyncFails(t) PROVE BookTypes'
  BY <1>0, <1>10, FailsIs, SpendIs
     DEF Continues, Cleared, SyncTypes, AfterLimits, BudgetTypes, BookTypes
<1>11. CASE Start
  BY <1>0, <1>11, StartIs, LoadsIs DEF Threads, SyncTypes, BudgetTypes, BookTypes
<1>12. CASE Stop
  BY <1>0, <1>12 DEF Stop, BookTypes
<1>13. CASE ReadPosition
  BY <1>0, <1>13 DEF ReadPosition, Rows, BookTypes
<1>14. CASE WriteBack
  BY <1>0, <1>14, WriteBackIs DEF Noticed, BookTypes
<1>15. CASE External
  BY <1>0, <1>15, ExternalIs DEF Noticed, BudgetTypes, BookTypes
<1>16. CASE UNCHANGED bookVars
  BY <1>0, <1>16 DEF bookVars, BookTypes
<1>17. QED
  BY <1>1, <1>2, <1>3, <1>4, <1>5, <1>6, <1>7, <1>8, <1>9, <1>10, <1>11, <1>12, <1>13,
     <1>14, <1>15, <1>16
     DEF BookNext, Worker, Threads

\* The worker does one thing after the other.
LEMMA SteadyStep == RowInv /\ [BookNext]_bookVars => Steady'
<1> SUFFICES ASSUME RowInv, [BookNext]_bookVars PROVE Steady'
  OBVIOUS
<1>0. BookTypes /\ Steady
  BY DEF RowInv
<1>1. CASE PeriodicSync
  BY <1>0, <1>1, LoadsIs DEF PeriodicSync, Threads, Others, AfterLimits, Booking, Steady
<1>2. CASE TakeOrder
  BY <1>0, <1>2, TakeIs, LoadsIs DEF Threads, Others, AfterLimits, Booking, Steady
<1>3. CASE Clamp
  BY <1>0, <1>3, ClampIs, OrderIs DEF AfterLimits, Booking, Steady
<1>4. CASE Query
  BY <1>0, <1>4, QueryIs, OrderIs, NoOrderIs DEF AfterLimits, Booking, Steady
<1>5. CASE Place
  <2>1. stage = "place" /\ UNCHANGED sync /\ filled' \in Nat
    BY <1>0, <1>5, PlaceIs
  <2>2. sync["worker"].at = "idle" /\ order.act \in {"open", "close"}
    BY <1>0, <2>1 DEF Steady, AfterLimits
  <2>3. \A t \in Threads : overtaken'[t] => sync[t].at # "idle"
    BY <1>0, <1>5, PlaceIs DEF Noticed, Steady
  <2>4. CASE filled' > 0
    <3>0. ~(filled' = 0)
      BY <2>1, <2>4
    <3>1. stage' = "book" /\ UNCHANGED order /\ Noticed("worker", TRUE)
      BY <1>0, <1>5, <3>0, PlaceIs, Zenon
    <3>2. sync["startup"].at # "idle" => overtaken'["startup"]
      BY <3>1 DEF Noticed, Threads
    <3>3. QED
      BY <2>1, <2>2, <2>3, <2>4, <3>1, <3>2 DEF Steady, AfterLimits, Booking
  <2>5. CASE filled' = 0
    <3>1. stage' = "idle" /\ order' = NoOrder
      BY <1>0, <1>5, <2>5, PlaceIs
    <3>2. QED
      BY <2>1, <2>2, <2>3, <2>5, <3>1, NoOrderIs DEF Steady, AfterLimits, Booking
  <2>6. QED
    BY <2>1, <2>4, <2>5
<1>6. CASE BookRead
  BY <1>0, <1>6 DEF BookRead, AfterLimits, Booking, Steady
<1>7. CASE BookWrite
  <2>1. /\ stage = "write" /\ stage' = "idle" /\ order' = NoOrder /\ filled' = 0
        /\ UNCHANGED sync
    BY <1>0, <1>7, BookIs
  <2>2. sync["worker"].at = "idle"
    BY <1>0, <2>1 DEF Steady
  <2>3. \A t \in Threads : overtaken'[t] => sync[t].at # "idle"
    BY <1>0, <1>7, BookIs DEF Noticed, Steady
  <2>4. QED
    BY <2>1, <2>2, <2>3, NoOrderIs DEF Steady, AfterLimits, Booking
<1>8. ASSUME NEW t \in Threads, Ask(t) PROVE Steady'
  BY <1>0, <1>8, AskIs
     DEF Continues, Cleared, Others, AfterLimits, Booking, BookTypes, Threads, Orders,
     Steady
<1>9. ASSUME NEW t \in Threads, Apply(t) PROVE Steady'
  BY <1>0, <1>9, ApplyIs
     DEF Continues, Cleared, Others, AfterLimits, Booking, BookTypes, Threads, Orders,
     Steady
<1>10. ASSUME NEW t \in Threads, SyncFails(t) PROVE Steady'
  BY <1>0, <1>10, FailsIs, SpendIs
     DEF Continues, Cleared, Others, AfterLimits, Booking, BookTypes, Threads, Orders,
     Steady
<1>11. CASE Start
  BY <1>0, <1>11, StartIs, LoadsIs DEF Threads, Others, BookTypes, Steady
<1>12. CASE Stop
  BY <1>0, <1>12 DEF Stop, Steady
<1>13. CASE ReadPosition
  BY <1>0, <1>13 DEF ReadPosition, Steady
<1>14. CASE WriteBack
  BY <1>0, <1>14, WriteBackIs DEF Noticed, Threads, BookTypes, Steady
<1>15. CASE External
  BY <1>0, <1>15, ExternalIs DEF Noticed, Threads, BookTypes, Steady
<1>16. CASE UNCHANGED bookVars
  BY <1>0, <1>16 DEF bookVars, Steady
<1>17. QED
  BY <1>1, <1>2, <1>3, <1>4, <1>5, <1>6, <1>7, <1>8, <1>9, <1>10, <1>11, <1>12, <1>13,
     <1>14, <1>15, <1>16
     DEF BookNext, Worker, Threads

\* What an undisturbed reconciliation knows stays true.
LEMMA PlansStep == RowInv /\ [BookNext]_bookVars => PlansTrue'
<1> SUFFICES ASSUME RowInv, [BookNext]_bookVars PROVE PlansTrue'
  OBVIOUS
<1>0. BookTypes /\ Steady /\ PlansTrue
  BY DEF RowInv
<1>1. CASE PeriodicSync
  BY <1>0, <1>1, LoadsIs DEF PeriodicSync, Threads, Others, PlansTrue, Sound, Corrects
<1>2. CASE TakeOrder
  BY <1>0, <1>2, TakeIs, LoadsIs DEF Threads, Others, PlansTrue, Sound, Corrects
<1>3. CASE Clamp
  BY <1>0, <1>3, ClampIs, OrderIs DEF PlansTrue, Sound, Corrects
<1>4. CASE Query
  BY <1>0, <1>4, QueryIs, OrderIs, NoOrderIs DEF PlansTrue, Sound, Corrects
<1>5. CASE Place
  BY <1>0, <1>5, PlaceIs, NoOrderIs
     DEF Noticed, BookTypes, Threads, Steady, PlansTrue, Sound, Corrects
<1>6. CASE BookRead
  BY <1>0, <1>6 DEF BookRead, PlansTrue, Sound, Corrects
<1>7. CASE BookWrite
  BY <1>0, <1>7, BookIs, NoOrderIs
     DEF Noticed, BookTypes, Threads, Steady, PlansTrue, Sound, Corrects
<1>8. ASSUME NEW t \in Threads, Ask(t) PROVE PlansTrue'
  BY <1>0, <1>8, AskIs DEF Continues, Cleared, Others, BookTypes, PlansTrue, Sound, Corrects
<1>9. ASSUME NEW t \in Threads, Apply(t) PROVE PlansTrue'
  BY <1>0, <1>9, ApplyIs
     DEF Continues, Cleared, Others, BookTypes, PlansTrue, Sound, Corrects
<1>10. ASSUME NEW t \in Threads, SyncFails(t) PROVE PlansTrue'
  BY <1>0, <1>10, FailsIs, SpendIs
     DEF Continues, Cleared, Others, BookTypes, PlansTrue, Sound, Corrects
<1>11. CASE Start
  BY <1>0, <1>11, StartIs, LoadsIs
     DEF Threads, Others, BookTypes, PlansTrue, Sound, Corrects
<1>12. CASE Stop
  BY <1>0, <1>12 DEF Stop, PlansTrue, Sound, Corrects
<1>13. CASE ReadPosition
  BY <1>0, <1>13 DEF ReadPosition, PlansTrue, Sound, Corrects
<1>14. CASE WriteBack
  BY <1>0, <1>14, WriteBackIs DEF Noticed, Threads, BookTypes, PlansTrue, Sound, Corrects
<1>15. CASE External
  BY <1>0, <1>15, ExternalIs DEF Noticed, Threads, BookTypes, PlansTrue, Sound, Corrects
<1>16. CASE UNCHANGED bookVars
  BY <1>0, <1>16 DEF bookVars, PlansTrue, Sound, Corrects
<1>17. QED
  BY <1>1, <1>2, <1>3, <1>4, <1>5, <1>6, <1>7, <1>8, <1>9, <1>10, <1>11, <1>12, <1>13,
     <1>14, <1>15, <1>16
     DEF BookNext, Worker, Threads

\* The row as far as the comparison looks at it.
LEMMA NumbersAre ==
    ASSUME BookTypes
    PROVE  /\ exch \in Nat /\ row \in Rows /\ row.size \in Nat /\ slack \in 0..1
           /\ filled \in Nat /\ cur \in Nat
  BY SlackIs DEF BookTypes, Rows

\* A row that can be trusted is right, about the position before the fill
\* while a fill is booked.
LEMMA RightStep == RowInv /\ [BookNext]_bookVars => BookingRight' /\ TrustedIsRight'
<1> SUFFICES ASSUME RowInv, [BookNext]_bookVars PROVE BookingRight' /\ TrustedIsRight'
  OBVIOUS
<1>0. BookTypes /\ Steady /\ PlansTrue /\ BookingRight /\ TrustedIsRight
  BY DEF RowInv
<1>1. CASE PeriodicSync
  BY <1>0, <1>1, LoadsIs
     DEF PeriodicSync, Threads, BookingRight, TrustedIsRight, Booking, Before
<1>2. CASE TakeOrder
  BY <1>0, <1>2, TakeIs, LoadsIs DEF Threads, BookingRight, TrustedIsRight, Booking, Before
<1>3. CASE Clamp
  BY <1>0, <1>3, ClampIs, OrderIs DEF BookingRight, TrustedIsRight, Booking, Before
<1>4. CASE Query
  BY <1>0, <1>4, QueryIs, OrderIs, NoOrderIs
     DEF BookingRight, TrustedIsRight, Booking, Before
<1>5. CASE Place
  <2>1. /\ stage = "place" /\ UNCHANGED <<row, slack>> /\ exch' \in Nat /\ filled' \in Nat
    BY <1>0, <1>5, PlaceIs
  <2>2. trusted => Distance(row.size, exch) <= slack
    BY <1>0, <2>1 DEF TrustedIsRight
  <2>3. \/ /\ filled' > 0 /\ stage' = "book" /\ UNCHANGED <<order, trusted>>
           /\ exch' = IF order.act = "open" THEN exch + filled' ELSE exch - filled'
        \/ stage' = "idle" /\ exch' = exch /\ UNCHANGED trusted
        \/ trusted' = FALSE
    BY <1>0, <1>5, PlaceIs
  <2>4. CASE /\ filled' > 0 /\ stage' = "book" /\ UNCHANGED <<order, trusted>>
             /\ exch' = IF order.act = "open" THEN exch + filled' ELSE exch - filled'
    <3>1. Before' = exch
      BY <1>0, <2>1, <2>4, NumbersAre DEF Before
    <3>2. QED
      BY <1>0, <2>1, <2>2, <2>4, <3>1, NumbersAre DEF BookingRight, TrustedIsRight
  <2>5. CASE stage' = "idle" /\ exch' = exch /\ UNCHANGED trusted
    BY <2>1, <2>2, <2>5 DEF BookingRight, TrustedIsRight, Booking
  <2>6. CASE trusted' = FALSE
    BY <2>6 DEF BookingRight, TrustedIsRight
  <2>7. QED
    BY <2>3, <2>4, <2>5, <2>6
<1>6. CASE BookRead
  BY <1>0, <1>6 DEF BookRead, BookingRight, TrustedIsRight, Booking, Before
<1>7. CASE BookWrite
  <2>1. stage = "write" /\ stage' = "idle" /\ UNCHANGED <<exch, slack>> /\ row' \in Rows
    BY <1>0, <1>7, BookIs
  <2>2. \/ /\ row'.size = IF order.act = "open" THEN cur + filled
                          ELSE IF cur > filled THEN cur - filled ELSE 0
           /\ UNCHANGED trusted
        \/ trusted' = FALSE
    BY <1>0, <1>7, BookIs
  <2>3. ASSUME trusted' PROVE Distance(row'.size, exch) <= slack
    <3>1. /\ trusted
          /\ row'.size = IF order.act = "open" THEN cur + filled
                         ELSE IF cur > filled THEN cur - filled ELSE 0
      BY <2>2, <2>3
    <3>2. /\ Before \in Nat /\ Distance(cur, Before) <= slack
          /\ Before = IF order.act = "open" THEN exch - filled ELSE exch + filled
      BY <1>0, <2>1, <3>1 DEF BookingRight, Booking, Before
    <3>3. QED
      BY <1>0, <3>1, <3>2, NumbersAre DEF Distance
  <2>4. QED
    BY <2>1, <2>3 DEF BookingRight, TrustedIsRight, Booking
<1>8. ASSUME NEW t \in Threads, Ask(t) PROVE BookingRight' /\ TrustedIsRight'
  <2>1. /\ UNCHANGED <<exch, row, slack, order, filled, cur>> /\ sync[t].at = "ask"
    BY <1>0, <1>8, AskIs
  <2>2. t = "worker" => stage = "sync" /\ stage' \notin Booking
    BY <1>0, <1>8, <2>1, AskIs DEF Steady, Continues, Booking
  <2>3. t = "startup" => stage' = stage
    BY <1>0, <1>8, AskIs DEF Continues
  <2>4. CASE trusted' => trusted
    BY <1>0, <2>1, <2>2, <2>3, <2>4
       DEF BookingRight, TrustedIsRight, Booking, Before, Threads
  <2>5. CASE trusted' /\ ~trusted
    <3>1. Restores(t) /\ (sync[t].seen = row => Distance(row.size, exch) <= slack)
      BY <1>0, <1>8, <2>5, AskIs
    <3>2. t = "worker" /\ sync[t].seen = row
      BY <1>0, <2>1, <3>1 DEF Restores, PlansTrue, Sound
    <3>3. QED
      BY <2>1, <2>2, <3>1, <3>2 DEF BookingRight, TrustedIsRight, Booking
  <2>6. QED
    BY <2>4, <2>5
<1>9. ASSUME NEW t \in Threads, Apply(t) PROVE BookingRight' /\ TrustedIsRight'
  <2>1. /\ UNCHANGED <<exch, slack, order, filled, cur>> /\ sync[t].at = "apply" /\ Continues(t)
        /\ row' \in Rows /\ (Corrects(sync[t].plan) => row'.size = exch)
    BY <1>0, <1>9, ApplyIs
  <2>2. t = "worker" => stage = "sync" /\ stage' \notin Booking
    BY <1>0, <2>1 DEF Steady, Continues, Booking
  <2>3. t = "startup" => stage' = stage
    BY <2>1 DEF Continues
  <2>4. CASE overtaken[t]
    <3>1. trusted' => trusted /\ row' = row
      BY <1>0, <1>9, <2>4, ApplyIs
    <3>2. QED
      BY <1>0, <2>1, <2>2, <2>3, <3>1
         DEF BookingRight, TrustedIsRight, Booking, Before, Threads
  <2>5. CASE ~overtaken[t]
    <3>1. row'.size = exch
      BY <1>0, <2>1, <2>5 DEF PlansTrue, Sound
    <3>2. Distance(row'.size, exch) <= slack
      BY <1>0, <3>1, NumbersAre DEF Distance
    <3>3. t = "startup" => stage \notin Booking
      BY <1>0, <2>1, <2>5, NumbersAre DEF Steady
    <3>4. stage' \notin Booking
      BY <2>2, <2>3, <3>3 DEF Threads
    <3>5. QED
      BY <2>1, <3>2, <3>4 DEF BookingRight, TrustedIsRight
  <2>6. QED
    BY <2>4, <2>5
<1>10. ASSUME NEW t \in Threads, SyncFails(t) PROVE BookingRight' /\ TrustedIsRight'
  BY <1>0, <1>10, FailsIs, SpendIs
     DEF Continues, Cleared, Steady, Threads, BookingRight, TrustedIsRight, Booking,
     Before
<1>11. CASE Start
  BY <1>0, <1>11, StartIs, LoadsIs
     DEF Threads, BookingRight, TrustedIsRight, Booking, Before
<1>12. CASE Stop
  BY <1>0, <1>12 DEF Stop, BookingRight, TrustedIsRight, Booking, Before
<1>13. CASE ReadPosition
  BY <1>0, <1>13 DEF ReadPosition, BookingRight, TrustedIsRight, Booking, Before
<1>14. CASE WriteBack
  BY <1>0, <1>14, WriteBackIs DEF Noticed, BookingRight, TrustedIsRight, Booking, Before
<1>15. CASE External
  BY <1>0, <1>15, ExternalIs DEF Noticed, BookingRight, TrustedIsRight, Booking, Before
<1>16. CASE UNCHANGED bookVars
  BY <1>0, <1>16 DEF bookVars, BookingRight, TrustedIsRight, Booking, Before
<1>17. QED
  BY <1>1, <1>2, <1>3, <1>4, <1>5, <1>6, <1>7, <1>8, <1>9, <1>10, <1>11, <1>12, <1>13,
     <1>14, <1>15, <1>16
     DEF BookNext, Worker, Threads

\* A reconciliation before an order leaves no row beside a flat exchange.
LEMMA FlatStep == RowInv /\ [BookNext]_bookVars => FlatRight'
<1> SUFFICES ASSUME RowInv, [BookNext]_bookVars PROVE FlatRight'
  OBVIOUS
<1>0. BookTypes /\ Steady /\ PlansTrue /\ FlatRight
  BY DEF RowInv
<1>1. CASE PeriodicSync
  <2>1. /\ stage = "idle" /\ stage' = "sync" /\ UNCHANGED overtaken
    BY <1>0, <1>1 DEF PeriodicSync
  <2>2. ~overtaken["worker"]
    BY <1>0, <2>1 DEF Steady, Threads
  <2>3. QED
    BY <2>1, <2>2 DEF FlatRight, Reconciled, AfterLimits
<1>2. CASE TakeOrder
  <2>1. /\ stage = "idle" /\ stage' = "sync" /\ UNCHANGED overtaken
    BY <1>0, <1>2, TakeIs
  <2>2. ~overtaken["worker"]
    BY <1>0, <2>1 DEF Steady, Threads
  <2>3. QED
    BY <2>1, <2>2 DEF FlatRight, Reconciled, AfterLimits
<1>3. CASE Clamp
  <2>1. /\ stage = "clamp" /\ UNCHANGED <<exch, row, sync, trusted, overtaken>>
        /\ budget' = budget \/ budget'.faults # MaxFaults
    BY <1>0, <1>3, ClampIs DEF Faultless, Faulty
  <2>2. QED
    BY <1>0, <2>1 DEF FlatRight, Reconciled, AfterLimits
<1>4. CASE Query
  <2>1. /\ stage = "query" /\ UNCHANGED <<exch, row, sync, trusted, overtaken>>
        /\ stage' = "idle" \/ budget' = budget \/ budget'.faults # MaxFaults
    BY <1>0, <1>4, QueryIs DEF Faultless, Faulty
  <2>2. sync["worker"].at = "idle"
    BY <1>0, <2>1 DEF Steady
  <2>3. QED
    BY <1>0, <2>1, <2>2 DEF FlatRight, Reconciled, AfterLimits
<1>5. CASE Place
  <2>1. stage = "place" /\ UNCHANGED sync /\ stage' \notin AfterLimits
    BY <1>0, <1>5, PlaceIs DEF AfterLimits
  <2>2. sync["worker"].at = "idle"
    BY <1>0, <2>1 DEF Steady
  <2>3. QED
    BY <2>1, <2>2 DEF FlatRight, Reconciled
<1>6. CASE BookRead
  <2>1. stage = "book" /\ UNCHANGED sync /\ stage' \notin AfterLimits
    BY <1>0, <1>6 DEF AfterLimits, BookRead
  <2>2. sync["worker"].at = "idle"
    BY <1>0, <2>1 DEF Steady
  <2>3. QED
    BY <2>1, <2>2 DEF FlatRight, Reconciled
<1>7. CASE BookWrite
  <2>1. stage = "write" /\ UNCHANGED sync /\ stage' \notin AfterLimits
    BY <1>0, <1>7, BookIs DEF AfterLimits
  <2>2. sync["worker"].at = "idle"
    BY <1>0, <2>1 DEF Steady
  <2>3. QED
    BY <2>1, <2>2 DEF FlatRight, Reconciled
<1>8. ASSUME NEW t \in Threads, Ask(t) PROVE FlatRight'
  <2>1. UNCHANGED <<exch, row, budget>> /\ sync[t].at = "ask" /\ Others(t)
    BY <1>0, <1>8, AskIs
  <2>2. CASE overtaken[t] \/ t = "startup"
    <3>1. trusted' => trusted
      BY <1>0, <1>8, <2>2, AskIs DEF Restores
    <3>2. t = "startup" => stage' = stage /\ (overtaken'["worker"] <=> overtaken["worker"])
      BY <1>0, <1>8, AskIs DEF Continues, Cleared, Threads
    <3>3. t = "worker" => Reconciled
      BY <2>1, <2>2 DEF Reconciled
    <3>4. t = "startup" /\ Reconciled' => Reconciled
      BY <2>1, <3>2 DEF Reconciled, Others, Threads
    <3>5. QED
      BY <1>0, <2>1, <3>1, <3>3, <3>4 DEF FlatRight, Threads
  <2>3. CASE t = "worker" /\ ~overtaken[t]
    <3>1. stage = "sync" /\ sync[t].seen = row
      BY <1>0, <2>1, <2>3 DEF Steady, PlansTrue, Sound
    <3>2. CASE sync'[t].at = "idle"
      BY <1>0, <1>8, <2>1, <3>1, <3>2, AskIs DEF FlatRight
    <3>3. CASE sync'[t].at = "apply"
      <4>1. UNCHANGED <<stage, overtaken>>
        BY <1>0, <1>8, <3>3, AskIs
      <4>2. QED
        BY <2>3, <3>1, <4>1 DEF FlatRight, Reconciled, AfterLimits
    <3>4. QED
      BY <1>0, <1>8, <3>2, <3>3, AskIs
  <2>4. QED
    BY <2>2, <2>3 DEF Threads
<1>9. ASSUME NEW t \in Threads, Apply(t) PROVE FlatRight'
  <2>1. /\ UNCHANGED <<exch, budget>> /\ sync[t].at = "apply" /\ Continues(t) /\ Others(t)
        /\ Cleared(t, row' # row) /\ (Corrects(sync[t].plan) => row'.size = exch)
    BY <1>0, <1>9, ApplyIs
  <2>2. CASE overtaken[t]
    <3>1. trusted' => trusted /\ row' = row
      BY <1>0, <1>9, <2>2, ApplyIs
    <3>2. t = "worker" => Reconciled
      BY <2>1, <2>2 DEF Reconciled
    <3>3. t = "startup" /\ row' = row /\ Reconciled' => Reconciled
      BY <2>1 DEF Reconciled, Others, Threads, Continues, Cleared
    <3>4. QED
      BY <1>0, <2>1, <3>1, <3>2, <3>3 DEF FlatRight, Threads
  <2>3. CASE ~overtaken[t]
    BY <1>0, <2>1, <2>3 DEF PlansTrue, Sound, FlatRight
  <2>4. QED
    BY <2>2, <2>3
<1>10. ASSUME NEW t \in Threads, SyncFails(t) PROVE FlatRight'
  BY <1>0, <1>10, FailsIs, SpendIs, OrderIs DEF FlatRight
<1>11. CASE Start
  <2>1. /\ UNCHANGED <<exch, row, stage, trusted>> /\ (overtaken'["worker"] <=> overtaken["worker"])
        /\ sync'["worker"] = sync["worker"]
    BY <1>0, <1>11, StartIs, LoadsIs DEF Others, Threads
  <2>2. budget'.faults = MaxFaults => budget.faults = MaxFaults
    BY <1>0, <1>11, StartIs, OrderIs DEF BudgetTypes, Budgets
  <2>3. QED
    BY <1>0, <2>1, <2>2 DEF FlatRight, Reconciled
<1>12. CASE Stop
  BY <1>0, <1>12 DEF Stop, FlatRight, Reconciled
<1>13. CASE ReadPosition
  BY <1>0, <1>13 DEF ReadPosition, FlatRight, Reconciled
<1>14. CASE WriteBack
  <2>1. /\ UNCHANGED <<exch, sync, stage, budget>> /\ (trusted' => trusted /\ row' = row)
        /\ Noticed("strategy", row' # row)
    BY <1>0, <1>14, WriteBackIs
  <2>2. row' = row /\ Reconciled' => Reconciled
    BY <2>1 DEF Noticed, Reconciled, Threads
  <2>3. QED
    BY <1>0, <2>1, <2>2 DEF FlatRight
<1>15. CASE External
  BY <1>0, <1>15, ExternalIs DEF Noticed, FlatRight, Reconciled
<1>16. CASE UNCHANGED bookVars
  BY <1>0, <1>16 DEF bookVars, FlatRight, Reconciled
<1>17. QED
  BY <1>1, <1>2, <1>3, <1>4, <1>5, <1>6, <1>7, <1>8, <1>9, <1>10, <1>11, <1>12, <1>13,
     <1>14, <1>15, <1>16
     DEF BookNext, Worker, Threads

\* A close is limited to what is there.
LEMMA LimitStep == RowInv /\ [BookNext]_bookVars => Limited' /\ CloseIsWhole'
<1> SUFFICES ASSUME RowInv, [BookNext]_bookVars PROVE Limited' /\ CloseIsWhole'
  OBVIOUS
<1>0. BookTypes /\ Steady /\ TrustedIsRight /\ FlatRight /\ Limited /\ CloseIsWhole
  BY DEF RowInv
<1>1. CASE PeriodicSync
  BY <1>0, <1>1, LoadsIs DEF PeriodicSync, Threads, Limited, CloseIsWhole
<1>2. CASE TakeOrder
  BY <1>0, <1>2, TakeIs, LoadsIs DEF Threads, Limited, CloseIsWhole
<1>3. CASE Clamp
  <2>1. /\ stage = "clamp" /\ stage' = "query" /\ UNCHANGED <<exch, slack, trusted>>
        /\ order'.asked = order.asked /\ order'.act = order.act
        /\ \/ budget' = budget /\ (order.act = "close" => order'.amount = Lower(order.amount, row.size))
           \/ budget'.faults # MaxFaults
    BY <1>0, <1>3, ClampIs DEF Faultless, Faulty
  <2>2. SUFFICES ASSUME trusted, budget.faults = MaxFaults, order.act = "close",
                        order'.amount = Lower(order.amount, row.size)
                 PROVE  /\ Lower(order.asked, exch) - slack <= order'.amount
                        /\ exch = 0 => order'.amount = 0
    BY <1>0, <2>1, OrderIs DEF Limited, CloseIsWhole
  <2>3. /\ order.amount = order.asked /\ Distance(row.size, exch) <= slack
        /\ exch = 0 => row.size = 0
    BY <1>0, <2>1, <2>2 DEF Steady, TrustedIsRight, FlatRight, Reconciled, AfterLimits
  <2>4. QED
    BY <1>0, <2>2, <2>3, NumbersAre, OrderIs DEF Distance, Lower
<1>4. CASE Query
  <2>1. /\ stage = "query" /\ UNCHANGED <<exch, slack, trusted>>
        /\ \/ stage' = "idle"
           \/ budget'.faults # MaxFaults
           \/ /\ budget' = budget /\ order.amount > 0 /\ stage' = "place"
              /\ order'.asked = order.asked /\ order'.act = order.act
              /\ order.act = "close" =>
                    order'.amount = IF exch > 0 THEN Lower(order.amount, exch) ELSE order.amount
    BY <1>0, <1>4, QueryIs DEF Faultless, Faulty
  <2>2. SUFFICES ASSUME stage' = "place", trusted, budget.faults = MaxFaults, order.act = "close",
                        order'.asked = order.asked, order.amount > 0,
                        order'.amount = IF exch > 0 THEN Lower(order.amount, exch) ELSE order.amount
                 PROVE  Lower(order.asked, exch) - slack <= order'.amount /\ order'.amount <= exch
    BY <1>0, <2>1, OrderIs DEF Limited, CloseIsWhole
  <2>3. Lower(order.asked, exch) - slack <= order.amount /\ (exch = 0 => order.amount = 0)
    BY <1>0, <2>1, <2>2 DEF Limited
  <2>4. QED
    BY <1>0, <2>2, <2>3, NumbersAre, OrderIs DEF Lower
<1>5. CASE Place
  BY <1>0, <1>5, PlaceIs, NoOrderIs DEF Noticed, Limited, CloseIsWhole
<1>6. CASE BookRead
  BY <1>0, <1>6 DEF BookRead, Limited, CloseIsWhole
<1>7. CASE BookWrite
  BY <1>0, <1>7, BookIs, NoOrderIs DEF Noticed, Limited, CloseIsWhole
<1>8. ASSUME NEW t \in Threads, Ask(t) PROVE Limited' /\ CloseIsWhole'
  <2>1. UNCHANGED <<exch, slack, order, budget>> /\ sync[t].at # "idle"
    BY <1>0, <1>8, AskIs
  <2>2. CASE t = "worker"
    <3>1. stage = "sync"
      BY <1>0, <2>1, <2>2 DEF Steady
    <3>2. stage' \notin {"query", "place"}
      BY <1>0, <1>8, <2>2, <3>1, AskIs DEF Continues
    <3>3. QED
      BY <3>2 DEF Limited, CloseIsWhole
  <2>3. CASE t = "startup"
    <3>1. stage' = stage /\ (trusted' => trusted)
      BY <1>0, <1>8, <2>3, AskIs DEF Continues, Restores
    <3>2. QED
      BY <1>0, <2>1, <3>1 DEF Limited, CloseIsWhole
  <2>4. QED
    BY <2>2, <2>3 DEF Threads
<1>9. ASSUME NEW t \in Threads, Apply(t) PROVE Limited' /\ CloseIsWhole'
  <2>1. UNCHANGED <<exch, slack, order, budget>> /\ sync[t].at # "idle"
    BY <1>0, <1>9, ApplyIs
  <2>2. CASE t = "worker"
    <3>1. stage = "sync"
      BY <1>0, <2>1, <2>2 DEF Steady
    <3>2. stage' \notin {"query", "place"}
      BY <1>0, <1>9, <2>2, <3>1, ApplyIs DEF Continues
    <3>3. QED
      BY <3>2 DEF Limited, CloseIsWhole
  <2>3. CASE t = "startup"
    <3>1. stage' = stage /\ (trusted' => trusted)
      BY <1>0, <1>9, <2>3, ApplyIs DEF Continues, Restores
    <3>2. QED
      BY <1>0, <2>1, <3>1 DEF Limited, CloseIsWhole
  <2>4. QED
    BY <2>2, <2>3 DEF Threads
<1>10. ASSUME NEW t \in Threads, SyncFails(t) PROVE Limited' /\ CloseIsWhole'
  BY <1>0, <1>10, FailsIs, SpendIs, OrderIs DEF Limited, CloseIsWhole
<1>11. CASE Start
  <2>1. UNCHANGED <<exch, slack, stage, order, trusted>>
    BY <1>0, <1>11, StartIs
  <2>2. budget'.faults = MaxFaults => budget.faults = MaxFaults
    BY <1>0, <1>11, StartIs, OrderIs DEF BudgetTypes, Budgets
  <2>3. QED
    BY <1>0, <2>1, <2>2 DEF Limited, CloseIsWhole
<1>12. CASE Stop
  BY <1>0, <1>12 DEF Stop, Limited, CloseIsWhole
<1>13. CASE ReadPosition
  BY <1>0, <1>13 DEF ReadPosition, Limited, CloseIsWhole
<1>14. CASE WriteBack
  BY <1>0, <1>14, WriteBackIs DEF Noticed, Limited, CloseIsWhole
<1>15. CASE External
  BY <1>0, <1>15, ExternalIs DEF Noticed, Limited, CloseIsWhole
<1>16. CASE UNCHANGED bookVars
  BY <1>0, <1>16 DEF bookVars, Limited, CloseIsWhole
<1>17. QED
  BY <1>1, <1>2, <1>3, <1>4, <1>5, <1>6, <1>7, <1>8, <1>9, <1>10, <1>11, <1>12, <1>13,
     <1>14, <1>15, <1>16
     DEF BookNext, Worker, Threads

\* At first the row and the exchange are empty.
LEMMA RowInitial == BookInit => RowInv
<1> SUFFICES ASSUME BookInit PROVE RowInv
  OBVIOUS
<1>1. /\ Resting \in Syncs /\ Resting.at = "idle" /\ Resting.plan.id \in {0, Resting.seen.id}
      /\ NoRow \in Rows /\ NoRow.size = 0
  BY DEF Resting, Syncs, Rows, Plans, NoPlan, NoRow
<1>2. sync = [t \in Threads |-> Resting] /\ overtaken = [t \in Threads |-> FALSE]
  BY DEF BookInit
<1>3. \A t \in Threads : sync[t] = Resting /\ ~overtaken[t]
  BY <1>2
<1>4. budget \in Budgets /\ budget.faults <= MaxFaults
  BY BookBounds DEF BookInit, Budgets
<1>5. BookTypes
  BY <1>1, <1>2, <1>3, <1>4, NoOrderIs DEF BookInit, BookTypes
<1>6. Steady
  BY <1>1, <1>3, NoOrderIs DEF BookInit, Steady, AfterLimits, Booking, Threads
<1>7. PlansTrue
  BY <1>1, <1>3 DEF PlansTrue, Sound
<1>8. BookingRight /\ FlatRight /\ Limited /\ CloseIsWhole
  BY <1>1, <1>3
     DEF BookInit, BookingRight, Booking, FlatRight, Reconciled, AfterLimits, Threads,
                    Limited, CloseIsWhole
<1>9. TrustedIsRight
  <2>1. exch = 0 /\ row.size = 0
    BY <1>1 DEF BookInit
  <2>2. QED
    BY <1>5, <2>1, SlackIs DEF TrustedIsRight, Distance
<1>10. QED
  BY <1>5, <1>6, <1>7, <1>8, <1>9 DEF RowInv

\* The inductive invariant: types, order of the worker's steps, what a reconciliation
\* that nothing overtook knows, and what the row, a fill being booked and a limited
\* close are worth while the row can be trusted (_sync_positions_best_effort,
\* apply_fill_to_local_position, the limits of a close in _execute_live_order).
THEOREM RowInvariance == BookSpec => []RowInv
<1>1. RowInv /\ [BookNext]_bookVars => RowInv'
  BY BookTypesStep, SteadyStep, PlansStep, RightStep, FlatStep, LimitStep DEF RowInv
<1>2. QED
  BY RowInitial, <1>1, PTL DEF BookSpec

\* Whatever the numbers of orders, trades, starts and faults: the row agrees with the
\* exchange within the tolerance unless something out of the ordinary came between.
THEOREM TrustedIsRightAlways == BookSpec => []TrustedIsRight
<1>1. RowInv => TrustedIsRight
  BY DEF RowInv
<1>2. QED
  BY RowInvariance, <1>1, PTL

\* A close in order asks the exchange for all that is there and for no more.
THEOREM CloseIsWholeAlways == BookSpec => []CloseIsWhole
<1>1. RowInv => CloseIsWhole
  BY DEF RowInv
<1>2. QED
  BY RowInvariance, <1>1, PTL

-----------------------------------------------------------------------------
(* The backtest's position *)

\* After a liquidation the account is empty and the rest of the loop body
\* has nothing left that could trade.
LiquidatedIsEmpty ==
    liquidated =>
        /\ side = "none" /\ capital = "low"
        /\ pc \in {"top", "entry", "net", "mark", "path", "end", "done"}

\* FreshAllowances, within a candle too.
CountersFresh ==
    side = "none" /\ ~reduced /\ ~liquidated /\ pc # "done" => times = Unused

BookInv ==
    /\ side \in Sides \cup {"none"}
    /\ TradesTellThePosition
    /\ LiquidatedIsEmpty
    /\ CountersFresh

\* Every candle begins with the books in order.
LEMMA InitBookInv == Init => BookInv
  BY DEF Init, BookInv, TradesTellThePosition, LiquidatedIsEmpty, CountersFresh

\* The head of the loop trades nothing.
LEMMA HeadKeepsBooks ==
    ASSUME BookInv, Finish \/ WipedOut \/ NextBar \/ NextCandle
    PROVE  BookInv'
<1> USE DEF BookInv, TradesTellThePosition, LiquidatedIsEmpty, CountersFresh
<1>1. CASE Finish
  BY <1>1 DEF Finish
<1>2. CASE WipedOut
  BY <1>2 DEF WipedOut, Running, Ruin, Adjusted
<1>3. CASE NextBar
  BY <1>3 DEF NextBar, Running
<1>4. CASE NextCandle
  <2>1. /\ UNCHANGED <<side, capital, liquidated, times, ledger, reduced>>
        /\ ~liquidated /\ pc = "top"
    BY <1>4 DEF NextCandle, Running
  <2>2. QED
    BY <2>1
<1>5. QED
  BY <1>1, <1>2, <1>3, <1>4

\* Exits and scaling of the bar simulator.
LEMMA ExitsKeepBooks ==
    ASSUME BookInv,
           Undisturbed \/ RiskExit \/ SignalExit \/ NoExit \/ ScaleIn \/ ScaleOut
             \/ AddSignal \/ NoScaling
    PROVE  BookInv'
<1> USE DEF BookInv, TradesTellThePosition, LiquidatedIsEmpty, CountersFresh, Goto
<1>1. CASE Undisturbed
  BY <1>1 DEF Undisturbed
<1>2. CASE RiskExit
  BY <1>2 DEF RiskExit, Reset, Liquidate, Ruin, Closed
<1>3. CASE SignalExit
  BY <1>3 DEF SignalExit, Reset, Liquidate, Ruin, Closed, Levels
<1>4. CASE NoExit
  BY <1>4 DEF NoExit
<1>5. CASE ScaleIn
  <2>1. /\ side # "none" /\ ~liquidated /\ UNCHANGED <<side, liquidated>>
        /\ ledger' = Adjusted(ledger, side)
    BY <1>5 DEF ScaleIn, Usable
  <2>2. QED
    BY <2>1 DEF Adjusted
<1>6. CASE ScaleOut
  <2>1. ~liquidated /\ UNCHANGED liquidated
    BY <1>6 DEF ScaleOut
  <2>2. \/ side # "none" /\ ledger' = Adjusted(ledger, side) /\ UNCHANGED side
        \/ ledger' = Closed(ledger, side) /\ side' = "none" /\ reduced' = TRUE
    BY <1>6 DEF ScaleOut, Usable
  <2>3. QED
    BY <2>1, <2>2 DEF Adjusted, Closed
<1>7. CASE AddSignal
  BY <1>7 DEF AddSignal, Adjusted
<1>8. CASE NoScaling
  BY <1>8 DEF NoScaling, After
<1>9. QED
  BY <1>1, <1>2, <1>3, <1>4, <1>5, <1>6, <1>7, <1>8

\* Entries, the liquidation line and the end of the bar simulator.
LEMMA EntriesKeepBooks ==
    ASSUME BookInv,
           \/ \E s \in Sides : FlipRuined(s) \/ Enter(s)
           \/ NoEntry \/ Net \/ Mark \/ ForcedExit
    PROVE  BookInv'
<1> USE DEF BookInv, TradesTellThePosition, LiquidatedIsEmpty, CountersFresh, Goto
<1>1. ASSUME NEW s \in Sides, FlipRuined(s)
      PROVE BookInv'
  BY <1>1 DEF FlipRuined, Reset, Ruin, Closed
<1>2. ASSUME NEW s \in Sides, Enter(s)
      PROVE BookInv'
  <2>1. ~liquidated
    BY <1>2 DEF Enter, Entry, Enters
  <2>2. ledger = side /\ s # "none"
    BY DEF Sides
  <2>3. CASE /\ side' = s /\ ledger' = Opened(IF side = "none" THEN ledger ELSE Closed(ledger, side), s)
             /\ UNCHANGED liquidated
    BY <2>1, <2>2, <2>3 DEF Opened, Closed
  <2>4. CASE /\ side' = "none"
             /\ ledger' = Closed(Opened(IF side = "none" THEN ledger ELSE Closed(ledger, side), s), s)
             /\ Ruin \/ UNCHANGED liquidated
             /\ pc' = "top"
    <3>1. times' = (IF side = "none" THEN times ELSE Unused) /\ reduced' = (reduced /\ side = "none")
      BY <1>2 DEF Enter
    <3>2. ledger' = "none"
      BY <2>2, <2>4 DEF Opened, Closed
    <3>3. CountersFresh'
      BY <2>1, <2>4, <3>1, <1>2 DEF Ruin, Enter, Entry
    <3>4. LiquidatedIsEmpty'
      BY <2>1, <2>4 DEF Ruin
    <3>5. QED
      BY <2>4, <3>2, <3>3, <3>4
  <2>5. QED
    BY <1>2, <2>3, <2>4 DEF Enter
<1>3. CASE NoEntry
  BY <1>3 DEF NoEntry
<1>4. CASE Net
  BY <1>4 DEF Net, Liquidate, Ruin, Closed
<1>5. CASE Mark
  BY <1>5 DEF Mark
<1>6. CASE ForcedExit
  BY <1>6 DEF ForcedExit, Liquidate, Ruin, Closed
<1>7. QED
  BY <1>1, <1>2, <1>3, <1>4, <1>5, <1>6

\* The candle of the mtf simulator.
LEMMA PathKeepsBooks ==
    ASSUME BookInv,
           \/ PathExit \/ PathQuiet \/ FillExit \/ NoFill \/ MarkCandle
           \/ \E s \in Sides : FillEntry(s)
    PROVE  BookInv'
<1> USE DEF BookInv, TradesTellThePosition, LiquidatedIsEmpty, CountersFresh, Proceed
<1>1. CASE PathExit
  BY <1>1 DEF PathExit, Reset, Liquidate, Ruin, Closed
<1>2. CASE PathQuiet
  BY <1>2 DEF PathQuiet
<1>3. CASE FillExit
  BY <1>3 DEF FillExit, Reset, Ruin, Closed
<1>4. CASE NoFill
  BY <1>4 DEF NoFill
<1>5. CASE MarkCandle
  BY <1>5 DEF MarkCandle
<1>6. ASSUME NEW s \in Sides, FillEntry(s)
      PROVE BookInv'
  <2>1. ~liquidated /\ s # "none" /\ pc' = "path"
    BY <1>6 DEF FillEntry, Sides
  <2>2. CASE side' = s /\ ledger' = Opened(IF side = "none" THEN ledger ELSE Closed(ledger, side), s)
             /\ UNCHANGED liquidated
    BY <2>1, <2>2 DEF Opened, Closed
  <2>3. CASE side # "none" /\ side' = "none" /\ Ruin
             /\ ledger' = (IF side = "none" THEN ledger ELSE Closed(ledger, side))
    BY <2>1, <2>3 DEF Closed, Ruin
  <2>4. QED
    BY <1>6, <2>2, <2>3 DEF FillEntry
<1>7. QED
  BY <1>1, <1>2, <1>3, <1>4, <1>5, <1>6

\* BookInv is inductive.
LEMMA StepBookInv == BookInv /\ [Next]_vars => BookInv'
<1> SUFFICES ASSUME BookInv, [Next]_vars PROVE BookInv'
  OBVIOUS
<1>1. CASE Next
  BY <1>1, HeadKeepsBooks, ExitsKeepBooks, EntriesKeepBooks, PathKeepsBooks DEF Next
<1>2. CASE UNCHANGED vars
  BY <1>2 DEF vars, BookInv, TradesTellThePosition, LiquidatedIsEmpty, CountersFresh
<1>3. QED
  BY <1>1, <1>2

\* The books are in order throughout.
LEMMA BooksInOrder == Spec => []BookInv
  BY InitBookInv, StepBookInv, PTL DEF Spec

\* The trades list of a backtest of any length tells the position held.
THEOREM TradesAreComplete == Spec => []TradesTellThePosition
<1>1. BookInv => TradesTellThePosition
  BY DEF BookInv
<1>2. QED
  BY <1>1, BooksInOrder, PTL

\* In a backtest of any length a position that no reduction took to zero
\* leaves the next one all uses of the scaling rules.
THEOREM AllowancesReturn == Spec => []FreshAllowances
<1>1. BookInv => FreshAllowances
  BY DEF BookInv, CountersFresh, FreshAllowances
<1>2. QED
  BY <1>1, BooksInOrder, PTL

\* No step of either simulator trades after a liquidation.
THEOREM NothingAfterLiquidation == Spec => LiquidationIsLast
<1>1. BookInv /\ [Next]_vars =>
        [liquidated => side = "none" /\ UNCHANGED <<side, capital, ledger>>]_vars
  <2> SUFFICES ASSUME BookInv, Next, liquidated
               PROVE  side = "none" /\ UNCHANGED <<side, capital, ledger>>
    OBVIOUS
  <2>1. /\ side = "none" /\ capital = "low"
        /\ pc \in {"top", "entry", "net", "mark", "path", "end", "done"}
    BY DEF BookInv, LiquidatedIsEmpty
  <2>2. CASE Finish \/ WipedOut \/ NextBar \/ NextCandle
    BY <2>1, <2>2 DEF Finish, WipedOut, NextBar, NextCandle, Running
  <2>3. CASE Undisturbed \/ RiskExit \/ SignalExit \/ NoExit \/ ScaleIn \/ ScaleOut
               \/ AddSignal \/ NoScaling
    BY <2>1, <2>3
       DEF Undisturbed, RiskExit, SignalExit, NoExit, ScaleIn, ScaleOut, AddSignal,
       NoScaling
  <2>4. CASE NoEntry \/ Net \/ Mark \/ ForcedExit
    BY <2>1, <2>4 DEF NoEntry, Net, Mark, ForcedExit
  <2>5. ASSUME NEW s \in Sides, FlipRuined(s) \/ Enter(s)
        PROVE  FALSE
    BY <2>1, <2>5 DEF FlipRuined, Enter, Entry, Enters
  <2>6. CASE PathExit \/ PathQuiet \/ FillExit \/ NoFill \/ MarkCandle
    BY <2>1, <2>6 DEF PathExit, PathQuiet, FillExit, NoFill, MarkCandle
  <2>7. ASSUME NEW s \in Sides, FillEntry(s)
        PROVE  FALSE
    BY <2>1, <2>7 DEF FillEntry
  <2>8. QED
    BY <2>2, <2>3, <2>4, <2>5, <2>6, <2>7 DEF Next
<1>2. QED
  BY <1>1, BooksInOrder, PTL DEF Spec, LiquidationIsLast

-----------------------------------------------------------------------------
(* Reversals in the bar simulator                                          *)

\* Until its signals are acted on, a candle that turns the position over to r holds
\* what the entry of r needs, unless an exit or a flip has ruined the account.
TurnsInv ==
    /\ engine = "bar" /\ turns \subseteq Sides
    /\ pc \in {"risk", "exit"} => \A r \in turns : Reverses(r, sig)
    /\ pc \in {"scale_in", "trend_reduce", "adverse_reduce", "add"} => sig = {}
    /\ pc \in {"scale_in", "trend_reduce", "adverse_reduce", "add", "mark"} => turns = {}
    /\ pc = "entry" => \A r \in turns :
          /\ Open(r) \in sig /\ Open(Other(r)) \notin sig
          /\ side = "none" \/ (both /\ side = Other(r))
    /\ pc = "net" => turns = {} \/ capital # "ok"
    /\ \A e \in lost : e.why = "stop"

\* The tests of the entries find the turn of an account that is not ruined.
LEMMA TurnIsTaken ==
    ASSUME TurnsInv, pc = "entry", NEW r \in turns, capital = "ok"
    PROVE  Enters(r) /\ \A s \in Sides : Enters(s) => s = r
<1>1. /\ r \in Sides /\ Open(r) \in sig /\ Open(Other(r)) \notin sig
      /\ side = "none" \/ (both /\ side = Other(r))
  BY DEF TurnsInv
<1>2. Enters(r)
  BY <1>1 DEF Enters
<1>3. ASSUME NEW s \in Sides, Enters(s), s # r
      PROVE  FALSE
  <2>1. s = Other(r)
    BY <1>1, <1>3 DEF Sides, Other
  <2>2. QED
    BY <1>1, <1>3, <2>1 DEF Enters
<1>4. QED
  BY <1>2, <1>3

\* A candle without an exit signal of its position keeps its turns: they are flips.
LEMMA NoExitKeepsTurns ==
    ASSUME TurnsInv, NoExit
    PROVE  TurnsInv'
<1>1. engine' = "bar" /\ turns' = turns /\ lost' = lost /\ sig' = sig /\ side' = side
      /\ both' = both /\ capital' = capital
  BY DEF NoExit, Goto, config, TurnsInv
<1>2. ASSUME NEW r \in turns
      PROVE  /\ Open(r) \in sig /\ Open(Other(r)) \notin sig
             /\ both /\ side = Other(r)
  <2>1. Reverses(r, sig) /\ r \in Sides
    BY DEF TurnsInv, NoExit
  <2>2. side = Other(r) /\ side # "none"
    BY <2>1 DEF Reverses, Other
  <2>3. QED
    BY <2>1, <2>2 DEF Reverses, NoExit
<1>3. CASE sig = {}
  <2>1. turns = {}
    BY <1>2, <1>3
  <2>2. pc' \in {"scale_in", "add"}
    BY <1>3 DEF NoExit, Goto
  <2>3. QED
    BY <1>1, <1>3, <2>1, <2>2 DEF TurnsInv
<1>4. CASE sig # {}
  <2>1. pc' = "entry"
    BY <1>4 DEF NoExit, Goto
  <2>2. QED
    BY <1>1, <1>2, <2>1 DEF TurnsInv
<1>5. QED
  BY <1>3, <1>4

\* The exit of the position leaves its turns with an empty one.
LEMMA SignalExitKeepsTurns ==
    ASSUME TurnsInv, SignalExit
    PROVE  TurnsInv'
<1>1. /\ engine' = "bar" /\ turns' = turns /\ lost' = lost /\ sig' = sig
      /\ side' = "none" /\ pc' \in {"entry", "top"}
  BY DEF SignalExit, Reset, Liquidate, Goto, config, TurnsInv
<1>2. ASSUME NEW r \in turns
      PROVE  Open(r) \in sig /\ Open(Other(r)) \notin sig
  BY DEF TurnsInv, SignalExit, Reverses
<1>3. QED
  BY <1>1, <1>2 DEF TurnsInv

\* An entry is the turn of its candle, if the candle has one.
LEMMA EnterTakesTurn ==
    ASSUME TurnsInv, NEW s \in Sides, Enter(s)
    PROVE  TurnsInv'
<1>1. Enters(s) /\ capital = "ok" /\ pc = "entry"
  BY DEF Enter, Entry, Enters
<1>2. \A r \in turns : r = s
  BY <1>1, TurnIsTaken
<1>3. turns' = {}
  BY <1>2 DEF Enter
<1>4. engine' = "bar" /\ lost' = lost /\ pc' \in {"mark", "top"}
  BY DEF Enter, Goto, config, TurnsInv
<1>5. QED
  BY <1>3, <1>4 DEF TurnsInv

\* TurnsInv is inductive.
LEMMA StepTurnsInv == TurnsInv /\ [Next]_vars => TurnsInv'
<1> SUFFICES ASSUME TurnsInv, [Next]_vars PROVE TurnsInv'
  OBVIOUS
<1> USE DEF Goto, config
<1>0. engine = "bar" /\ turns \subseteq Sides /\ \A e \in lost : e.why = "stop"
  BY DEF TurnsInv
<1>1. CASE Finish \/ WipedOut
  BY <1>0, <1>1 DEF Finish, WipedOut, Running, TurnsInv
<1>2. CASE NextBar
  <2>1. /\ engine' = "bar" /\ both' = both /\ side' = side /\ lost' = lost
        /\ pc' \in {"risk", "exit"} /\ turns' = {r \in Sides : Reverses(r, sig')}
    BY <1>0, <1>2 DEF NextBar
  <2>2. \A r \in turns' : Reverses(r, sig)'
    BY <2>1 DEF Reverses
  <2>3. turns' \subseteq Sides
    BY <2>1
  <2>4. QED
    BY <1>0, <2>1, <2>2, <2>3 DEF TurnsInv
<1>3. CASE Undisturbed
  BY <1>0, <1>3 DEF Undisturbed, TurnsInv, Reverses
<1>4. CASE RiskExit
  <2>1. /\ engine' = "bar" /\ turns' = turns /\ pc' = "top"
        /\ lost' = lost \cup {Lost(r, "stop") : r \in turns}
    BY <1>0, <1>4 DEF RiskExit
  <2>2. \A e \in lost' : e.why = "stop"
    BY <1>0, <2>1 DEF Lost
  <2>3. QED
    BY <1>0, <2>1, <2>2 DEF TurnsInv
<1>5. CASE SignalExit \/ NoExit
  BY <1>5, SignalExitKeepsTurns, NoExitKeepsTurns
<1>6. CASE ScaleIn \/ ScaleOut \/ AddSignal \/ NoScaling
  <2>1. /\ engine' = "bar" /\ turns' = turns /\ turns = {} /\ lost' = lost /\ sig' = sig
        /\ sig = {} /\ pc' \in {"trend_reduce", "adverse_reduce", "add", "entry"}
    BY <1>0, <1>6 DEF ScaleIn, ScaleOut, AddSignal, NoScaling, After, TurnsInv
  <2>2. QED
    BY <1>0, <2>1 DEF TurnsInv
<1>7. ASSUME NEW s \in Sides, FlipRuined(s) \/ Enter(s)
      PROVE  TurnsInv'
  BY <1>0, <1>7, EnterTakesTurn DEF FlipRuined, TurnsInv
<1>8. CASE NoEntry
  <2>1. \A r \in turns : capital # "ok"
    BY <1>0, <1>8, TurnIsTaken DEF NoEntry, Sides
  <2>2. QED
    BY <1>0, <1>8, <2>1 DEF NoEntry, TurnsInv
<1>9. CASE Mark
  <2>1. {r \in turns : capital = "ok"} = {}
    BY <1>9 DEF Mark, TurnsInv
  <2>2. lost' = lost
    BY <1>9, <2>1 DEF Mark
  <2>3. QED
    BY <1>0, <1>9, <2>2 DEF Mark, TurnsInv
<1>10. CASE Net \/ ForcedExit
  BY <1>0, <1>10 DEF Net, ForcedExit, TurnsInv
<1>11. CASE PathExit \/ PathQuiet \/ NextCandle
  BY <1>0, <1>11 DEF PathExit, PathQuiet, NextCandle
<1>12. CASE FillExit \/ NoFill \/ MarkCandle \/ \E s \in Sides : FillEntry(s)
  BY <1>0, <1>12 DEF FillExit, NoFill, MarkCandle, FillEntry, Proceed, TurnsInv
<1>13. CASE UNCHANGED vars
  BY <1>13 DEF vars, TurnsInv, Reverses
<1>14. QED
  BY <1>1, <1>2, <1>3, <1>4, <1>5, <1>6, <1>7, <1>8, <1>9, <1>10, <1>11, <1>12, <1>13
     DEF Next

\* With the bar simulator alone, the only entries of reversals that are dropped while
\* there is the capital are those of candles on which a stop or target closed the
\* position first; whichever of its early ends the loop body takes.
THEOREM BarKeepsReversals ==
    ASSUME Engines = {"bar"}
    PROVE  Spec => [](EntriesKept /\ \A e \in lost : e.why = "stop")
<1>1. Init => TurnsInv
  BY DEF Init, TurnsInv
<1>2. TurnsInv => EntriesKept /\ \A e \in lost : e.why = "stop"
  BY DEF TurnsInv, EntriesKept
<1>3. QED
  BY <1>1, <1>2, StepTurnsInv, PTL DEF Spec
=============================================================================
