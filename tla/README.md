# QuantDinger: a TLA+ development of the trading backend

QuantDinger (`src/backend_api_python`) is a Flask backend that runs users'
trading strategies, turns their signals into exchange orders, keeps a local
record of the resulting positions and trades, and sells memberships for credits
and USDT.  This directory models the parts of it whose correctness depends on
the order in which threads, processes, database transactions, exchange calls
and crashes happen.

    OrderQueue, OrderLifecycle   the pending_orders table and its worker processes,
                                 and what the table promises of a row
    StrategyThreads              the registry of strategy threads, start, stop,
                                 restore, and the control of the strategy loop
    SignalGate                   which signal becomes an order: state machine,
                                 once-per-candle rule, enqueue, exits
    LiveOrder                    one live order: limit phase, cancel, market phase
    PositionBook                 the local position row against the exchange
    UsdtOrder                    a USDT payment from its address to its membership
    Credits                      balances, memberships, monthly grants, the market
    Backtest                     the two simulators, from signals to trades
    AnalysisTask                 paid AI analyses: guard, charge, task, refund
    PortfolioMonitor             scheduled analyses: due dates and their charges
    PaidAnalysis                 the two consumers of the analysis credits together
    *Proofs                      TLAPS proofs about the module of that name;
                                 PositionProofs is about PositionBook and Backtest
    MC*, *.cfg                   small instances for TLC

Sections: 1 inventory, 2 plan, 3 order queue, 4 strategy threads, 5 signal gate,
6 live order, 7 position book, 8 USDT orders, 9 credits, 10 backtest, 11 paid
analyses, 12 runs, 13 proofs, 14 deviations seen while modelling, 15 what is not
modelled.

## 1. Inventory

All paths are below `src/backend_api_python/app`.

| Component | State it keeps | Operations | Interacts with |
|---|---|---|---|
| Strategy executor, `services/trading_executor.py` | `running_strategies` (sid -> thread) under one lock, `_signal_dedup`, per-thread locals (last kline refresh, pending signals, script context); the `status` column of `qd_strategies_trading` | start, stop, restore at boot, the per-strategy loop, its exit check | routes, `app/__init__.py` (restore), order queue, positions |
| Signal gate, same file | position rows, dedup cache | candidate filter by position side and trade direction, priority, once per candle, sizing, risk limits, enqueue guard | strategy loop, order queue |
| Order queue, `services/pending_order_worker.py`, `routes/dashboard.py` | `pending_orders` rows (`status`, `attempts`, `updated_at`), one daemon thread per process | enqueue, requeue of stale rows, select, claim, dispatch, mark sent / failed, user's delete | executor (producer), exchange, notifier, local positions |
| Live execution, `_execute_live_order` and `services/live_trading/*` | per-order phase results (fills, average price, client order ids) | validation, clamp of reduce-only orders, limit phase, wait, cancel, market phase, final result | exchange clients (external), local positions |
| Local positions, `services/live_trading/records.py`, `_sync_positions_best_effort`, `_update_position` | `qd_strategy_positions` (unique on strategy, symbol, side), `qd_strategy_trades` | apply a fill, record a trade, reconcile with the exchange, the strategy loop's upserts | worker, executor, exchange |
| Script runtime, `services/strategy_script_runtime.py` | script context, runtime state in `trading_config` | hydrate, on_bar, orders to signals, persist | executor, positions |
| Cross-sectional strategies, end of `trading_executor.py` | `last_rebalance_at`, positions per symbol | rebalance decision, ranking, entry and exit signals | executor, order queue |
| Billing, `services/billing_service.py` | `qd_users.credits`, VIP fields, `qd_credits_log` | consume, add, set, purchase membership, monthly grant | every paid feature, USDT orders, community |
| USDT payments, `services/usdt_payment_service.py` | `qd_usdt_orders` (`status`, `address_index`, `paid_at`) | create, refresh (poll and worker), mark paid, confirm and activate, expire | TronGrid (external), billing |
| Community market, `services/community_service.py` | purchases, indicator copies, credits | purchase, sync, comment, review | billing |
| Accounts, `services/{security,user,oauth,email}_service.py`, `routes/auth.py` | login attempts, verification codes, OAuth states, token version | rate limits, code check, state consume, token revocation | routes |
| Data sources, `data_sources/{circuit_breaker,rate_limiter,cache_manager}.py` | breaker state per source, last call time, LRU + TTL cache | availability, success, failure, wait, get / set | strategy loop (prices, klines), routes |
| DB access, `utils/db_postgres.py` | psycopg2 pool singleton | acquire with wait, commit / rollback, release | everything |
| Portfolio monitor, `services/portfolio_monitor.py`, `routes/portfolio.py` | `next_run_at` and `is_active` of monitors, alert flags | look, run, charge, reschedule, alert, notify | billing, AI analysis, notifier |
| Analysis requests, `routes/fast_analysis.py`, `services/analysis_memory.py` | `_analysis_inflight`, task rows of `qd_analysis_memory` | guard, charge, submit, analyse, finalize, refund | billing, AI analysis |
| Plans, `services/plan_repository.py`, `routes/plans.py` | plan `status` and timestamps | save, update status, update details | routes |
| Backtest, `services/backtest.py` | simulated position, equity, trades | bar loop, entries, exits, liquidation | routes, experiments |
| Macro snapshot, `services/macro_snapshot*.py` | a cached snapshot, a refresh thread | refresh, read | routes |
| Experiments, analysis service, prediction markets, notifications | results, message text | mostly calls to external services | routes |

Hard behaviours.  Everything runs in each gunicorn process: strategy threads,
the order worker, the payment worker and the monitors are plain threads, and
each database statement group is its own transaction on READ COMMITTED
PostgreSQL.  There is no row lock anywhere (`SELECT ... FOR UPDATE` does not
occur), so every read-then-write over two statements can interleave.  The
exchange is called between transactions and may accept an order and still make
the call raise.  A process may die between any two steps and is started again by
its supervisor.  `PROJECT.json` lists these hazards at their lines.

What makes each component correct, in one sentence: a *queue row* is executed
boundedly often, by one worker at a time, and gets one result; a *strategy* has
one loop thread, which stops when it is told to; an *order* buys what was asked
and no more, and what it bought is recorded; a *position row* converges to what
the exchange holds; a *signal* opens at most one position per candle; a *credit
balance* is the sum of its log; a *payment* activates one membership, once; an *analysis*
is paid for by whoever gets it; a *backtest* lists every trade it makes; a
*breaker* lets one probe through; a *cache* never serves an expired value.

## 2. Plan

Done: `OrderQueue` with its abstract specification, `StrategyThreads`, `LiveOrder`,
`SignalGate`, `PositionBook`, `UsdtOrder`, `Credits`, `Backtest`, and
`PaidAnalysis`, which joins `AnalysisTask` and `PortfolioMonitor`, each with
proofs of the safety invariants its runs check.  Left, most important first:

1. Composition of the gate, the queue and the live order for one symbol: the
   worker of `SignalGate` (claim, execute, give back) refined by the actions of
   `OrderQueue` and the phases of `LiveOrder`, and proved.
2. `Breaker` (circuit breaker, rate limiter, cache), `ConnectionPool`.
3. `CrossSectional`, `ScriptRuntime`, `Plans`.

## 3. Pending order queue

`OrderQueue` has one action per database transaction or outside call.  The
worker thread's `pc` follows `_run_loop`/`_tick`: `idle` (requeue UPDATE),
`select` (SELECT), `batch` (claim the rows one by one), `dispatch` (the outside
call), `placed` (`_mark_sent`), `record` (`apply_fill_to_local_position`,
`record_trade`), `fail` (`_mark_failed`), `down` (process dead).  A row's
`status`, `attempts` and whether its `updated_at` is older than
`PENDING_ORDER_STALE_SEC` (`aged`) are the table.  `placed`, `booked` and
`ticket` are history: how many orders the outside accepted and how many fills
were written under each claim of a row.

Abstractions.  A row's payload is dropped; how it is executed (`mode`: a
notification, a crypto exchange, IBKR / MT5) is kept because the three flows
treat a failing `_mark_sent` differently.  A `_mark_sent` or `_mark_failed` that
raises may have committed: in the signal and the broker flow the writer then
reports a failure over a `sent` it does not know of.  `OrderLifecycle` promises no
more than that: `doubted` names the rows whose `sent` their own writer is in doubt
of, and only such a row may be retracted to `failed`.  A dispatch is one call that is
refused, accepted, or accepted while the call raises; its phases belong to
`LiveOrder`.  Time is the action `Age`: it makes a row stale at any moment,
except, when `SlowDispatch` is FALSE, a row some live worker has in hand: that
constant is the assumption that no dispatch takes longer than 90 s.  Every row
has priority 0 in the code, so ids order the queue.  `MaxFaults` bounds crashes
and failed transactions together.

Two processes are the smallest number that can disagree; a third adds no new
pair.  Two rows exercise stale batches and rows left behind; two or three
attempts exercise requeue up to and at the limit.  The proofs cover every other
size.

Fairness (`FairSpec`): each worker thread keeps running (`_run_loop` sleeps and
loops, it never waits for another thread), a dead process is restarted by its
supervisor, and time passes.  No fairness is assumed of users or of faults.
With fewer faults than `max_attempts` every row settles; with as many it may not
(section 14), and the bound 10 of the code only makes that rare.

## 4. Strategy threads

`StrategyThreads` follows `start_strategy`, `stop_strategy`, the routes that call
them, `restore_running_strategies` and the control flow of `_run_strategy_loop`.
The state is the `status` column (`db`), each process's `running_strategies`
(`reg`), where each thread is (`pc`: `init`, `check` reads the status, `lock`
tests the registry, `mismatch` repairs the status, `tick`, `finally`), where each
request is between its transactions (`rpc`) and the boot of each process.
Everything done under the executor's lock is one action; each database
transaction is one action.  `told` (the last mark of a thread's row since it was
stopped), `late` (ticks begun since then) and `beside` (started while a stopped
thread was still alive) are history.

Users press start, stop and delete at any time and in any order; nothing in the
routes keeps a start from following a stop at once.  Then the comment at
`trading_executor.py:469`, that a stopped thread ends at its next check, is wrong:
the check finds the successor's registration, and run `threads_restart` shows two
threads ticking (`NextCheckEnds` violated, section 14).  The properties that hold
say that this is the only way: of two threads of a strategy one was started while
a stopped one still lived (`OneLoop`), a stopped thread begins at most the tick it
had decided on unless a start marks its row running again (`StoppedThreadEnds`),
and a later stop that lasts ends all of them (`StopStops`), whichever entries their
`finally` clauses delete (`NoDeadOwner`).

Fairness: threads, request handlers and a booting process keep running, since
each of them is a thread that never waits for another except for the short
lock; nobody has to press a button.

## 5. Signal gate

`SignalGate` is the part of a tick between the triggered signals and the order
row, and what becomes of the row.  `Tick` reads the positions, filters (`Allowed`,
`Wanted`), orders by priority and reserves the best signal not yet reserved
(`Select`); `Recheck` reads the positions again and filters again (`Filter`);
`Veto` is every reason for which `_execute_signal` refuses an entry (AI filter,
spot market, position and loss limits, no size); `Enqueue` inserts the row;
`Simulate` writes the position in signal mode.  A reading that raises returns no
rows, so it shows a flat account (`Misread`): for the server's exits alone, for the
filter, or for the second reading.

The order worker is one thread: `Claim` takes the oldest waiting row, `Execute`
fills it or not and finishes the row or leaves it in `processing`, and `Return`
gives rows back.  A row set aside by a claim or a final write that fails, or by a
restart, is executed after younger ones; `past` says whether its fill had been
booked already, in which case it is filled again.  `Restart` empties the in-memory
cache.  A signal's timestamp is reduced to its candle, counted back from the
current one.  The signals offered in a tick are any two of the allowed ones, so
every combination of strategy output is covered; prices appear only as *the stop
line was crossed and stays crossed*.

The gate looks at positions only, and only its two readings together keep an entry
off a held position.  The properties name what lets one through:

* `overlap`: while an entry waits in the queue the account reads as flat and a
  second entry, of either side, may pass;
* `blind`: an entry passed on a failing second reading while the first one had
  failed too, or an entry was on order at the first one.  One failing reading alone
  lets none through, and `EntersFlat` and `OneDirection` check that;
* `outOfTurn`: an order was filled that had been set aside before.  An exit that
  waits while a new position is opened (`late`) needs that, or to have been set
  aside itself (`ExitsAreTimely`).

`StopsOut` says that a stop-loss gets through although its reservation lasts the
whole candle and is made before the insert: the next candle offers it again.  It
needs that the strategy ceases to add to the position: adds that are queued with
each close would leave a rest for ever.  Fairness: the tick loop and the worker
go on (neither waits for the other) and candles pass.

## 6. Live order

`LiveOrder` is `_execute_live_order`, one action per exchange call or transaction,
with the exchange as an environment that may fill an open order at any moment.
`venue` is the client the row's strategy has: a crypto exchange, or one of the
brokers IBKR and MT5, whose flows (`_execute_ibkr_order`, `_execute_mt5_order`)
send one market order (`BrokerSend`) and believe one answer (`AnswerIbkr`, what
the order shows two seconds later; `AnswerMt5`, the finished deal; `AnswerLost`).  `WaitLimit` and `WaitMarket` report any size the
exchange has shown so far (`wait_for_fill` polls; it may end on a failing poll).
`LimitFails` and `MarketBreaks` are calls that raise, with the order accepted or
not.  `Crash` may happen anywhere; the row is then requeued and dispatched from
the start with the same client order ids.

What holds: an attempt buys more than asked only by limit fills its wait had not
seen (`OverfillIsUnseen`); an exchange that refuses a repeated client id executes
at most twice the amount over all attempts, once per phase (`ExposureBounded`).
Brokers are given no such id, so there every fault may cost the amount once more,
rounded to lots for MT5.
A broker's `_mark_sent` that raises may have committed and is followed by a
`_mark_failed` (`retract`): an executed order ends in a failed row either way.
`RestingIsExplained` and `BookedIsBought` state the exceptions the code makes
with open eyes: a rest of at most 0.1 % or below OKX's minimum stays on the book,
and an order without any reported fill is booked in full at the reference price.

Sizes: 1000 steps asked and fills of 1, 999 and 1000, the values around the 0.1 %
threshold, and of 1001, what 1000 becomes in lots of 143; two attempts; three faults, enough for a lost answer, a failing cancel
and a crash in one behaviour.

## 7. Position book

`PositionBook` is one row of `qd_strategy_positions` against the position the
exchange holds.  Three threads write the row.  The order worker reconciles
(`PeriodicSync`, and `TakeOrder` before each order: `Ask` compares the row it
loaded with the exchange's answer, `Apply` writes the difference), limits a close
to the row (`Clamp`) and to the exchange (`Query`), places the order and books the
fill with a read and a write (`BookRead`, `BookWrite`).  `Believed` is what the
worker takes for the fill: the reported one or, when an order was accepted and
nothing is reported, the whole amount at the reference price.  A strategy thread
reconciles when it starts (`Start`) and later writes back, with the size it read,
rows whose high and low it tracks (`ReadPosition`, `WriteBack`).  `External` is
everything else on the account.  A row carries its serial id, because deletes and
updates of the reconciliation go by id and miss a row that was replaced.

The row is not always right: the code has no lock between these threads.
`trusted` is the history of what may have made it wrong, a fill that was not the
one believed included, `overtaken` says which
reconciliation worked on a row that has since changed.  `TrustedIsRight` states
that nothing else makes it wrong and that the worker's next undisturbed
reconciliation makes it right again; `CloseIsWhole` states what a close then asks
for; `Heals`, that the row agrees with the exchange again and again, under
fairness of the worker's loop and of the write-back.

Bounds: two lots, two orders, one trade of others, two starts, one fault.  Two
lots make a partial fill, and two starts let a second start-up meet what the
first one left.  `Slacks` are the two kinds of tolerance: none of these lots, or
one of them (sizes below one unit).

## 8. USDT orders

`UsdtOrder` follows an order from `create_order` (`Number` reads the highest
address index, `Insert` meets the unique key) through the refreshes of the
background worker (`Scan` reads a batch, `NextRow` takes a row of it) and of the
user (`Poll`).  A refresh works on the row as read: `AskChain` calls TronGrid, an
error reading as no match; the query asks for confirmed transfers only, so a
transfer is made (`Transfer`) and becomes visible later (`TransferShows`); `MarkPaid`, `MarkExpired`, the two statements of the
confirmation (`Check`, `Confirm`) and the activation in a later transaction
(`Activate`) are steps of their own.  Times are ages: an order is due, a transfer
and a payment are fresh or old.

`PaymentSticks` and `PaidIsBacked` hold throughout.  `TwiceOnlyByOverlap` and
`HonouredUnlessFaults` state when the code fails: two memberships for one payment
need two confirmations that overlap between the status check and its update, and
a payment that was visible before its order was due is missed only after a failing
query, write or activation.  A payment made in time that the chain confirms after
the expiry is a different matter (section 14).
`Settles` needs only the worker.  Fairness: the worker polls for ever, calls
return, time passes; none of users.

Bounds: two orders and batches of one row, so that an order waits behind another
one and both are created at once; a user polls one of them; one fault.

## 9. Credits

`Credits` is `qd_users` with its log under PostgreSQL's READ COMMITTED.  A request
is the steps of its transactions: a charge reads in one and writes an absolute
balance in the next (`Read`, then `Consume`, `AddCredits` or `SetCredits`); a
membership purchase, and every look at a VIP status, begins with
`_ensure_membership_schema_best_effort`, whose `ALTER TABLE qd_users` holds an
exclusive lock to the commit (`Alter`, `Due`, `Pay`); an indicator purchase
updates the buyer and, while it holds that row, reads the seller's balance on a
second connection (`Debit`, `ReadSeller`, `Credit`, `Record`).  `Free`, `RowFree`
and `Exclusive` are the locks.

That schema upgrade is what keeps monthly grants single (`GrantsNotEarly`), and
what makes requests hang: `RequestsEnd` holds except for a purchase and an `ALTER
TABLE` that wait for each other through the second connection, which PostgreSQL
cannot see (`Entangled`).  `LogExplainsBalance` holds for every user no unlocked
read of whom was overtaken and no failed read of whom counted as 0.

Bounds: three requests of every kind in two workers, two users, two ticks of one
grant period each, one fault.  Fairness: a request that can go on does.

## 10. Backtest

`Backtest` is the control of `_simulate_trading_new_format` (engine `bar`) and
`_simulate_trading_mtf` (engine `mtf`): which of the dozen early ends of the loop
body a candle takes, which counters each resets and which trades it lists.
Prices are left out: whether a stop, target, trigger or liquidation line is
touched is a free choice, and of the capital only its comparisons with 0 and with
`min_capital_to_trade` are kept.  `ledger` is what a reader of the trades list
infers; `turns` are the sides to which a candle's signals turn the position, until
that is done, and `lost` the entries of such reversals that were dropped, with the
place: a stop or target exit that ended the candle or cleared the pending signal,
the order of the mtf queue, or any other end of the candle while there was the
capital.

`TradesTellThePosition`, `FreshAllowances`, `LiquidationIsLast` and `EntriesKept`
are about the loop's paths: an early end that forgets one of booking, clearing and
resetting breaks one of them.  `EntriesKept` says that the third kind of loss does
not occur, and the second only for the long entry of a short's reversal with
explicit exits.  Three candles are enough for a position to be
opened, changed and followed by another one; the proofs cover any number.

## 11. Paid analyses

`AnalysisTask` is a user clicking on one symbol: `Click` takes or is refused the
guard's entry, `Charge` pays, `Submit` records a task and starts a thread, `Run`
is the analysis, `Finalize`, `Refund`, `Mark` and `Tidy` settle, and `Leave` is
the `finally` clause, which removes the key's entry whoever made it.  `Expire` is
the entry's 90 seconds.  `loosened` (entries removed early) and `spoilt` (requests
that met a fault after the charge) are history.

`PortfolioMonitor` is the loop (`Look`, `Take`) and the runs users start
(`RunNow`), both through `run_single_monitor`: `Check` (positions, watchlist,
balance), `Bill` once per position, `Schedule` (analyse and set `next_run_at`).
Of the times only the order in which monitors became due is kept.

`PaidAnalysis` joins them.  They share nothing but the balance, which each takes
to be changed by others at any time, so a behaviour of the join is one of either.

`PaidIffServed`: at the end of every path, waiting or submitted, whoever paid was
served and whoever was not served was refunded, unless a write failed or the
process ended after the charge.  `GuardHolds` names the only two ways in which two
analyses of a symbol run at once.  `BilledOnce`, `PaidInFull` and `DueMonitorsRun`
do the same for the monitors: a due date is charged twice only when a run was
interrupted, positions are analysed unpaid only when others spent the balance that
was checked, and a due monitor waits for ever only behind as many monitors that
cannot run as one look holds.  Fairness: the loop goes on and its calls return.

Bounds: three clicks (a first, a refused and a third one), one fault; two monitors
of two positions and looks of one row, two credits, one edit, one fault.

## 12. Runs

| Run | Instance | Shows |
|---|---|---|
| queue_safety | 2 rows, 2 processes, 2 attempts, 1 fault, timely | no double dispatch, results are final; the table implements `OrderLifecycle` |
| queue_liveness | 1 row, 2 processes, 3 attempts, 2 faults, slow, fair | every queued row settles; one placement and one booking per claim also when dispatches overlap |
| threads | 1 strategy, 1 slot, 2 requests of any kind, 1 fault, fair | one loop unless a start met a stopped thread, stopped threads end, slots never name ended threads, a stop that lasts ends every thread |
| threads_restart | 1 strategy, 2 requests, no fault | violated: a stopped thread goes on beside its successor |
| gate_safety | opens and closes of both sides, live and signal mode, 1 lot, 2 queued rows, 1 fault or restart | once per candle, no entry against a position, no late exits |
| gate_stop | opens, adds and the stop of a long, 2 lots, 2 queued rows, 1 fault or restart, fair | the stop-loss closes the position |
| live_order | crypto, IBKR and MT5; 2 attempts, 3 faults | exposure, backing, resting and booking of one order |
| positions | 2 lots, 2 orders, 2 starts, 1 trade of others, 1 fault, fair | when the row is right, what a close asks for, that the row heals |
| usdt_orders | 2 orders, batches of 1, 1 polling user, 1 fault, fair | payments stick, are backed and honoured; orders settle |
| credits | 2 users, 2 workers, 3 requests, 2 ticks, 1 fault, fair | balances and log, grants, single charges, which requests hang |
| backtest | 3 candles, both engines, every rule used once | trades, counters, liquidation, reversals |
| paid_analysis | 3 clicks; 2 monitors; a fault each, fair | charges against results, the guard, due dates |

Bounds of the models, all of them constants: `MaxFaults`, `MaxTaskFaults` and
`MaxMonitorFaults` (crashes, failed transactions and calls, lost answers), `MaxLots`,
`MaxQueue`, `CountedActs` and `CountedSides` (the signals whose orders the history counts: long
opens, the sides being symmetric; none where no property asks), `BatchSize` and `BatchLimit`, `LookLimit` (20 in the code),
`MaxAttempts` (the code's `max_attempts`, 10 by default), `MaxOrders`,
`MaxExternal`, `MaxStarts`, `MaxRequests`, `MaxTicks`, `MaxBars`, `MaxTimes`,
`Clicks`, `MaxCredits`, `MaxEdits` and the numbers of processes, threads, requests
and strategies.  Deadlock is checked except where the system may stop:
`StrategyThreads` with no user active, `LiveOrder` after its row has settled,
`UsdtOrder` with all orders settled, `Credits` and `PaidAnalysis` after their
last request, `Backtest` after its last candle.

## 13. Proofs

`OrderQueueProofs` proves, for any numbers of rows, processes, attempts and
faults:

* `ClaimsAreSafe`: `Spec => []ClaimInv`, from which `TypeCorrect`,
  `RetriesAreBounded` and `ClaimsPayOnce` follow.  The claim UPDATE tests the
  status only.  That attempts nevertheless stay within the limit needs the
  invariant *pending rows have an attempt left*, kept by the requeue and the
  insert.  That a claim pays once needs *each claim number has one holder*
  (`ClaimsHeld`: the number is the attempts value the claim wrote, and attempts
  only grow) and *what the holder knows of its claim* (`ClaimsSpent`).  None of
  this needs dispatches to be timely.
* with `SlowDispatch = FALSE`: `DispatchIsExclusive`, `ResultsAreFinal` and
  `Implements`.  The strengthening is `FreshInHand`: a row in hand is in
  processing (or deleted by the user, or sent: being recorded, or with a writer who
  does not know that its `sent` took effect) and not aged, so that neither a requeue
  nor a claim of another process can touch it.  A result is final but for a `sent`
  in doubt, which costs a fault and occurs outside the exchange flow only;
  `Implements` maps `doubted` to the rows such a writer holds.

`ClaimInv` with its conjuncts (`TypeOK`, `AttemptsBounded`, `SentMeansPlaced` and
the others) is proved and no longer checked by a run of its own.

`StrategyThreadsProofs` proves, for any numbers of strategies, threads, requests
and faults:

* `SlotsHaveOwners` and `ThreadTypes`: `RegistryInv` (types and `NoDeadOwner`) is
  inductive for any users and any number of processes: whoever deletes
  or overwrites an entry, a slot never names an ended or foreign thread, so a
  strategy can always be started again.
* `SingleLoop` (`OneLoop`), without further hypotheses.  The strengthening,
  `LoopInv`: a live thread holds its slot, or it was stopped, or it was started
  beside a stopped one (`Slotted`), and the slot belongs to the thread started last
  (`NewestHoldsSlot`), so that the entry a leaving thread deletes is its own or that
  of a thread beside it.
* `StopsAreObeyed` (`StoppedThreadEnds`), without further hypotheses, from `StopInv`:
  as long as the last mark was a stop the row does not say running
  (`StoppedNotRunning`), and a thread that ticked once since will read it
  (`LateOnce`).

`LiveOrderProofs` proves, for any amount, fill sizes, lots, attempts and faults,
`Invariance` (`IInv`) and from it all five invariants of the run: `Exposure`,
`Overfill`, `Backed`, `Resting` and `Booked`.  `OverfillIsUnseen` compares two
sums over attempts, so `IInv` says what each attempt's two orders are
(`OrderInv`), what the locals of the dispatch under way know of them
(`AttemptInv`: what is asked of the market phase and what was seen of the limit
phase make up no more than the amount) and which order stands behind each step
(`BackingInv`).  `ExposureBounded` for crypto needs `OncePerPhase` (no two attempts have
an order of one phase accepted), for brokers that every attempt but the last cost a
fault (`RowInv`).  The sum over all
attempts is the recursive function `ExecutedUpTo`: that it has a solution and stays
within the bound is proved by induction over a set of numbers (`Induction`, from a
minimal element of its complement), since the library's induction theorems take an
operator.

`RowMovesAsQueued` joins the two models of a row: every step of `LiveOrder` is a step
of `OrderLifecycle` or leaves the row alone (`MovesAsQueued`), so what `OrderQueue`
takes for one call and `LiveOrder` for a dozen keeps the same promise, of which
`OrderQueueProofs!Implements` is the other half.

`SignalGateProofs` proves `GateInvariance` (`GateInv`) for any kinds of signals,
modes, directions, sizes, queue lengths and faults, and from it

* `EntersFlatAlways` and `OneDirectionAlways`.  The strengthening: a signal selected
  on a reading that worked, with no entry on order, finds the account flat until it
  is enqueued (`SureInv`); between the decision of an entry and its execution the
  queue holds no other entry, and nothing but exits touches the account
  (`Undisturbed`, `LiveInv`); in signal mode the thread is the only writer
  (`SignalInv`).
* `OrdersOnce`, restarts included (the history counts within one process): what is
  reserved but still in hand has not been ordered (`ReservedInv`).
* `ExitsAreTimelyAlways`, for strategies that do not add (`"add" \notin Acts`): of
  the rows of one side that were never set aside the queue holds entries before
  exits only while the side is held and exits before entries only while it is flat
  (`OrderlyInv`), and the worker holds no younger row while such a one waits
  (`WorkerInv`).  With adds the property is false, and TLC finds the behaviour
  (section 14); `gate_safety` offers opens and closes.

The theorems also cover reductions, which no run offers.

`UsdtOrderProofs` proves `Invariance` for any orders, polls, batch limit and faults,
and from it `PaidIsBackedAlways`, `TwiceOnlyByOverlapAlways` and
`PaymentSticksAlways`.  A refresh works on a row that may be stale in every field;
the strengthening says which of its knowledge cannot be (`Known`: the order exists,
a transfer once seen stays, a settled order stays settled), that no two orders share an
address (`AddressInv`: the unique key), and that a confirmation that overlapped no
other one is alone between its check and its activation (`OnceInv`).

`CreditsProofs` proves `Invariance` for any users, web workers, prices, periods and
numbers of requests, and from it `LogExplainsBalanceAlways`,
`GrantsNotEarlyAlways` and `ChargedOnceAlways`.  The strengthening is what the locks do:
they exclude each other (`LockInv`), what a grant is decided on stays true under its
lock (`PayInv`), and what a request read of a balance that no other commit touched
is still that balance (`SeenInv`).  `GrantInv` counts: the grants so far, in
periods, and the ticks since the last one make up no more than the ticks elapsed.

`PaidAnalysisProofs` proves `Invariance` of both consumers together, for any numbers
of clicks, monitors, positions, credits and faults, and from it `GuardHoldsAlways`
(who is inside holds the entry or had it removed, `GuardInv`),
`PaidIffServedAlways` (`Progress`: what has become of an unspoilt request at each
step), `PaidInFullAlways` (`RunInv`) and `BilledOnceAlways`: a monitor that was
charged for and is still due is the one in the loop's hands, which needs that the
loop has each monitor once (`LookInv`, `BilledInv`).

`PositionProofs` proves about `PositionBook`, for any lots, orders, trades of others,
starts and faults, `RowInvariance` (`RowInv`) and from it `TrustedIsRightAlways` and
`CloseIsWholeAlways`.  The strengthening: a reconciliation that nothing overtook has
read the row as it is and will write what the exchange holds (`PlansTrue`); while a
fill is booked the row is right about the position before the fill
(`BookingRight`); a reconciliation before an order, or whatever overtook it without
costing the trust, leaves no row beside a flat exchange (`FlatRight`); and after
the first of its two limits a close is no more than the tolerance too small
(`Limited`).  That a start-up beside an unbooked fill counts as overtaken
(`Steady`) is what keeps the fill from being booked twice.  The ids of the
model are finite; `FreshIs` shows that one is always left.

About `Backtest` it proves, for any number of candles, uses of the rules and waiting
signals:

* `TradesAreComplete`, `AllowancesReturn` and `NothingAfterLiquidation` from
  `BookInv`: the trades list tells the position inside a candle too, a liquidated
  account is empty and at a place in the loop body from which nothing trades
  (`LiquidatedIsEmpty`: a liquidation in the middle of the body is followed by the
  entry step, which only the capital stops), and the counters are fresh wherever
  the account is flat (`CountersFresh`).
* `BarKeepsReversals`: with the bar simulator alone, a reversal loses its entry,
  while there is the capital, only on a candle whose stop or target closes the
  position first.  The strengthening, `TurnsInv`, follows the turn through the loop
  body: until the entry step it is still what the signals say of the position
  (`Reverses`), at the entry step it is what the tests of the entries look for
  (`TurnIsTaken`), and afterwards it is done or there is too little capital.

Assumptions: those declared with the constants of the modules, and the hypotheses
named above: timely dispatches for three theorems on `OrderQueue`, no adds for
`ExitsAreTimelyAlways`, the bar simulator alone for `BarKeepsReversals`.  The theorems are about `Spec` (`BookSpec` of
`PositionBook`), so they hold of the fair specifications too.  Every safety
invariant and every action property a passing run checks is proved.  Out of the prover's
reach and left to TLC is what holds only under fairness: `EveryOrderSettles`,
`StopStops`, `StopsOut`, `Heals`, `Settles`, `HonouredUnlessFaults`, `RequestsEnd`
and `DueMonitorsRun`.

## 14. Deviations seen while modelling

Where the code does something else than its comments, names or callers suggest.
The runs state what holds in spite of them, with the deviation as the exception.

Orders and strategies:

* Dashboard delete (`routes/dashboard.py:713-744`): the status is checked in one
  statement and the row deleted in another, so a row can be deleted in
  `processing`; its result is then written to nothing (`DeleteCommit`).
* A row interrupted under its last claim stays in `processing` for ever: the
  requeue asks for attempts left (`pending_order_worker.py:658`), although it is
  there "to avoid deadlocks after crashes" (:639).
* A claim whose commit succeeds but whose answer is lost leaves the row to the
  stale limit (`pending_order_worker.py:708`).
* A dispatch slower than `PENDING_ORDER_STALE_SEC` is claimed again by a second
  process.  `gunicorn_config.py:7-8` asks for one worker process; several
  replicas would each restore every strategy and share the queue.
* Start pressed on a running strategy is refused, and the refusal writes
  `stopped` over `running` (`routes/strategy.py:1071`, "If start failed, restore
  status"): the running thread ends at its next check.
* A strategy started again before its stopped thread has looked at its status
  keeps that thread: the check asks whether some live thread is registered
  (`trading_executor.py:1556`), finds the successor, and two threads trade one
  strategy.  The comment at :469 says of a stop that "the thread exits at its next
  status check" (in Chinese): finding of run `threads_restart`.
* In the signal and the broker flow a `_mark_sent` whose commit took effect but whose
  answer is lost is followed by `_mark_failed`, which asks for the id only
  (`pending_order_worker.py:2208`, :2354-2404): an executed order then reads
  `failed`.
* `_run_strategy_loop`'s `finally` (`trading_executor.py:1474`) deletes the
  strategy's entry even when it names a newer thread; that thread then marks the
  strategy stopped.
* A thread that ends on an initialisation error or a failing status read leaves
  the row `running`; so do script strategies, which the restore skips
  (`app/__init__.py:211`, `Boot`).
* The thread limit counts registrations: stopped threads that have not ended
  are not counted.
* A position read that fails returns no rows (`trading_executor.py:2448-2450`) and so
  shows a flat account.  Both readings of a tick failing, or one while an entry is
  on order, let an entry through against a held position.
* A row given back after the stale limit (`pending_order_worker.py:650-660`) executes
  after younger ones: a close requeued so closes a position opened after its
  decision.  A row whose fill was booked but which could not be marked `sent` is
  given back too, and executed again.
* An accepted order of which no fill is reported is booked in full at the reference
  price (`pending_order_worker.py:1978-1983`, :2008-2021).
* After a restart the same candle's signal is ordered again, because the look-up
  of earlier orders calls `int()` on a timestamp (`trading_executor.py:3167`).
* While an entry is queued the other side may be entered, although
  `_position_state` assumes one direction per symbol.
* A close that is queued in front of an add does not end the position: the add
  opens it again, and a second close, decided before either executed, then closes a
  position opened after its decision.
* `_execute_exchange_order` reports success when nothing was inserted; in signal
  mode the position is then simulated without an order.
* Every order of a cross-sectional rebalance is refused.  It passes
  `current_price=0.0` ("Will be fetched in _execute_signal",
  `trading_executor.py:3796`), by which the sizing divides (:2599), and no
  positions, so that closes are filtered out; the rebalance counts as done all the
  same (`_update_last_rebalance`).
* The daily-loss query uses `CURDATE()` (`trading_executor.py:3374`), which
  PostgreSQL lacks; the failing query reads as no loss.
* A limit order that filled in part and a market order that breaks end in a
  failed row whose fill is recorded nowhere (`pending_order_worker.py:1970`).
* MT5 reports a partly executed order as rejected (`mt5_trading/client.py:289`), and
  IBKR one that was cancelled after a partial fill
  (`ibkr_trading/client.py:250`): both rows fail and the fill is recorded nowhere.
  A broker's row that cannot be marked sent is marked failed although executed
  (`pending_order_worker.py:2208`).
* OKX client ids concatenate two ids without a separator
  (`pending_order_worker.py:1037`): orders of different strategies can coincide.
* The reconciliation's size tolerance (`pending_order_worker.py:563`) is absolute
  below one unit.

Payments and credits:

* A payment made before `expires_at` that TronGrid confirms after it
  (`only_confirmed`, `usdt_payment_service.py:478`) finds its order expired
  (:691-704), and the worker never looks at expired orders again (:561); only a poll
  of the user finds the payment.  No fault is needed.
* A TronGrid error at the expiry marks a paid order expired, and a failed
  activation is not tried again (`usdt_payment_service.py:691`; the docstring at
  :749-750 promises that "the order will still be confirmed").
* A charge or refund can overwrite a concurrent one, and a balance that cannot be
  read counts as 0 and is written back (`billing_service.py:115`).
* An indicator purchase and an `ALTER TABLE` can wait for each other for ever; no
  lock timeout is set.
* `set_vip` to none leaves the monthly grants of a lifetime member running; a
  monthly purchase over a lifetime plan clears the lifetime flag.
* A refused click's `finally` removes the guard entry of the analysis in
  progress (`routes/fast_analysis.py:305-308`), so that a third rapid click is
  charged again; the comment at :20 promises to avoid "duplicate analysis charges
  caused by rapid repeated clicks".  The entry also ends after 90 s, and the
  release goes by key and not by owner.
* A task that cannot be created is not refunded (`routes/fast_analysis.py:216`); a
  failing `finalize_pending_task` is not noticed and the row with the result is
  deleted behind it; a restart leaves tasks in `processing`, unrefunded.
* Errors of the prediction market analysis are not refunded.
* A monitor that is skipped, for want of credits or of its watchlist entry, keeps
  its `next_run_at`: it runs, and notifies of a failure, every 30 s, and 20 of
  them starve all others (`portfolio_monitor.py:1693`).
* A monitor is charged one credit per position (`portfolio_monitor.py:1353`),
  although positions of one market and symbol are analysed once (:284-296).
* A run that cannot write `next_run_at` is charged again 30 s later; after a
  failing charge all positions are analysed all the same
  (`portfolio_monitor.py:1367`); a monitor the user has just run is run again if
  it is in the loop's rows.

Backtest:

* The mtf simulator has no liquidation line after a fill: equity is clipped to 0
  and may recover.  It does not filter four-way signals by `trade_direction`
  (`docs/STRATEGY_DEV_GUIDE.md:351`), leaves the last position open, and drops the
  long entry of a short's reversal.
* In both simulators a stop or target discards the entry of a reversal that meets it
  on its candle: the bar simulator skips the rest of the candle (`backtest.py:2667`,
  :2737), the other one clears the pending signal (:1224-1226).
* The bar simulator compares only a short's loss on a risk exit with the capital;
  a reduction to zero keeps used-up counters; the stop branch of its safety net
  cannot be reached.

Elsewhere: the circuit breaker never counts half-open calls
(`circuit_breaker.py:96`).

## 15. Not modelled

The components marked `not_modelled` in `PROJECT.json`, each with its reason.  Of
the modelled ones: prices, fees and profit, the indicator and script code, bot
mode (no filter, several signals per tick), cross-sectional strategies (none of
their orders reaches the queue; their stop is the one of `StrategyThreads`),
`_simulate_trading_old_format` (`backtest.py:3631`; nothing calls it), several
symbols in one reconciliation, the derivation of addresses and the matching of
amounts, the publishing and review side of the market, the metrics, candles and
persistence of backtests, a user who deletes a task or a monitor while it runs,
price alerts, a charge of an analysis that commits and still reports an error, and
the text of notifications.
