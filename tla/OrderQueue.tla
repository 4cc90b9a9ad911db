----------------------------- MODULE OrderQueue -----------------------------
(***************************************************************************)
(* The pending_orders table and the processes that share it: the strategy  *)
(* threads that enqueue, one PendingOrderWorker thread per gunicorn        *)
(* process, and the dashboard's delete request.  Every action is one       *)
(* database transaction or one exchange (notifier) call of                 *)
(* pending_order_worker.py; a process may die between any two of them and  *)
(* any transaction may fail.                                               *)
(*                                                                         *)
(* What an order executes (phases, fills) is module LiveOrder's subject;   *)
(* here it is one call that is refused, accepted, or accepted without the  *)
(* worker learning of it.                                                  *)
(***************************************************************************)
EXTENDS Naturals, FiniteSets

CONSTANTS
    Orders,         \* ids of rows that may be inserted; ids order the queue
    Workers,        \* processes, each with its PendingOrderWorker thread
    NoOrder,        \* "no row in hand"
    MaxAttempts,    \* the max_attempts column (10 in the INSERT)
    BatchSize,      \* LIMIT of the SELECT (50)
    MaxFaults,      \* bound on crashes and failed transactions together
    SlowDispatch    \* TRUE: a dispatch may outlast PENDING_ORDER_STALE_SEC

ASSUME OrdersAssumption == Orders \subseteq Nat /\ NoOrder \notin Orders
ASSUME LimitsAssumption == /\ MaxAttempts \in Nat \ {0}
                           /\ BatchSize \in Nat \ {0}
                           /\ MaxFaults \in Nat
ASSUME SlowAssumption == SlowDispatch \in BOOLEAN

\* How _dispatch_one executes a row: a notification, a crypto exchange order,
\* or an IBKR / MT5 order.
Modes == {"signal", "exchange", "broker"}
Statuses == {"absent", "pending", "processing", "sent", "failed", "deleted"}
Final == {"sent", "failed"}
Attempts == 1..MaxAttempts

VARIABLES
    mode,       \* how each row is executed, fixed for a behaviour
    status,     \* the status column; "absent" before INSERT
    attempts,   \* the attempts column
    aged,       \* updated_at is older than PENDING_ORDER_STALE_SEC
    pc,         \* where each worker thread is
    batch,      \* rows of the last SELECT it has still to go through
    current,    \* the row it is dispatching
    ticket,     \* history: the value attempts had right after its claim
    placed,     \* history: placements the outside accepted, per claim
    booked,     \* history: fills written to trades and positions, per claim
    deleting,   \* a delete request has read a status other than processing
    faults      \* crashes and failed transactions so far

table == <<status, attempts, aged>>
thread == <<pc, batch, current, ticket>>
vars == <<mode, status, attempts, aged, pc, batch, current, ticket,
          placed, booked, deleting, faults>>

PCs == {"idle", "select", "batch", "dispatch", "placed", "record", "fail", "down"}

TypeOK ==
    /\ mode \in [Orders -> Modes]
    /\ status \in [Orders -> Statuses]
    /\ attempts \in [Orders -> Nat]
    /\ aged \in [Orders -> BOOLEAN]
    /\ pc \in [Workers -> PCs]
    /\ batch \in [Workers -> SUBSET Orders]
    /\ current \in [Workers -> Orders \cup {NoOrder}]
    /\ ticket \in [Workers -> Nat]
    /\ placed \in [Orders -> [Attempts -> Nat]]
    /\ booked \in [Orders -> [Attempts -> Nat]]
    /\ deleting \in [Orders -> BOOLEAN]
    /\ faults \in 0..MaxFaults

Init ==
    /\ mode \in [Orders -> Modes]
    /\ status = [o \in Orders |-> "absent"]
    /\ attempts = [o \in Orders |-> 0]
    /\ aged = [o \in Orders |-> FALSE]
    /\ pc = [w \in Workers |-> "idle"]
    /\ batch = [w \in Workers |-> {}]
    /\ current = [w \in Workers |-> NoOrder]
    /\ ticket = [w \in Workers |-> 0]
    /\ placed = [o \in Orders |-> [t \in Attempts |-> 0]]
    /\ booked = [o \in Orders |-> [t \in Attempts |-> 0]]
    /\ deleting = [o \in Orders |-> FALSE]
    /\ faults = 0

-----------------------------------------------------------------------------
(* Strategy threads and the dashboard.                                     *)

Enqueue(o) ==
    /\ status[o] = "absent"
    /\ status' = [status EXCEPT ![o] = "pending"]
    /\ UNCHANGED <<mode, attempts, aged, thread, placed, booked, deleting, faults>>

\* The request reads the row's status in one statement ...
DeleteCheck(o) ==
    /\ status[o] \in {"pending", "sent", "failed"}
    /\ ~deleting[o]
    /\ deleting' = [deleting EXCEPT ![o] = TRUE]
    /\ UNCHANGED <<mode, table, thread, placed, booked, faults>>

\* ... and deletes by id in the next, whatever the status has become.
DeleteCommit(o) ==
    /\ deleting[o]
    /\ deleting' = [deleting EXCEPT ![o] = FALSE]
    /\ status' = [status EXCEPT ![o] = "deleted"]
    /\ UNCHANGED <<mode, attempts, aged, thread, placed, booked, faults>>

-----------------------------------------------------------------------------
(* PendingOrderWorker: one iteration of _run_loop.                         *)

Working(w, o) == pc[w] \in {"dispatch", "placed", "record", "fail"} /\ current[w] = o

\* Time passes: an open row was last updated too long ago.  The row a live
\* worker has in hand gets there only when its dispatch is that slow.
Age(o) ==
    /\ status[o] \in {"pending", "processing"}
    /\ ~aged[o]
    /\ SlowDispatch \/ \A w \in Workers : ~Working(w, o)
    /\ aged' = [aged EXCEPT ![o] = TRUE]
    /\ UNCHANGED <<mode, status, attempts, thread, placed, booked, deleting, faults>>

\* Mutant: PENDING_ORDER_STALE_SEC = 0 switches the requeue off.
StaleNever(o) == FALSE

\* The UPDATE of _fetch_pending_orders, committed before its SELECT.
Stale(o) == status[o] = "processing" /\ aged[o] /\ attempts[o] < MaxAttempts

RequeueStale(w) ==
    /\ pc[w] = "idle"
    /\ pc' = [pc EXCEPT ![w] = "select"]
    /\ status' = [o \in Orders |-> IF Stale(o) THEN "pending" ELSE status[o]]
    /\ aged' = [o \in Orders |-> aged[o] /\ ~Stale(o)]
    /\ UNCHANGED <<mode, attempts, batch, current, ticket, placed, booked, deleting, faults>>

Claimable == {o \in Orders : status[o] = "pending" /\ attempts[o] < MaxAttempts}
FirstRows(S) == {o \in S : Cardinality({p \in S : p < o}) < BatchSize}

Select(w) ==
    /\ pc[w] = "select"
    /\ batch' = [batch EXCEPT ![w] = FirstRows(Claimable)]
    /\ pc' = [pc EXCEPT ![w] = IF Claimable = {} THEN "idle" ELSE "batch"]
    /\ UNCHANGED <<mode, table, current, ticket, placed, booked, deleting, faults>>

SelectFails(w) ==
    /\ pc[w] = "select" /\ faults < MaxFaults
    /\ pc' = [pc EXCEPT ![w] = "idle"]
    /\ faults' = faults + 1
    /\ UNCHANGED <<mode, table, batch, current, ticket, placed, booked, deleting>>

\* _tick goes through its rows in queue order.
AtRow(w, o) == pc[w] = "batch" /\ o \in batch[w] /\ \A p \in batch[w] : o <= p

\* Leave row o behind: the next row of the batch, or the end of the tick.
LeaveRow(w, o) ==
    /\ batch' = [batch EXCEPT ![w] = @ \ {o}]
    /\ pc' = [pc EXCEPT ![w] = IF batch[w] \subseteq {o} THEN "idle" ELSE "batch"]
    /\ current' = [current EXCEPT ![w] = NoOrder]

\* Mutant: the claim does not count the attempt.
TakeRowUncounted(o) ==
    /\ status' = [status EXCEPT ![o] = "processing"]
    /\ aged' = [aged EXCEPT ![o] = FALSE]
    /\ UNCHANGED attempts

TakeRow(o) ==
    /\ status' = [status EXCEPT ![o] = "processing"]
    /\ attempts' = [attempts EXCEPT ![o] = @ + 1]
    /\ aged' = [aged EXCEPT ![o] = FALSE]

\* Mutant: the claim's UPDATE names the row by its id only.
ClaimAnyStatus(w, o) ==
    /\ AtRow(w, o)
    /\ status[o] \notin {"absent", "deleted"}
    /\ attempts[o] < MaxAttempts
    /\ TakeRow(o)
    /\ pc' = [pc EXCEPT ![w] = "dispatch"]
    /\ current' = [current EXCEPT ![w] = o]
    /\ ticket' = [ticket EXCEPT ![w] = attempts[o] + 1]
    /\ UNCHANGED <<mode, batch, placed, booked, deleting, faults>>

\* _mark_processing changed one row.
Claim(w, o) ==
    /\ AtRow(w, o)
    /\ status[o] = "pending"
    /\ TakeRow(o)
    /\ pc' = [pc EXCEPT ![w] = "dispatch"]
    /\ current' = [current EXCEPT ![w] = o]
    /\ ticket' = [ticket EXCEPT ![w] = attempts[o] + 1]
    /\ UNCHANGED <<mode, batch, placed, booked, deleting, faults>>

\* _mark_processing changed no row: another process or a delete came first.
ClaimMisses(w, o) ==
    /\ AtRow(w, o)
    /\ status[o] # "pending"
    /\ LeaveRow(w, o)
    /\ UNCHANGED <<mode, table, ticket, placed, booked, deleting, faults>>

\* _mark_processing raised and returned False; when only the answer to the
\* commit was lost, the row is claimed and nobody works on it.
ClaimFails(w, o) ==
    /\ AtRow(w, o)
    /\ faults < MaxFaults
    /\ faults' = faults + 1
    /\ LeaveRow(w, o)
    /\ \/ UNCHANGED table
       \/ status[o] = "pending" /\ TakeRow(o)
    /\ UNCHANGED <<mode, ticket, placed, booked, deleting>>

\* Validation, the exchange or every notification channel refused.
Refuse(w) ==
    /\ pc[w] = "dispatch"
    /\ pc' = [pc EXCEPT ![w] = "fail"]
    /\ UNCHANGED <<mode, table, batch, current, ticket, placed, booked, deleting, faults>>

\* The outside accepted; the call returned, or raised all the same (timeout).
Place(w) ==
    /\ pc[w] = "dispatch"
    /\ placed' = [placed EXCEPT ![current[w]][ticket[w]] = @ + 1]
    /\ \E answer \in {"placed", "fail"} : pc' = [pc EXCEPT ![w] = answer]
    /\ UNCHANGED <<mode, table, batch, current, ticket, booked, deleting, faults>>

\* _mark_sent and _mark_failed: WHERE id = only, whatever the status is now.
Mark(o, final) ==
    status' = [status EXCEPT ![o] = IF @ = "deleted" THEN "deleted" ELSE final]

MarkSent(w) ==
    /\ pc[w] = "placed"
    /\ Mark(current[w], "sent")
    /\ IF mode[current[w]] = "signal"
       THEN LeaveRow(w, current[w])
       ELSE pc' = [pc EXCEPT ![w] = "record"] /\ UNCHANGED <<batch, current>>
    /\ UNCHANGED <<mode, attempts, aged, ticket, placed, booked, deleting, faults>>

\* _mark_sent raised, before its commit or after it.  The exchange flow logs it
\* and records the fill, the other two flows reach a _mark_failed.
MarkSentFails(w) ==
    /\ pc[w] = "placed" /\ faults < MaxFaults
    /\ faults' = faults + 1
    /\ UNCHANGED status \/ Mark(current[w], "sent")
    /\ pc' = [pc EXCEPT ![w] = IF mode[current[w]] = "exchange" THEN "record" ELSE "fail"]
    /\ UNCHANGED <<mode, attempts, aged, batch, current, ticket, placed, booked, deleting>>

\* apply_fill_to_local_position and record_trade.
RecordFill(w) ==
    /\ pc[w] = "record"
    /\ booked' = [booked EXCEPT ![current[w]][ticket[w]] = @ + 1]
    /\ LeaveRow(w, current[w])
    /\ UNCHANGED <<mode, table, ticket, placed, deleting, faults>>

\* Best effort: an error is logged and the row stays as it is.
RecordFillFails(w) ==
    /\ pc[w] = "record" /\ faults < MaxFaults
    /\ faults' = faults + 1
    /\ LeaveRow(w, current[w])
    /\ UNCHANGED <<mode, table, ticket, placed, booked, deleting>>

MarkFailed(w) ==
    /\ pc[w] = "fail"
    /\ Mark(current[w], "failed")
    /\ LeaveRow(w, current[w])
    /\ UNCHANGED <<mode, attempts, aged, ticket, placed, booked, deleting, faults>>

\* _mark_failed raised, before its commit or after it: _tick's handler tries once
\* more or, when that raises too, the exception ends the tick and the rest of the
\* batch is dropped.
MarkFailedFails(w) ==
    /\ pc[w] = "fail" /\ faults < MaxFaults
    /\ faults' = faults + 1
    /\ UNCHANGED status \/ Mark(current[w], "failed")
    /\ pc' = [pc EXCEPT ![w] = "idle"]
    /\ batch' = [batch EXCEPT ![w] = {}]
    /\ current' = [current EXCEPT ![w] = NoOrder]
    /\ UNCHANGED <<mode, attempts, aged, ticket, placed, booked, deleting>>

Crash(w) ==
    /\ pc[w] # "down" /\ faults < MaxFaults
    /\ faults' = faults + 1
    /\ pc' = [pc EXCEPT ![w] = "down"]
    /\ batch' = [batch EXCEPT ![w] = {}]
    /\ current' = [current EXCEPT ![w] = NoOrder]
    /\ UNCHANGED <<mode, table, ticket, placed, booked, deleting>>

\* create_app starts the worker again.
Restart(w) ==
    /\ pc[w] = "down"
    /\ pc' = [pc EXCEPT ![w] = "idle"]
    /\ UNCHANGED <<mode, table, batch, current, ticket, placed, booked, deleting, faults>>

-----------------------------------------------------------------------------
\* What the worker thread does when nothing fails.
Work(w) ==
    \/ RequeueStale(w) \/ Select(w)
    \/ \E o \in Orders : Claim(w, o) \/ ClaimMisses(w, o)
    \/ Refuse(w) \/ Place(w) \/ MarkSent(w) \/ RecordFill(w) \/ MarkFailed(w)

Fault(w) ==
    \/ SelectFails(w) \/ MarkSentFails(w) \/ RecordFillFails(w) \/ MarkFailedFails(w)
    \/ \E o \in Orders : ClaimFails(w, o)
    \/ Crash(w)

Next ==
    \/ \E o \in Orders : Enqueue(o) \/ DeleteCheck(o) \/ DeleteCommit(o) \/ Age(o)
    \/ \E w \in Workers : Work(w) \/ Fault(w) \/ Restart(w)

Spec == Init /\ [][Next]_vars

\* The thread loops without ever blocking on another one, a supervisor
\* restarts a dead process, and time passes.
Fairness ==
    /\ \A w \in Workers : WF_vars(Work(w)) /\ WF_vars(Restart(w))
    /\ \A o \in Orders : WF_vars(Age(o))

FairSpec == Spec /\ Fairness

-----------------------------------------------------------------------------
(* Safety.                                                                 *)

\* The claim tests only the status, never the attempts: every path that makes
\* a row claimable again must have tested them.  No row is ever claimed more
\* than max_attempts times.
AttemptsBounded ==
    \A o \in Orders : /\ attempts[o] <= MaxAttempts
                      /\ status[o] = "pending" => attempts[o] < MaxAttempts
                      /\ status[o] = "absent" => attempts[o] = 0

\* One claim pays for at most one order on the exchange, and a fill is booked
\* at most once and only for an order the exchange took: whatever crashes,
\* requeues and stale batches do, a row cannot trade more than max_attempts
\* times and cannot be booked more often than it traded.
OneOrderPerClaim ==
    \A o \in Orders, t \in Attempts : /\ placed[o][t] <= 1
                                      /\ booked[o][t] <= placed[o][t]
                                      /\ t > attempts[o] => placed[o][t] = 0

\* "Only claim if still pending to avoid double-processing": two processes
\* never have the same row in hand.  Holds when no dispatch outlasts the
\* stale limit.
NoDoubleDispatch ==
    \A v, w \in Workers, o \in Orders : Working(v, o) /\ Working(w, o) => v = w

\* A row reported as sent was accepted by the outside under its last claim.
SentMeansPlaced ==
    \A o \in Orders : status[o] = "sent" => \E t \in Attempts : placed[o][t] = 1

\* The row says "sent" and the worker that wrote it does not know: the answer of
\* its _mark_sent was lost and it is on its way to _mark_failed.
InDoubt(o) == status[o] = "sent" /\ \E w \in Workers : pc[w] = "fail" /\ current[w] = o

\* A result, once written, is the result: no late requeue, claim or failure of
\* another process overwrites it, only the user's delete removes it.  The one
\* exception is a "sent" whose own writer, in the signal and broker flows, lost the
\* answer to a committed _mark_sent and goes on to _mark_failed.
FinalIsFinal ==
    [][\A o \in Orders : status[o] \in Final =>
          \/ status'[o] \in {status[o], "deleted"}
          \/ /\ InDoubt(o) /\ mode[o] # "exchange" /\ faults > 0
             /\ status'[o] = "failed"]_vars

(* Liveness.                                                               *)

\* "requeue stale processing rows to avoid deadlocks after crashes": every
\* queued order ends as sent or failed, or is deleted.
EveryOrderSettles ==
    \A o \in Orders : status[o] = "pending" ~> status[o] \in Final \cup {"deleted"}

(* Refinement.                                                             *)

Lifecycle == INSTANCE OrderLifecycle
             WITH state <- status, tries <- attempts,
                  doubted <- {o \in Orders : InDoubt(o)}

\* The table, seen without the processes that work on it, behaves as one
\* bounded-retry queue: two processes look like a single careful one.
ImplementsLifecycle == Lifecycle!Spec

(* Inductive invariants behind the safety properties (module               *)
(* OrderQueueProofs).                                                      *)

InHand(w) == pc[w] \in {"dispatch", "placed", "record", "fail"}

\* Every row in hand was claimed, and each claim has one holder.
ClaimsHeld ==
    /\ \A w \in Workers : InHand(w) => /\ current[w] \in Orders
                                       /\ ticket[w] \in 1..attempts[current[w]]
    /\ \A v, w \in Workers :
          InHand(v) /\ InHand(w) /\ v # w /\ current[v] = current[w] => ticket[v] # ticket[w]

\* What the holder of a claim knows of the outside.
ClaimsSpent ==
    \A w \in Workers :
        /\ pc[w] = "dispatch" => placed[current[w]][ticket[w]] = 0
        /\ pc[w] \in {"placed", "record"} => /\ placed[current[w]][ticket[w]] = 1
                                             /\ booked[current[w]][ticket[w]] = 0

\* A delete under way names a row that exists or existed.
DeletesNamed == \A o \in Orders : deleting[o] => status[o] # "absent"

ClaimInv ==
    /\ TypeOK /\ AttemptsBounded /\ ClaimsHeld /\ ClaimsSpent
    /\ OneOrderPerClaim /\ SentMeansPlaced /\ DeletesNamed

\* While dispatches are timely, a row in hand is fresh, unresolved until its
\* holder resolves it, and held once.  A holder that goes on with a row already
\* sent is about to record its fill, or did not see its _mark_sent succeed.
Unaware(w) == pc[w] = "fail" /\ mode[current[w]] # "exchange" /\ faults > 0

FreshInHand ==
    \A w \in Workers : InHand(w) =>
        /\ \/ status[current[w]] \in {"processing", "deleted"}
           \/ status[current[w]] = "sent" /\ (pc[w] = "record" \/ Unaware(w))
        /\ status[current[w]] = "processing" => ~aged[current[w]]

TimelyInv == ClaimInv /\ FreshInHand /\ NoDoubleDispatch

=============================================================================
