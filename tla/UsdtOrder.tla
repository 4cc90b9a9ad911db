------------------------------ MODULE UsdtOrder ------------------------------
(***************************************************************************)
(* USDT orders for memberships (usdt_payment_service.py): created with an  *)
(* address of their own, looked up on the chain by the background worker   *)
(* and by the user's polls, confirmed after a delay and then activated.    *)
(*                                                                         *)
(* A refresh works on a row read earlier, asks TronGrid outside of any     *)
(* transaction and writes in short ones; the worker reads its rows in one  *)
(* batch.  Times are ages: an order is due once expires_at has passed, a   *)
(* transfer and a payment are old once the confirmation delay has passed.  *)
(* A transfer is one that pays the whole amount.                           *)
(***************************************************************************)
EXTENDS Integers, Sequences, FiniteSets

CONSTANTS
    Orders,      \* requests for an order
    Polled,      \* the orders a user looks at after creating them
    BatchLimit,  \* rows the worker reads in one scan (LIMIT 100)
    MaxFaults    \* bound on failing queries, writes and activations and on restarts

ASSUME OrderBounds == IsFiniteSet(Orders) /\ Polled \subseteq Orders /\ BatchLimit \in Nat \ {0} /\ MaxFaults \in Nat

Refreshers == {"worker", "user"}
Created == {"pending", "paid", "confirmed", "expired"}
Addresses == 0..(Cardinality(Orders) - 1)

VARIABLES
    status,    \* the order's status; "requested" and "numbered" precede the insert
    index,     \* its address_index
    due,       \* expires_at has passed
    transfer,  \* by address: age of the transfer on the chain
    shown,     \* by address: the transfer is confirmed, and answers show it
    paid,      \* by order: age of paid_at
    batch,     \* rows the worker has still to refresh
    at,        \* by refresher: its step
    row,       \* by refresher: the order, the status it read, and what was due and
               \* old when it started
    activated, \* memberships activated for the order
    faults

\* History: the transfer was confirmed before the order was due; two confirmations of the
\* order overlapped.
VARIABLES intime, overlapped

vars == <<status, index, due, transfer, shown, paid, batch, at, row, activated, faults,
          intime, overlapped>>

NoWork == [order |-> "none", status |-> "none", due |-> FALSE, old |-> FALSE]

Init ==
    /\ status = [o \in Orders |-> "requested"] /\ index = [o \in Orders |-> 0]
    /\ due = [o \in Orders |-> FALSE]
    /\ transfer = [a \in Addresses |-> "none"] /\ shown = [a \in Addresses |-> FALSE]
    /\ paid = [o \in Orders |-> "none"]
    /\ batch = <<>>
    /\ at = [r \in Refreshers |-> "idle"] /\ row = [r \in Refreshers |-> NoWork]
    /\ activated = [o \in Orders |-> 0] /\ faults = 0
    /\ intime = [o \in Orders |-> FALSE] /\ overlapped = [o \in Orders |-> FALSE]

Fault == faults < MaxFaults /\ faults' = faults + 1

Taken == {index[o] : o \in {p \in Orders : status[p] \in Created}}

-----------------------------------------------------------------------------
(* Creation.                                                               *)

\* The next index follows the highest one in the table.
Number(o) ==
    /\ status[o] = "requested"
    /\ index' = [index EXCEPT ![o] = Cardinality(Taken)]
    /\ status' = [status EXCEPT ![o] = "numbered"]
    /\ UNCHANGED <<due, transfer, shown, paid, batch, at, row, activated, faults, intime,
                   overlapped>>

\* Mutant: addresses are not unique.
InsertAnyway(o) ==
    /\ status[o] = "numbered"
    /\ status' = [status EXCEPT ![o] = "pending"]
    /\ UNCHANGED <<index, due, transfer, shown, paid, batch, at, row, activated, faults,
                   intime, overlapped>>

\* The address of an order is unique: a request that read the same highest index as
\* another fails and is not tried again.
Insert(o) ==
    /\ status[o] = "numbered"
    /\ status' = [status EXCEPT ![o] = IF index[o] \in Taken THEN "refused" ELSE "pending"]
    /\ UNCHANGED <<index, due, transfer, shown, paid, batch, at, row, activated, faults,
                   intime, overlapped>>

-----------------------------------------------------------------------------
(* Refreshing.                                                             *)

Goto(r, step) == at' = [at EXCEPT ![r] = step] /\ UNCHANGED row

Done(r) == at' = [at EXCEPT ![r] = "idle"] /\ row' = [row EXCEPT ![r] = NoWork]

\* Mutant: a payment is confirmed at once.
ReadyAtOnce(o) == TRUE

Ready(o) == paid[o] = "old"

\* A paid order waits for its delay; a pending or an expired one is looked up.
Begin(r, o, read) ==
    IF read = "confirmed" \/ (read = "paid" /\ ~Ready(o))
    THEN UNCHANGED <<at, row>>
    ELSE /\ at' = [at EXCEPT ![r] = IF read = "paid" THEN "check" ELSE "chain"]
         /\ row' = [row EXCEPT ![r] = [order |-> o, status |-> read, due |-> due[o],
                                       old |-> transfer[index[o]] = "old"]]

Older(o, p) == index[o] < index[p]

\* A sequence of the oldest of some orders, as many as one scan reads.
OldestOf(open) ==
    {s \in UNION {[1..n -> open] : n \in 1..BatchLimit} :
        /\ \A i, j \in DOMAIN s : i < j => Older(s[i], s[j])
        /\ \A o \in open : \/ \E i \in DOMAIN s : s[i] = o
                           \/ BatchLimit \in DOMAIN s /\ Older(s[BatchLimit], o)}

Reads(o) == [order |-> o, status |-> status[o]]

\* Mutant: a scan reads pending orders only.
ScanPending ==
    /\ at["worker"] = "idle" /\ batch = <<>>
    /\ \E s \in OldestOf({o \in Orders : status[o] = "pending"}) :
          batch' = [i \in DOMAIN s |-> Reads(s[i])]
    /\ UNCHANGED <<status, index, due, transfer, shown, paid, at, row, activated, faults,
                   intime, overlapped>>

\* The worker reads the oldest pending and paid rows.
Scan ==
    /\ at["worker"] = "idle" /\ batch = <<>>
    /\ \E s \in OldestOf({o \in Orders : status[o] \in {"pending", "paid"}}) :
          batch' = [i \in DOMAIN s |-> Reads(s[i])]
    /\ UNCHANGED <<status, index, due, transfer, shown, paid, at, row, activated, faults,
                   intime, overlapped>>

NextRow ==
    /\ at["worker"] = "idle" /\ batch # <<>>
    /\ Begin("worker", Head(batch).order, Head(batch).status)
    /\ batch' = Tail(batch)
    /\ UNCHANGED <<status, index, due, transfer, shown, paid, activated, faults, intime,
                   overlapped>>

\* get_order of the user, whatever the order's status.
Poll(o) ==
    /\ o \in Polled /\ at["user"] = "idle" /\ status[o] \in Created
    /\ Begin("user", o, status[o])
    /\ UNCHANGED <<status, index, due, transfer, shown, paid, batch, activated, faults,
                   intime, overlapped>>

\* Mutant: an order expires as soon as no transfer is found.
UnpaidAtOnce(r) == row[r].status = "pending"

\* Without a match a pending order that was due when the refresh began expires.
Unpaid(r) == row[r].status = "pending" /\ row[r].due

\* TronGrid is asked for confirmed transfers only; an error reads as no match.
AskChain(r) ==
    /\ at[r] = "chain"
    /\ \/ /\ shown[index[row[r].order]]
          /\ Goto(r, "markpaid") /\ UNCHANGED faults
       \/ /\ IF shown[index[row[r].order]] THEN Fault ELSE UNCHANGED faults
          /\ IF Unpaid(r) THEN Goto(r, "expire") ELSE Done(r)
    /\ UNCHANGED <<status, index, due, transfer, shown, paid, batch, activated, intime,
                   overlapped>>

\* Marking an order paid; it goes on to be confirmed if the transfer was old enough.
MarkPaid(r) ==
    /\ at[r] = "markpaid"
    /\ LET o == row[r].order
       IN  \/ /\ IF status[o] \in {"pending", "expired"}
                 THEN /\ status' = [status EXCEPT ![o] = "paid"]
                      /\ paid' = [paid EXCEPT ![o] = "fresh"]
                 ELSE UNCHANGED <<status, paid>>
              /\ IF row[r].old THEN Goto(r, "check") ELSE Done(r)
              /\ UNCHANGED faults
           \/ Fault /\ Done(r) /\ UNCHANGED <<status, paid>>
    /\ UNCHANGED <<index, due, transfer, shown, batch, activated, intime, overlapped>>

\* Mutant: the order expires whatever its status has become.
MarkExpiredAnyway(r) ==
    /\ at[r] = "expire"
    /\ status' = [status EXCEPT ![row[r].order] = "expired"]
    /\ Done(r)
    /\ UNCHANGED <<index, due, transfer, shown, paid, batch, activated, faults, intime,
                   overlapped>>

MarkExpired(r) ==
    /\ at[r] = "expire"
    /\ \/ /\ status' = [status EXCEPT ![row[r].order] = IF @ = "pending" THEN "expired" ELSE @]
          /\ UNCHANGED faults
       \/ Fault /\ UNCHANGED status
    /\ Done(r)
    /\ UNCHANGED <<index, due, transfer, shown, paid, batch, activated, intime, overlapped>>

\* Mutant: the status is not read again.
CheckNothing(r) ==
    /\ at[r] = "check"
    /\ Goto(r, "confirm")
    /\ UNCHANGED <<status, index, due, transfer, shown, paid, batch, activated, faults,
                   intime, overlapped>>

\* The confirming transaction reads the status ...
Check(r) ==
    /\ at[r] = "check"
    /\ IF status[row[r].order] = "confirmed" THEN Done(r) ELSE Goto(r, "confirm")
    /\ UNCHANGED <<status, index, due, transfer, shown, paid, batch, activated, faults,
                   intime, overlapped>>

\* ... and then updates it.  The activation follows whether or not the update matched.
Confirm(r) ==
    /\ at[r] = "confirm"
    /\ LET o == row[r].order
       IN  \/ /\ status' = [status EXCEPT ![o] = IF @ \in {"paid", "pending"} THEN "confirmed" ELSE @]
              /\ overlapped' = [overlapped EXCEPT ![o] = @ \/ \E q \in Refreshers \ {r} :
                                    row[q].order = o /\ at[q] = "confirm"]
              /\ Goto(r, "activate")
              /\ UNCHANGED faults
           \/ Fault /\ Done(r) /\ UNCHANGED <<status, overlapped>>
    /\ UNCHANGED <<index, due, transfer, shown, paid, batch, activated, intime>>

\* purchase_membership in a transaction of its own; its failure is only logged.
Activate(r) ==
    /\ at[r] = "activate"
    /\ \/ activated' = [activated EXCEPT ![row[r].order] = @ + 1] /\ UNCHANGED faults
       \/ Fault /\ UNCHANGED activated
    /\ Done(r)
    /\ UNCHANGED <<status, index, due, transfer, shown, paid, batch, intime, overlapped>>

-----------------------------------------------------------------------------
(* The environment.                                                        *)

Transfer(o) ==
    /\ status[o] \in Created /\ transfer[index[o]] = "none"
    /\ transfer' = [transfer EXCEPT ![index[o]] = "fresh"]
    /\ UNCHANGED <<status, index, due, shown, paid, batch, at, row, activated, faults,
                   intime, overlapped>>

\* The chain confirms a transfer, before or after the service's own delay has passed.
TransferShows(o) ==
    /\ status[o] \in Created /\ transfer[index[o]] # "none" /\ ~shown[index[o]]
    /\ shown' = [shown EXCEPT ![index[o]] = TRUE]
    /\ intime' = [intime EXCEPT ![o] = ~due[o]]
    /\ UNCHANGED <<status, index, due, transfer, paid, batch, at, row, activated, faults,
                   overlapped>>

ComesDue(o) ==
    /\ status[o] \in Created /\ ~due[o]
    /\ due' = [due EXCEPT ![o] = TRUE]
    /\ UNCHANGED <<status, index, transfer, shown, paid, batch, at, row, activated,
                   faults, intime, overlapped>>

TransferAges(a) ==
    /\ transfer[a] = "fresh"
    /\ transfer' = [transfer EXCEPT ![a] = "old"]
    /\ UNCHANGED <<status, index, due, shown, paid, batch, at, row, activated, faults,
                   intime, overlapped>>

PaymentAges(o) ==
    /\ paid[o] = "fresh" /\ transfer[index[o]] = "old"
    /\ paid' = [paid EXCEPT ![o] = "old"]
    /\ UNCHANGED <<status, index, due, transfer, shown, batch, at, row, activated,
                   faults, intime, overlapped>>

\* The process restarts: what it was doing is forgotten.
Restart ==
    /\ Fault
    /\ batch' = <<>>
    /\ at' = [r \in Refreshers |-> "idle"] /\ row' = [r \in Refreshers |-> NoWork]
    /\ UNCHANGED <<status, index, due, transfer, shown, paid, activated, intime,
                   overlapped>>

Step(r) ==
    AskChain(r) \/ MarkPaid(r) \/ MarkExpired(r) \/ Check(r) \/ Confirm(r) \/ Activate(r)

Time == \/ \E o \in Orders : ComesDue(o) \/ PaymentAges(o) \/ TransferShows(o)
        \/ \E a \in Addresses : TransferAges(a)

Next ==
    \/ \E o \in Orders : Number(o) \/ Insert(o) \/ Poll(o) \/ Transfer(o)
    \/ Scan \/ NextRow \/ Restart \/ Time
    \/ \E r \in Refreshers : Step(r)

\* The worker polls for ever, requests that began are finished, and time passes.
Spec ==
    /\ Init /\ [][Next]_vars
    /\ WF_vars(Scan \/ NextRow) /\ \A r \in Refreshers : WF_vars(Step(r))
    /\ WF_vars(Time)

-----------------------------------------------------------------------------
(* Properties.                                                             *)

\* A paid order is backed by a confirmed transfer to its address, which no other order
\* has; a confirmed order by a transfer that is old enough.
PaidIsBacked ==
    \A o \in Orders :
        /\ status[o] \in {"paid", "confirmed"} => shown[index[o]]
        /\ status[o] = "confirmed" => transfer[index[o]] = "old"
        /\ status[o] \in Created =>
              \A p \in Orders \ {o} : status[p] \in Created => index[p] # index[o]

\* A second membership for one payment takes two confirmations that both read the
\* status before either wrote it: stale batches and repeated polls alone do not
\* activate twice.  (The docstring calls the confirmation idempotent.)
TwiceOnlyByOverlap == \A o \in Orders : activated[o] > 1 => overlapped[o]

\* Being paid is never lost: no refresh with an older row expires the order.
PaymentSticks ==
    [][\A o \in Orders :
        /\ status[o] = "paid" => status'[o] \in {"paid", "confirmed"}
        /\ status[o] = "confirmed" => status'[o] = "confirmed"]_vars

\* Every order settles by the worker alone: an unpaid one expires and, as a payment
\* sticks, a paid one is confirmed, also behind a batch that others fill.
Settles ==
    \A o \in Orders : status[o] \in {"pending", "paid"} ~> status[o] \in {"confirmed", "expired"}

\* A transfer that the chain confirms in time is honoured by the worker alone, if
\* nothing fails.  (Made in time is not enough: README, section 14.)
HonouredUnlessFaults ==
    \A o \in Orders : <>[](faults = 0) => (intime[o] ~> activated[o] > 0)

=============================================================================
