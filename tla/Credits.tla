------------------------------- MODULE Credits -------------------------------
(***************************************************************************)
(* Credits, memberships and indicator purchases: the rows of qd_users that *)
(* billing_service.py and community_service.py update, one request per     *)
(* web worker slot, over PostgreSQL at READ COMMITTED.                     *)
(*                                                                         *)
(* A charge reads the balance in one transaction and writes an absolute    *)
(* balance in a later one.  A membership purchase, and every look at a     *)
(* user's VIP status, first runs ALTER TABLE qd_users, whose ACCESS        *)
(* EXCLUSIVE lock lasts until the commit.  A purchase of an indicator      *)
(* updates buyer and seller in one transaction and reads both balances on  *)
(* a second connection, the seller's while it holds the buyer's row.       *)
(***************************************************************************)
EXTENDS Integers, FiniteSets

CONSTANTS
    Users,        \* rows of qd_users; each has one published indicator
    VipFree,      \* the users whose indicator is free to VIP members
    Asks,         \* the requests that may arrive: <<kind, user, other user>>
    Slots,        \* web workers, each serving one request at a time
    Cost,         \* credits of one AI analysis
    Price,        \* price of an indicator, in credits
    Bonus,        \* credits of a membership purchase and of a monthly grant
    Opening,      \* credits a user starts with
    Period,       \* clock ticks in the 30 days of a monthly grant
    CatchUp,      \* periods one grant makes up at most (6 in the code)
    MaxRequests,  \* bound: requests ever started
    MaxTicks,     \* bound: clock ticks
    MaxFaults     \* bound: failed reads and requests that die halfway

Kinds == {"consume", "add", "set", "monthly", "lifetime", "status",
          "grant_vip", "revoke_vip", "buy"}

ASSUME CreditsAssumption ==
    /\ Asks \subseteq Kinds \X Users \X Users
    /\ \A a \in Asks : (a[1] = "buy") = (a[2] # a[3])
    /\ Users # {} /\ Slots # {} /\ VipFree \subseteq Users
    /\ Cost \in Nat \ {0} /\ Price \in Nat \ {0} /\ Bonus \in Nat \ {0}
    /\ Opening \in Nat /\ Period \in Nat \ {0} /\ CatchUp \in Nat \ {0}
    /\ MaxRequests \in Nat /\ MaxTicks \in Nat /\ MaxFaults \in Nat

VARIABLES
    bal,       \* qd_users.credits, committed
    logged,    \* sum of the user's qd_credits_log amounts, and Opening
    life,      \* vip_is_lifetime
    vip,       \* vip_expires_at: "null", "past", "ahead" of now, a "century" away
    since,     \* ticks since vip_monthly_credits_last_grant, of lifetime members
    elapsed,   \* ticks since the lifetime plan was last bought (history)
    granted,   \* monthly grants paid since then (history)
    owned,     \* qd_indicator_purchases: <<buyer, seller>>
    charges,   \* paid purchases committed of each <<buyer, seller>> (history)
    raced,     \* users of whom a commit overlapped a read, or a read failed (history)
    req,       \* what each slot is doing
    requests, ticks, faults

vars == <<bal, logged, life, vip, since, elapsed, granted, owned, charges,
          raced, req, requests, ticks, faults>>

members == <<life, vip, since, elapsed, granted>>

\* A request in hand also has its kind, the user and the other user, the balances
\* of theirs it read (seen, sold), and the fee of the indicator to this buyer.
Idle == [step |-> "idle"]

At(s, step) == req[s].step = step

-----------------------------------------------------------------------------
(* The locks PostgreSQL keeps on qd_users                                  *)

\* Mutant: the schema is upgraded elsewhere and nothing holds the table.
ExclusiveNever(s) == FALSE

\* Mutant: the VIP status is read in the purchase's own transaction, which
\* keeps the lock while the balance is read on another connection.
ExclusiveUntilDebit(s) ==
    \/ req[s].step \in {"due", "pay"}
    \/ req[s].step \in {"check", "read"} /\ req[s].kind = "buy"

\* The ALTER TABLE of _ensure_membership_schema_best_effort is done and its
\* transaction is still open.
Exclusive(s) == req[s].step \in {"due", "pay"}

\* A purchase between its UPDATE of the buyer and its commit.
Updating(s) == req[s].step \in {"seller", "credit", "record"} /\ req[s].fee > 0

\* A new transaction may touch qd_users: a waiting ALTER TABLE blocks it too.
Free == \A t \in Slots : ~Exclusive(t) /\ ~At(t, "alter")

\* The rows a purchase in progress has updated.
RowsOf(t) ==
    IF ~Updating(t) THEN {}
    ELSE {req[t].user} \cup (IF At(t, "record") THEN {req[t].other} ELSE {})

RowFree(s, u) == \A t \in Slots \ {s} : u \notin RowsOf(t)

-----------------------------------------------------------------------------
Init ==
    /\ bal = [u \in Users |-> Opening]
    /\ logged = [u \in Users |-> Opening]
    /\ life = [u \in Users |-> FALSE]
    /\ vip = [u \in Users |-> "null"]
    /\ since = [u \in Users |-> 0]
    /\ elapsed = [u \in Users |-> 0]
    /\ granted = [u \in Users |-> 0]
    /\ owned = {}
    /\ charges = [p \in Users \X Users |-> 0]
    /\ raced = {}
    /\ req = [s \in Slots |-> Idle]
    /\ requests = 0 /\ ticks = 0 /\ faults = 0

Goto(s, step) == req' = [req EXCEPT ![s].step = step]
End(s) == req' = [req EXCEPT ![s] = Idle]

\* Requests whose read of u's balance is still to be written back.
Holding(s, u) ==
    \/ /\ At(s, "write") /\ req[s].user = u
       /\ req[s].kind \in {"consume", "add", "set", "buy"}
    \/ At(s, "credit") /\ req[s].other = u

\* A commit that changes the credits of the users in us.
Commits(s, us) ==
    raced' = raced \cup {u \in us : \E t \in Slots \ {s} : Holding(t, u)}

-----------------------------------------------------------------------------
(* One request                                                             *)

Begin(s, kind, u, v) ==
    /\ At(s, "idle") /\ requests < MaxRequests
    /\ requests' = requests + 1
    /\ req' = [req EXCEPT ![s] =
          [step |-> CASE kind \in {"monthly", "lifetime", "status", "buy"} -> "alter"
                      [] kind \in {"grant_vip", "revoke_vip"} -> "write"
                      [] OTHER -> "read",
           kind |-> kind, user |-> u, other |-> v,
           seen |-> 0, sold |-> 0, fee |-> 0]]
    /\ UNCHANGED <<bal, logged, members, owned, charges, raced, ticks, faults>>

\* ALTER TABLE is granted once no other transaction holds a lock on the table.
Alter(s) ==
    /\ At(s, "alter")
    /\ \A t \in Slots \ {s} : ~Exclusive(t) /\ ~Updating(t)
    /\ Goto(s, "due")
    /\ UNCHANGED <<bal, logged, members, owned, charges, raced, requests, ticks, faults>>

Periods(u) ==
    LET due == since[u] \div Period IN IF due > CatchUp THEN CatchUp ELSE due

\* _grant_lifetime_monthly_credits_best_effort skips users it owes nothing;
\* an expiry of NULL does not stop it.
Owed(u) == life[u] /\ vip[u] # "past" /\ Periods(u) > 0

AfterStatus(s) == IF req[s].kind = "buy" THEN Goto(s, "check") ELSE End(s)

\* Under the lock: read the row and decide what it is owed.
Due(s) ==
    LET u == req[s].user IN
    /\ At(s, "due")
    /\ IF req[s].kind \in {"monthly", "lifetime"} \/ Owed(u)
       THEN req' = [req EXCEPT ![s].step = "pay", ![s].seen = bal[u],
                               ![s].sold = Periods(u)]
       ELSE AfterStatus(s)
    /\ UNCHANGED <<bal, logged, members, owned, charges, raced, requests, ticks, faults>>

\* Write what was decided and commit: the purchase of a plan with its first
\* credits, or the monthly grants that fell due.
Pay(s) ==
    LET u == req[s].user
        buys == req[s].kind \in {"monthly", "lifetime"}
        amount == IF buys THEN Bonus ELSE Bonus * req[s].sold
    IN
    /\ At(s, "pay")
    /\ bal' = [bal EXCEPT ![u] = req[s].seen + amount]
    /\ logged' = [logged EXCEPT ![u] = @ + amount]
    /\ Commits(s, {u})
    /\ IF buys
       THEN /\ life' = [life EXCEPT ![u] = (req[s].kind = "lifetime")]
            /\ vip' = [vip EXCEPT ![u] =
                  IF req[s].kind = "lifetime" \/ @ = "century" THEN "century" ELSE "ahead"]
            /\ elapsed' = [elapsed EXCEPT ![u] = 0]
            /\ granted' = [granted EXCEPT ![u] = 0]
            /\ End(s)
       ELSE /\ granted' = [granted EXCEPT ![u] = @ + req[s].sold]
            /\ AfterStatus(s)
            /\ UNCHANGED <<life, vip, elapsed>>
    /\ since' = [since EXCEPT ![u] = 0]
    /\ UNCHANGED <<owned, charges, requests, ticks, faults>>

\* get_user_credits: the committed balance, or 0 when anything goes wrong.
Credits(u, x) ==
    \/ /\ Free /\ x = bal[u]
       /\ UNCHANGED <<raced, faults>>
    \/ /\ x = 0 /\ faults < MaxFaults
       /\ faults' = faults + 1
       /\ raced' = raced \cup {u}

\* check_and_consume, add_credits, set_credits and the buyer's balance.
Read(s) ==
    LET u == req[s].user
        least == CASE req[s].kind = "consume" -> Cost
                   [] req[s].kind = "buy" -> req[s].fee
                   [] OTHER -> 0
    IN
    /\ At(s, "read")
    /\ \E x \in 0..bal[u] :
          /\ Credits(u, x)
          /\ IF x < least THEN End(s)
             ELSE req' = [req EXCEPT ![s].step = "write", ![s].seen = x]
    /\ UNCHANGED <<bal, logged, members, owned, charges, requests, ticks>>

\* The second transaction of a charge: the balance, its log row, commit.
Book(s, u, balance, amount) ==
    /\ bal' = [bal EXCEPT ![u] = balance]
    /\ logged' = [logged EXCEPT ![u] = @ + amount]
    /\ Commits(s, {u})
    /\ End(s)

Consume(s) ==
    LET u == req[s].user IN
    /\ At(s, "write") /\ req[s].kind = "consume" /\ Free /\ RowFree(s, u)
    /\ Book(s, u, req[s].seen - Cost, -Cost)
    /\ UNCHANGED <<members, owned, charges, requests, ticks, faults>>

AddCredits(s) ==
    LET u == req[s].user IN
    /\ At(s, "write") /\ req[s].kind = "add" /\ Free /\ RowFree(s, u)
    /\ Book(s, u, req[s].seen + Cost, Cost)
    /\ UNCHANGED <<members, owned, charges, requests, ticks, faults>>

\* Mutant: the log takes the new balance for the change.
SetCreditsLogsAmount(s) ==
    LET u == req[s].user IN
    /\ At(s, "write") /\ req[s].kind = "set" /\ Free /\ RowFree(s, u)
    /\ Book(s, u, Opening, Opening)
    /\ UNCHANGED <<members, owned, charges, requests, ticks, faults>>

SetCredits(s) ==
    LET u == req[s].user IN
    /\ At(s, "write") /\ req[s].kind = "set" /\ Free /\ RowFree(s, u)
    /\ Book(s, u, Opening, Opening - req[s].seen)
    /\ UNCHANGED <<members, owned, charges, requests, ticks, faults>>

\* set_vip writes the expiry only: a lifetime flag stays.
SetVip(s) ==
    LET u == req[s].user IN
    /\ At(s, "write") /\ req[s].kind \in {"grant_vip", "revoke_vip"}
    /\ Free /\ RowFree(s, u)
    /\ vip' = [vip EXCEPT ![u] =
                  IF req[s].kind = "grant_vip" THEN "ahead" ELSE "null"]
    /\ End(s)
    /\ UNCHANGED <<bal, logged, life, since, elapsed, granted, owned, charges,
                   raced, requests, ticks, faults>>

-----------------------------------------------------------------------------
(* purchase_indicator after the VIP status                                 *)

\* The answer of get_user_vip_status: an error counts as no membership.
IsVip(u, isVip) ==
    \/ /\ Free /\ isVip = (vip[u] \in {"ahead", "century"})
       /\ UNCHANGED faults
    \/ /\ ~isVip /\ faults < MaxFaults
       /\ faults' = faults + 1

Check(s) ==
    LET u == req[s].user   v == req[s].other IN
    /\ At(s, "check")
    /\ \E isVip \in BOOLEAN :
          /\ IsVip(u, isVip)
          /\ LET fee == IF v \in VipFree /\ isVip THEN 0 ELSE Price IN
             IF <<u, v>> \in owned THEN End(s)
             ELSE req' = [req EXCEPT ![s].fee = fee,
                                     ![s].step = IF fee = 0 THEN "record" ELSE "read"]
    /\ UNCHANGED <<bal, logged, members, owned, charges, raced, requests, ticks>>

\* UPDATE of the buyer; the transaction stays open.
Debit(s) ==
    /\ At(s, "write") /\ req[s].kind = "buy"
    /\ Free /\ RowFree(s, req[s].user)
    /\ Goto(s, "seller")
    /\ UNCHANGED <<bal, logged, members, owned, charges, raced, requests, ticks, faults>>

\* The seller's balance, read on another connection.
ReadSeller(s) ==
    LET v == req[s].other IN
    /\ At(s, "seller")
    /\ \E x \in 0..bal[v] :
          /\ Credits(v, x)
          /\ req' = [req EXCEPT ![s].step = "credit", ![s].sold = x]
    /\ UNCHANGED <<bal, logged, members, owned, charges, requests, ticks>>

\* UPDATE of the seller, behind whoever holds the row.
Credit(s) ==
    /\ At(s, "credit") /\ RowFree(s, req[s].other)
    /\ Goto(s, "record")
    /\ UNCHANGED <<bal, logged, members, owned, charges, raced, requests, ticks, faults>>

\* Mutant: no unique key.
UniqueNever(p) == TRUE

\* UNIQUE(indicator_id, buyer_id) of qd_indicator_purchases.
Unique(p) == p \notin owned

\* INSERT of the purchase, the buyer's copy and the commit; a duplicate rolls
\* everything back.
Record(s) ==
    LET u == req[s].user   v == req[s].other   fee == req[s].fee IN
    /\ At(s, "record") /\ (fee = 0 => Free)
    /\ IF ~Unique(<<u, v>>)
       THEN UNCHANGED <<bal, logged, owned, charges, raced>>
       ELSE /\ owned' = owned \cup {<<u, v>>}
            /\ IF fee = 0 THEN UNCHANGED <<bal, logged, charges, raced>>
               ELSE /\ bal' = [bal EXCEPT ![u] = req[s].seen - fee,
                                          ![v] = req[s].sold + fee]
                    /\ logged' = [logged EXCEPT ![u] = @ - fee, ![v] = @ + fee]
                    /\ charges' = [charges EXCEPT ![<<u, v>>] = @ + 1]
                    /\ Commits(s, {u, v})
    /\ End(s)
    /\ UNCHANGED <<members, requests, ticks, faults>>

\* Two purchases wait for each other's row: PostgreSQL aborts one of them.
RowDeadlock(s) ==
    /\ At(s, "credit")
    /\ \E t \in Slots \ {s} : /\ At(t, "credit")
                              /\ req[t].other \in RowsOf(s)
                              /\ req[s].other \in RowsOf(t)
    /\ End(s)
    /\ UNCHANGED <<bal, logged, members, owned, charges, raced, requests, ticks, faults>>

-----------------------------------------------------------------------------
\* A statement fails or the worker dies: the open transaction rolls back.
Die(s) ==
    /\ ~At(s, "idle") /\ faults < MaxFaults
    /\ faults' = faults + 1
    /\ End(s)
    /\ UNCHANGED <<bal, logged, members, owned, charges, raced, requests, ticks>>

\* Time passes; an expiry that is not a century away may pass with it.
Tick ==
    /\ ticks < MaxTicks
    /\ ticks' = ticks + 1
    /\ since' = [u \in Users |-> IF life[u] THEN since[u] + 1 ELSE 0]
    /\ elapsed' = [u \in Users |-> IF life[u] THEN elapsed[u] + 1 ELSE 0]
    /\ \E out \in SUBSET {u \in Users : vip[u] = "ahead"} :
          vip' = [u \in Users |-> IF u \in out THEN "past" ELSE vip[u]]
    /\ UNCHANGED <<bal, logged, life, granted, owned, charges, raced, req,
                   requests, faults>>

Advance(s) ==
    \/ Alter(s) \/ Due(s) \/ Pay(s) \/ Read(s)
    \/ Consume(s) \/ AddCredits(s) \/ SetCredits(s) \/ SetVip(s)
    \/ Check(s) \/ Debit(s) \/ ReadSeller(s) \/ Credit(s) \/ Record(s)
    \/ RowDeadlock(s)

Next ==
    \/ \E s \in Slots, ask \in Asks : Begin(s, ask[1], ask[2], ask[3])
    \/ \E s \in Slots : Advance(s) \/ Die(s)
    \/ Tick

Spec == Init /\ [][Next]_vars
FairSpec == Spec /\ \A s \in Slots : WF_vars(Advance(s))

-----------------------------------------------------------------------------
(* Properties                                                              *)

\* The log of a user adds up to the balance, except for users of whom a
\* commit fell between the read and the write of another request, or of whom
\* a read failed and counted as 0: memberships and monthly grants are never
\* the cause, and a purchase moves what it takes, all of it or nothing.
LogExplainsBalance == \A u \in Users \ raced : bal[u] = logged[u]

\* However many pages look at a member's status at once, no more monthly
\* grants are paid than 30-day periods have passed since the plan was bought.
GrantsNotEarly == \A u \in Users : life[u] => granted[u] * Period <= elapsed[u]

\* Two purchases of the same indicator by the same user, both past the check
\* for an earlier purchase, charge once.
ChargedOnce == \A p \in Users \X Users : charges[p] <= 1

\* A purchase waits on its second connection behind an ALTER TABLE that waits
\* for the purchase itself: PostgreSQL sees no cycle and no timeout is set.
Entangled ==
    \E s, t \in Slots : s # t /\ At(s, "seller") /\ At(t, "alter")

\* Every request ends, unless a purchase and a look at a VIP status, or a
\* membership purchase, wait for each other.
RequestsEnd == \A s \in Slots : ~At(s, "idle") ~> (At(s, "idle") \/ Entangled)
=============================================================================
