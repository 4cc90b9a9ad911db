---------------------------- MODULE CreditsProofs ----------------------------
(***************************************************************************)
(* Proofs about Credits for any users, web workers, prices, periods and    *)
(* numbers of requests, ticks and faults.                                  *)
(***************************************************************************)
EXTENDS Credits, TLAPS

BusySteps == {"alter", "due", "pay", "check", "read", "write", "seller", "credit", "record"}
BusyRequests == [step : BusySteps, kind : Kinds, user : Users, other : Users,
                 seen : Int, sold : Int, fee : Nat]
Plans == {"monthly", "lifetime"}
Charging == {"consume", "add", "set", "buy"}
Busy(s) == ~At(s, "idle")

TypeOK ==
    /\ bal \in [Users -> Int] /\ logged \in [Users -> Int]
    /\ life \in [Users -> BOOLEAN] /\ vip \in [Users -> {"null", "past", "ahead", "century"}]
    /\ since \in [Users -> Nat] /\ elapsed \in [Users -> Nat] /\ granted \in [Users -> Nat]
    /\ owned \subseteq Users \X Users /\ charges \in [Users \X Users -> Nat]
    /\ raced \subseteq Users
    /\ req \in [Slots -> BusyRequests \cup {Idle}]

\* The steps of each kind of request.
Kind(s) ==
    /\ req[s].step \in {"alter", "due", "pay"} => req[s].kind \in Plans \cup {"status", "buy"}
    /\ req[s].step \in {"check", "seller", "credit", "record"} => req[s].kind = "buy"
    /\ req[s].step \in {"read", "write"} =>
          req[s].kind \in Charging \cup {"grant_vip", "revoke_vip"}
    /\ req[s].kind = "buy" =>
          /\ req[s].user # req[s].other
          /\ req[s].step \in {"read", "write", "seller", "credit"} => req[s].fee > 0
KindInv == \A s \in Slots : Busy(s) => Kind(s)

\* The ALTER TABLE excludes other upgrades and purchases in progress, and a row is
\* updated by one of them at most.
Apart(s, t) ==
    /\ ~(Exclusive(s) /\ Exclusive(t))
    /\ ~(Exclusive(s) /\ Updating(t)) /\ ~(Exclusive(t) /\ Updating(s))
    /\ RowsOf(s) \cap RowsOf(t) = {}
LockInv == \A s, t \in Slots : s # t => Apart(s, t)

\* Nothing changes under the lock that a grant is decided on.
Paying(s) ==
    /\ req[s].seen = bal[req[s].user]
    /\ req[s].kind \notin Plans =>
          /\ life[req[s].user] /\ req[s].sold \in Nat
          /\ req[s].sold * Period <= since[req[s].user]
PayInv == \A s \in Slots : At(s, "pay") => Paying(s)

\* What a request has read of a balance nobody else changed is still the balance.
BuyerRead(s) == \/ At(s, "write") /\ req[s].kind \in Charging
                \/ Updating(s)
SellerRead(s) == At(s, "credit") \/ (At(s, "record") /\ req[s].fee > 0)
Seen(s) ==
    /\ BuyerRead(s) => req[s].user \in raced \/ req[s].seen = bal[req[s].user]
    /\ SellerRead(s) => req[s].other \in raced \/ req[s].sold = bal[req[s].other]
SeenInv == \A s \in Slots : Seen(s)

\* The ticks since the last grant are not granted yet.
GrantInv == \A u \in Users : life[u] => granted[u] * Period + since[u] <= elapsed[u]

\* Only what is owned was charged for.
ChargeInv == \A p \in Users \X Users : charges[p] <= 1 /\ (charges[p] > 0 => p \in owned)

IInv == /\ TypeOK /\ KindInv /\ LockInv /\ PayInv
        /\ SeenInv /\ LogExplainsBalance /\ GrantInv /\ ChargeInv

-----------------------------------------------------------------------------
(* Requests *)

RequestTypes == req' \in [Slots -> BusyRequests \cup {Idle}]
Rest(s) == \A t \in Slots \ {s} : req'[t] = req[t]
Moves(s) == RequestTypes /\ Rest(s)
SameAsked(s) == /\ req'[s].kind = req[s].kind /\ req'[s].user = req[s].user
                /\ req'[s].other = req[s].other
SameSeen(s) == req'[s].seen = req[s].seen /\ req'[s].sold = req[s].sold
SameFee(s) == req'[s].fee = req[s].fee

\* A request in hand has its fields.
LEMMA BusyIs ==
    ASSUME TypeOK, NEW s \in Slots, Busy(s)
    PROVE  /\ req[s] \in BusyRequests
           /\ req[s].step \in BusySteps /\ req[s].kind \in Kinds
           /\ req[s].user \in Users /\ req[s].other \in Users
           /\ req[s].seen \in Int /\ req[s].sold \in Int /\ req[s].fee \in Nat
<1>1. req[s] \in BusyRequests
  BY DEF TypeOK, Busy, At, Idle
<1>2. QED
  BY <1>1 DEF BusyRequests

\* The end of a request.
LEMMA EndIs ==
    ASSUME TypeOK, NEW s \in Slots, End(s)
    PROVE  Moves(s) /\ ~Busy(s)' /\ At(s, "idle")'
<1>1. req' \in [Slots -> BusyRequests \cup {Idle}] /\ req'[s] = Idle /\ Rest(s)
  BY DEF End, TypeOK, Rest
<1>2. QED
  BY <1>1 DEF Moves, RequestTypes, Busy, At, Idle

\* A request goes on.
LEMMA GotoIs ==
    ASSUME TypeOK, NEW s \in Slots, Busy(s), NEW x \in BusySteps, Goto(s, x)
    PROVE  /\ Moves(s) /\ Busy(s)' /\ req'[s].step = x
           /\ SameAsked(s) /\ SameSeen(s) /\ SameFee(s)
<1>1. req[s] \in BusyRequests
  BY BusyIs
<1>2. req' = [req EXCEPT ![s].step = x] /\ req \in [Slots -> BusyRequests \cup {Idle}]
  BY DEF Goto, TypeOK
<1>3. req'[s] = [req[s] EXCEPT !.step = x] /\ Rest(s) /\ DOMAIN req' = Slots
  BY <1>2 DEF Rest
<1>4. /\ req'[s].step = x /\ SameAsked(s) /\ SameSeen(s) /\ SameFee(s)
      /\ req'[s] \in BusyRequests
  BY <1>1, <1>3 DEF BusyRequests, SameAsked, SameSeen, SameFee
<1>5. RequestTypes
  BY <1>2, <1>4 DEF RequestTypes
<1>6. QED
  BY <1>3, <1>4, <1>5 DEF Moves, Busy, At, BusySteps

\* An upgrade that has done its work.
LEMMA AfterStatusIs ==
    ASSUME TypeOK, NEW s \in Slots, Busy(s), AfterStatus(s)
    PROVE  /\ Moves(s)
           /\ \/ At(s, "idle")'
              \/ At(s, "check")' /\ SameAsked(s) /\ req[s].kind = "buy"
<1>1. "check" \in BusySteps
  BY DEF BusySteps
<1>2. QED
  BY <1>1, GotoIs, EndIs DEF AfterStatus, At

\* A request begins.
LEMMA BeginIs ==
    ASSUME TypeOK, NEW s \in Slots, NEW ask \in Asks, Begin(s, ask[1], ask[2], ask[3])
    PROVE  /\ Moves(s) /\ Busy(s)'
           /\ req'[s].step \in {"alter", "read", "write"} /\ Kind(s)'
           /\ At(s, "write")' => req'[s].kind \in {"grant_vip", "revoke_vip"}
<1> DEFINE kind == ask[1]
           x == CASE kind \in {"monthly", "lifetime", "status", "buy"} -> "alter"
                  [] kind \in {"grant_vip", "revoke_vip"} -> "write"
                  [] OTHER -> "read"
           new == [step |-> x, kind |-> kind, user |-> ask[2], other |-> ask[3],
                   seen |-> 0, sold |-> 0, fee |-> 0]
<1>1. /\ kind \in Kinds /\ ask[2] \in Users /\ ask[3] \in Users
      /\ kind = "buy" => ask[2] # ask[3]
  BY CreditsAssumption
<1>2. /\ x \in {"alter", "read", "write"}
      /\ x = "alter" => kind \in Plans \cup {"status", "buy"}
      /\ x = "write" => kind \in {"grant_vip", "revoke_vip"}
      /\ x = "read" => kind \in Charging \ {"buy"}
  BY <1>1 DEF Kinds, Plans, Charging
<1>3. req' = [req EXCEPT ![s] = new]
  BY DEF Begin
<1> HIDE DEF x
<1>4. /\ new \in BusyRequests /\ new.step = x /\ new.kind = kind
      /\ new.user = ask[2] /\ new.other = ask[3]
  BY <1>1, <1>2 DEF BusyRequests, BusySteps
<1> HIDE DEF new, kind
<1>5. req'[s] = new /\ Moves(s)
  BY <1>3, <1>4 DEF TypeOK, Moves, RequestTypes, Rest
<1>6. QED
  BY <1>1, <1>2, <1>4, <1>5 DEF Kind, Busy, At, Plans, Charging

\* What is due is read under the lock.
LEMMA DueIs ==
    ASSUME TypeOK, NEW s \in Slots, Due(s)
    PROVE  /\ At(s, "due") /\ Moves(s)
           /\ \/ /\ At(s, "pay")' /\ SameAsked(s) /\ req'[s].fee = req[s].fee
                 /\ req'[s].seen = bal[req[s].user] /\ req'[s].sold = Periods(req[s].user)
                 /\ req[s].kind \in Plans \/ Owed(req[s].user)
              \/ At(s, "idle")'
              \/ At(s, "check")' /\ SameAsked(s) /\ req[s].kind = "buy"
<1>1. At(s, "due") /\ Busy(s)
  BY DEF Due, Busy, At
<1>2. CASE AfterStatus(s)
  BY <1>1, <1>2, AfterStatusIs
<1>3. CASE /\ req' = [req EXCEPT ![s].step = "pay", ![s].seen = bal[req[s].user],
                                 ![s].sold = Periods(req[s].user)]
           /\ req[s].kind \in Plans \/ Owed(req[s].user)
  <2> DEFINE b == bal[req[s].user]
             n == Periods(req[s].user)
  <2>1. req[s] \in BusyRequests /\ req[s].user \in Users
    BY <1>1, BusyIs
  <2>2. b \in Int /\ since[req[s].user] \in Nat
    BY <2>1 DEF TypeOK
  <2>3. n \in Int
    BY <2>2, CreditsAssumption DEF Periods
  <2> HIDE DEF b, n
  <2>4. req' = [req EXCEPT ![s] = [req[s] EXCEPT !.step = "pay", !.seen = b, !.sold = n]]
    BY <1>3 DEF b, n
  <2>5. /\ [req[s] EXCEPT !.step = "pay", !.seen = b, !.sold = n] \in BusyRequests
        /\ req'[s] = [req[s] EXCEPT !.step = "pay", !.seen = b, !.sold = n]
    BY <2>1, <2>2, <2>3, <2>4 DEF BusyRequests, BusySteps, TypeOK
  <2>6. Moves(s)
    BY <2>4, <2>5 DEF Moves, RequestTypes, Rest, TypeOK
  <2>7. /\ At(s, "pay")' /\ SameAsked(s) /\ req'[s].fee = req[s].fee
        /\ req'[s].seen = b /\ req'[s].sold = n
    BY <2>1, <2>5 DEF BusyRequests, SameAsked, At
  <2>8. QED
    BY <1>1, <1>3, <2>6, <2>7 DEF b, n
<1>4. QED
  BY <1>2, <1>3 DEF Due, Plans

\* A balance is read, or counts as 0.
LEMMA ReadIs ==
    ASSUME TypeOK, NEW s \in Slots, Read(s)
    PROVE  /\ At(s, "read") /\ Moves(s)
           /\ raced \subseteq raced' /\ raced' \subseteq raced \cup {req[s].user}
           /\ \/ At(s, "idle")'
              \/ /\ At(s, "write")' /\ SameAsked(s) /\ SameFee(s)
                 /\ req[s].user \in raced' \/ req'[s].seen = bal[req[s].user]
<1>1. At(s, "read") /\ Busy(s) /\ req[s] \in BusyRequests /\ req[s].user \in Users
  BY BusyIs DEF Read, Busy, At
<1>2. PICK x \in 0..bal[req[s].user] :
        /\ Credits(req[s].user, x)
        /\ End(s) \/ req' = [req EXCEPT ![s].step = "write", ![s].seen = x]
  BY DEF Read
<1>3. x \in Int
  BY <1>1 DEF TypeOK
<1>4. /\ raced \subseteq raced' /\ raced' \subseteq raced \cup {req[s].user}
      /\ req[s].user \in raced' \/ x = bal[req[s].user]
  BY <1>2 DEF Credits
<1>5. CASE End(s)
  BY <1>1, <1>4, <1>5, EndIs
<1>6. CASE req' = [req EXCEPT ![s].step = "write", ![s].seen = x]
  <2>1. req' = [req EXCEPT ![s] = [req[s] EXCEPT !.step = "write", !.seen = x]]
    BY <1>6
  <2>2. /\ [req[s] EXCEPT !.step = "write", !.seen = x] \in BusyRequests
        /\ req'[s] = [req[s] EXCEPT !.step = "write", !.seen = x]
    BY <1>1, <1>3, <2>1 DEF BusyRequests, BusySteps, TypeOK
  <2>3. Moves(s)
    BY <2>1, <2>2 DEF Moves, RequestTypes, Rest, TypeOK
  <2>4. At(s, "write")' /\ SameAsked(s) /\ SameFee(s) /\ req'[s].seen = x
    BY <1>1, <2>2 DEF BusyRequests, SameAsked, SameFee, At
  <2>5. QED
    BY <1>1, <1>4, <2>3, <2>4
<1>7. QED
  BY <1>2, <1>5, <1>6

\* The fee of a purchase is decided.
LEMMA CheckIs ==
    ASSUME TypeOK, NEW s \in Slots, Check(s)
    PROVE  /\ At(s, "check") /\ Moves(s)
           /\ \/ At(s, "idle")'
              \/ /\ SameAsked(s)
                 /\ \/ At(s, "record")' /\ req'[s].fee = 0
                    \/ At(s, "read")' /\ req'[s].fee > 0
<1>1. At(s, "check") /\ Busy(s) /\ req[s] \in BusyRequests
  BY BusyIs DEF Check, Busy, At
<1>2. PICK fee \in {0, Price} :
        \/ End(s)
        \/ req' = [req EXCEPT ![s].fee = fee, ![s].step = IF fee = 0 THEN "record" ELSE "read"]
  BY DEF Check
<1>3. fee \in Nat
  BY CreditsAssumption
<1>4. CASE End(s)
  BY <1>1, <1>4, EndIs
<1>5. CASE req' = [req EXCEPT ![s].fee = fee, ![s].step = IF fee = 0 THEN "record" ELSE "read"]
  <2> DEFINE x == IF fee = 0 THEN "record" ELSE "read"
             new == [req[s] EXCEPT !.fee = fee, !.step = x]
  <2>1. x \in BusySteps
    BY DEF BusySteps
  <2>2. req' = [req EXCEPT ![s] = new]
    BY <1>5
  <2>3. (x = "record" /\ fee = 0) \/ (x = "read" /\ fee > 0)
    BY <1>3
  <2> HIDE DEF x
  <2>4. new \in BusyRequests /\ new.step = x /\ new.fee = fee
        /\ new.kind = req[s].kind /\ new.user = req[s].user /\ new.other = req[s].other
    BY <1>1, <1>3, <2>1 DEF BusyRequests
  <2> HIDE DEF new
  <2>5. Moves(s) /\ req'[s] = new
    BY <2>2, <2>4 DEF Moves, RequestTypes, Rest, TypeOK
  <2>6. QED
    BY <1>1, <2>3, <2>4, <2>5 DEF SameAsked, At
<1>6. QED
  BY <1>2, <1>4, <1>5

\* The seller's balance is read, or counts as 0.
LEMMA ReadSellerIs ==
    ASSUME TypeOK, NEW s \in Slots, ReadSeller(s)
    PROVE  /\ At(s, "seller") /\ Moves(s)
           /\ raced \subseteq raced' /\ raced' \subseteq raced \cup {req[s].other}
           /\ At(s, "credit")' /\ SameAsked(s) /\ SameFee(s)
           /\ req'[s].seen = req[s].seen
           /\ req[s].other \in raced' \/ req'[s].sold = bal[req[s].other]
<1>1. At(s, "seller") /\ Busy(s) /\ req[s] \in BusyRequests /\ req[s].other \in Users
  BY BusyIs DEF ReadSeller, Busy, At
<1>2. PICK x \in 0..bal[req[s].other] :
        /\ Credits(req[s].other, x)
        /\ req' = [req EXCEPT ![s].step = "credit", ![s].sold = x]
  BY DEF ReadSeller
<1>3. x \in Int
  BY <1>1 DEF TypeOK
<1>4. /\ raced \subseteq raced' /\ raced' \subseteq raced \cup {req[s].other}
      /\ req[s].other \in raced' \/ x = bal[req[s].other]
  BY <1>2 DEF Credits
<1>5. req' = [req EXCEPT ![s] = [req[s] EXCEPT !.step = "credit", !.sold = x]]
  BY <1>2
<1>6. /\ [req[s] EXCEPT !.step = "credit", !.sold = x] \in BusyRequests
      /\ req'[s] = [req[s] EXCEPT !.step = "credit", !.sold = x]
  BY <1>1, <1>3, <1>5 DEF BusyRequests, BusySteps, TypeOK
<1>7. Moves(s)
  BY <1>5, <1>6 DEF Moves, RequestTypes, Rest, TypeOK
<1>8. /\ At(s, "credit")' /\ SameAsked(s) /\ SameFee(s) /\ req'[s].seen = req[s].seen
      /\ req'[s].sold = x
  BY <1>1, <1>6 DEF BusyRequests, SameAsked, SameFee, At
<1>9. QED
  BY <1>1, <1>4, <1>7, <1>8

-----------------------------------------------------------------------------
(* What a step of one request leaves alone *)

\* The others are where they were.
LEMMA OthersKept ==
    ASSUME NEW s \in Slots, Rest(s), NEW t \in Slots, t # s
    PROVE  /\ Busy(t)' <=> Busy(t)
           /\ Kind(t)' <=> Kind(t)
           /\ At(t, "pay")' <=> At(t, "pay")
           /\ Exclusive(t)' <=> Exclusive(t)
           /\ Updating(t)' <=> Updating(t)
           /\ RowsOf(t)' = RowsOf(t)
           /\ BuyerRead(t)' <=> BuyerRead(t)
           /\ SellerRead(t)' <=> SellerRead(t)
<1>1. req'[t] = req[t]
  BY DEF Rest
<1>2. QED
  BY <1>1 DEF Busy, At, Kind, Exclusive, Updating, RowsOf, BuyerRead, SellerRead

\* A request that moves and goes its way.
LEMMA KindKept ==
    ASSUME KindInv, NEW s \in Slots, Rest(s), Busy(s)' => Kind(s)'
    PROVE  KindInv'
  BY OthersKept DEF KindInv

\* A request that takes no lock.
LEMMA LockKept ==
    ASSUME LockInv, NEW s \in Slots, Rest(s),
           Exclusive(s)' => Exclusive(s), Updating(s)' => Updating(s),
           RowsOf(s)' \subseteq RowsOf(s)
    PROVE  LockInv'
<1> SUFFICES ASSUME NEW t \in Slots, NEW z \in Slots, t # z PROVE Apart(t, z)'
  BY DEF LockInv
<1>1. Apart(t, z)
  BY DEF LockInv
<1>2. CASE t # s /\ z # s
  BY <1>1, <1>2, OthersKept DEF Apart
<1>3. CASE t = s
  BY <1>1, <1>3, OthersKept DEF Apart
<1>4. CASE z = s
  BY <1>1, <1>4, OthersKept DEF Apart
<1>5. QED
  BY <1>2, <1>3, <1>4

\* A request that takes locks nobody has.
LEMMA LockTaken ==
    ASSUME LockInv, NEW s \in Slots, Rest(s),
           \A t \in Slots \ {s} :
              /\ Exclusive(s)' => ~Exclusive(t) /\ ~Updating(t)
              /\ Updating(s)' => ~Exclusive(t)
              /\ RowsOf(s)' \cap RowsOf(t) = {}
    PROVE  LockInv'
<1> SUFFICES ASSUME NEW t \in Slots, NEW z \in Slots, t # z PROVE Apart(t, z)'
  BY DEF LockInv
<1>1. Apart(t, z)
  BY DEF LockInv
<1>2. CASE t # s /\ z # s
  BY <1>1, <1>2, OthersKept DEF Apart
<1>3. CASE t = s
  BY <1>3, OthersKept DEF Apart
<1>4. CASE z = s
  BY <1>4, OthersKept DEF Apart
<1>5. QED
  BY <1>2, <1>3, <1>4

\* A request that disturbs no balance and no plan.
LEMMA PayKept ==
    ASSUME PayInv, NEW s \in Slots, Rest(s), UNCHANGED <<bal, life, since>>,
           At(s, "pay")' => Paying(s)'
    PROVE  PayInv'
<1> SUFFICES ASSUME NEW t \in Slots, t # s, At(t, "pay")' PROVE Paying(t)'
  BY DEF PayInv
<1>1. req'[t] = req[t] /\ At(t, "pay")
  BY OthersKept DEF Rest
<1>2. Paying(t)
  BY <1>1 DEF PayInv
<1>3. QED
  BY <1>1, <1>2 DEF Paying

\* A request that disturbs no balance.
LEMMA SeenKept ==
    ASSUME SeenInv, NEW s \in Slots, Rest(s), bal' = bal, raced \subseteq raced', Seen(s)'
    PROVE  SeenInv'
<1> SUFFICES ASSUME NEW t \in Slots, t # s PROVE Seen(t)'
  BY DEF SeenInv
<1>1. req'[t] = req[t] /\ Seen(t)
  BY DEF SeenInv, Rest
<1>2. (BuyerRead(t)' <=> BuyerRead(t)) /\ (SellerRead(t)' <=> SellerRead(t))
  BY OthersKept
<1>3. QED
  BY <1>1, <1>2 DEF Seen

\* A commit changes balances that nobody has updated, and those who have read one
\* are noted.
LEMMA SeenCommitted ==
    ASSUME TypeOK, SeenInv, NEW s \in Slots, Rest(s), NEW us, Commits(s, us),
           \A u \in Users \ us : bal'[u] = bal[u],
           \A t \in Slots \ {s} : RowsOf(t) \cap us = {},
           ~Busy(s)' \/ At(s, "check")'
    PROVE  SeenInv'
<1>1. Seen(s)'
  BY DEF Seen, BuyerRead, SellerRead, Busy, At, Updating
<1>2. ASSUME NEW t \in Slots, t # s PROVE Seen(t)'
  <2>1. /\ req'[t] = req[t] /\ Seen(t)
        /\ (BuyerRead(t)' <=> BuyerRead(t)) /\ (SellerRead(t)' <=> SellerRead(t))
    BY <1>2, OthersKept DEF SeenInv, Rest
  <2>2. raced \subseteq raced' /\ \A u \in us : Holding(t, u) => u \in raced'
    BY <1>2 DEF Commits
  <2>3. ASSUME BuyerRead(t) PROVE req[t].user \in raced' \/ req[t].seen = bal'[req[t].user]
    <3>1. req[t].user \in Users
      BY <2>3, BusyIs DEF BuyerRead, Updating, At, Busy
    <3>2. CASE req[t].user \notin us
      BY <2>1, <2>2, <2>3, <3>1, <3>2 DEF Seen
    <3>3. CASE req[t].user \in us /\ Updating(t)
      BY <1>2, <3>3 DEF RowsOf
    <3>4. CASE req[t].user \in us /\ ~Updating(t)
      BY <2>2, <2>3, <3>4 DEF BuyerRead, Holding, Charging
    <3>5. QED
      BY <3>2, <3>3, <3>4
  <2>4. ASSUME SellerRead(t) PROVE req[t].other \in raced' \/ req[t].sold = bal'[req[t].other]
    <3>1. req[t].other \in Users
      BY <2>4, BusyIs DEF SellerRead, At, Busy
    <3>2. CASE req[t].other \notin us
      BY <2>1, <2>2, <2>4, <3>1, <3>2 DEF Seen
    <3>3. CASE req[t].other \in us /\ At(t, "credit")
      BY <2>2, <3>3 DEF Holding
    <3>4. CASE req[t].other \in us /\ At(t, "record") /\ req[t].fee > 0
      BY <1>2, <3>4 DEF RowsOf, Updating, At
    <3>5. QED
      BY <2>4, <3>2, <3>3, <3>4 DEF SellerRead
  <2>5. QED
    BY <2>1, <2>3, <2>4 DEF Seen
<1>3. QED
  BY <1>1, <1>2 DEF SeenInv

-----------------------------------------------------------------------------
(* What each step does *)

\* A step that commits nothing.
Local(s) ==
    /\ Moves(s) /\ UNCHANGED <<bal, logged, members, owned, charges>>
    /\ raced \subseteq raced' /\ raced' \subseteq Users

\* Beginning, waiting, reading, updating in an open transaction and giving up.
LEMMA LocalSteps ==
    ASSUME TypeOK, NEW s \in Slots,
           \/ \E ask \in Asks : Begin(s, ask[1], ask[2], ask[3])
           \/ Alter(s) \/ Due(s) \/ Read(s) \/ Check(s) \/ Debit(s) \/ ReadSeller(s)
           \/ Credit(s) \/ RowDeadlock(s) \/ Die(s)
    PROVE  Local(s)
<1>1. raced \subseteq Users /\ \A x \in BusySteps : Busy(s) /\ Goto(s, x) => Moves(s)
  BY GotoIs DEF TypeOK
<1>2. CASE \E ask \in Asks : Begin(s, ask[1], ask[2], ask[3])
  BY <1>1, <1>2, BeginIs DEF Begin, Local
<1>3. CASE Alter(s) \/ Debit(s) \/ Credit(s)
  BY <1>1, <1>3 DEF Alter, Debit, Credit, Local, Busy, At, BusySteps
<1>4. CASE Due(s)
  BY <1>1, <1>4, DueIs DEF Due, Local
<1>5. CASE Read(s)
  <2>1. req[s].user \in Users
    BY <1>5, ReadIs, BusyIs DEF Busy, At
  <2>2. UNCHANGED <<bal, logged, members, owned, charges>>
    BY <1>5 DEF Read
  <2>3. QED
    BY <1>1, <1>5, <2>1, <2>2, ReadIs DEF Local
<1>6. CASE Check(s)
  <2>1. UNCHANGED <<bal, logged, members, owned, charges, raced>>
    BY <1>6 DEF Check
  <2>2. QED
    BY <1>1, <1>6, <2>1, CheckIs DEF Local
<1>7. CASE ReadSeller(s)
  <2>1. req[s].other \in Users
    BY <1>7, ReadSellerIs, BusyIs DEF Busy, At
  <2>2. UNCHANGED <<bal, logged, members, owned, charges>>
    BY <1>7 DEF ReadSeller
  <2>3. QED
    BY <1>1, <1>7, <2>1, <2>2, ReadSellerIs DEF Local
<1>8. CASE RowDeadlock(s) \/ Die(s)
  BY <1>1, <1>8, EndIs DEF RowDeadlock, Die, Local
<1>9. QED
  BY <1>2, <1>3, <1>4, <1>5, <1>6, <1>7, <1>8

\* A balance and its log row change by the same amount.
Books(s, amount) ==
    LET u == req[s].user IN
    /\ bal' = [bal EXCEPT ![u] = req[s].seen + amount]
    /\ logged' = [logged EXCEPT ![u] = @ + amount]
    /\ Commits(s, {u})

\* The charges, and what an administrator adds or sets.
LEMMA BookIs ==
    ASSUME TypeOK, NEW s \in Slots, Consume(s) \/ AddCredits(s) \/ SetCredits(s)
    PROVE  /\ At(s, "write") /\ Free /\ RowFree(s, req[s].user)
           /\ req[s].kind \in Charging /\ req[s].kind # "buy"
           /\ Moves(s) /\ At(s, "idle")' /\ UNCHANGED <<members, owned, charges>>
           /\ \E amount \in Int : Books(s, amount)
<1>1. At(s, "write") /\ req[s].seen \in Int
  BY BusyIs DEF Consume, AddCredits, SetCredits, Busy, At
<1>2. \E amount \in Int : Books(s, amount)
  <2>1. CASE Consume(s)
    <3>1. -Cost \in Int /\ req[s].seen - Cost = req[s].seen + (-Cost)
      BY <1>1, CreditsAssumption
    <3>2. Books(s, -Cost)
      BY <2>1, <3>1 DEF Consume, Book, Books
    <3>3. QED
      BY <3>1, <3>2
  <2>2. CASE AddCredits(s)
    <3>1. Books(s, Cost)
      BY <2>2 DEF AddCredits, Book, Books
    <3>2. QED
      BY <3>1, CreditsAssumption
  <2>3. CASE SetCredits(s)
    <3>1. /\ Opening - req[s].seen \in Int
          /\ req[s].seen + (Opening - req[s].seen) = Opening
      BY <1>1, CreditsAssumption
    <3>2. Books(s, Opening - req[s].seen)
      BY <2>3, <3>1 DEF SetCredits, Book, Books
    <3>3. QED
      BY <3>1, <3>2
  <2>4. QED
    BY <2>1, <2>2, <2>3
<1>3. QED
  BY <1>1, <1>2, EndIs DEF Consume, AddCredits, SetCredits, Book, Charging

\* A plan is bought, or monthly grants are paid.
LEMMA PayIs ==
    ASSUME TypeOK, NEW s \in Slots, Pay(s)
    PROVE  /\ At(s, "pay") /\ Moves(s) /\ UNCHANGED <<owned, charges>>
           /\ since' = [since EXCEPT ![req[s].user] = 0]
           /\ \/ At(s, "idle")'
              \/ At(s, "check")' /\ SameAsked(s) /\ req[s].kind = "buy"
           /\ \E amount \in Int : Books(s, amount)
           /\ \/ /\ req[s].kind \in Plans
                 /\ elapsed' = [elapsed EXCEPT ![req[s].user] = 0]
                 /\ granted' = [granted EXCEPT ![req[s].user] = 0]
                 /\ life' \in [Users -> BOOLEAN]
                 /\ \A u \in Users \ {req[s].user} : life'[u] = life[u]
                 /\ vip' \in [Users -> {"null", "past", "ahead", "century"}]
              \/ /\ req[s].kind \notin Plans
                 /\ UNCHANGED <<life, vip, elapsed>>
                 /\ granted' = [granted EXCEPT ![req[s].user] = @ + req[s].sold]
<1> DEFINE u == req[s].user
           amount == IF req[s].kind \in Plans THEN Bonus ELSE Bonus * req[s].sold
<1>1. /\ At(s, "pay") /\ Busy(s) /\ u \in Users /\ req[s].sold \in Int
      /\ UNCHANGED <<owned, charges>> /\ since' = [since EXCEPT ![u] = 0]
  BY BusyIs DEF Pay, Busy, At
<1>2. amount \in Int /\ Books(s, amount)
  BY <1>1, CreditsAssumption DEF Pay, Books, Plans
<1> HIDE DEF amount
<1>3. CASE req[s].kind \in Plans
  <2> DEFINE plan == IF req[s].kind = "lifetime" \/ vip[u] = "century"
                     THEN "century" ELSE "ahead"
  <2>1. /\ life' = [life EXCEPT ![u] = (req[s].kind = "lifetime")]
        /\ vip' = [vip EXCEPT ![u] = plan]
        /\ elapsed' = [elapsed EXCEPT ![u] = 0]
        /\ granted' = [granted EXCEPT ![u] = 0] /\ End(s)
    BY <1>3 DEF Pay, Plans
  <2>2. plan \in {"null", "past", "ahead", "century"}
    OBVIOUS
  <2> HIDE DEF plan
  <2>3. /\ life' \in [Users -> BOOLEAN] /\ \A x \in Users \ {u} : life'[x] = life[x]
        /\ vip' \in [Users -> {"null", "past", "ahead", "century"}]
    BY <1>1, <2>1, <2>2 DEF TypeOK
  <2>4. QED
    BY <1>1, <1>2, <1>3, <2>1, <2>3, EndIs
<1>4. CASE req[s].kind \notin Plans
  <2>1. /\ granted' = [granted EXCEPT ![u] = @ + req[s].sold]
        /\ AfterStatus(s) /\ UNCHANGED <<life, vip, elapsed>>
    BY <1>4 DEF Pay, Plans
  <2>2. QED
    BY <1>1, <1>2, <1>4, <2>1, AfterStatusIs
<1>5. QED
  BY <1>3, <1>4

\* A purchase commits, or nothing of it does.
Sale(s) ==
    LET u == req[s].user   v == req[s].other   fee == req[s].fee IN
    /\ <<u, v>> \notin owned /\ owned' = owned \cup {<<u, v>>} /\ fee > 0
    /\ bal' = [bal EXCEPT ![u] = req[s].seen - fee, ![v] = req[s].sold + fee]
    /\ logged' = [logged EXCEPT ![u] = @ - fee, ![v] = @ + fee]
    /\ charges' = [charges EXCEPT ![<<u, v>>] = @ + 1]
    /\ Commits(s, {u, v})

\* The last step of a purchase.
LEMMA RecordIs ==
    ASSUME TypeOK, NEW s \in Slots, Record(s)
    PROVE  /\ At(s, "record") /\ Moves(s) /\ At(s, "idle")' /\ UNCHANGED members
           /\ \/ /\ UNCHANGED <<bal, logged, charges, raced>>
                 /\ owned \subseteq owned' /\ owned' \subseteq Users \X Users
              \/ Sale(s)
<1>1. /\ At(s, "record") /\ req[s].user \in Users /\ req[s].other \in Users
      /\ req[s].fee \in Nat /\ Moves(s) /\ At(s, "idle")' /\ UNCHANGED members
  BY BusyIs, EndIs DEF Record, Busy, At
<1>2. CASE ~Unique(<<req[s].user, req[s].other>>)
  BY <1>1, <1>2 DEF Record, TypeOK
<1>3. CASE Unique(<<req[s].user, req[s].other>>) /\ req[s].fee = 0
  BY <1>1, <1>3 DEF Record, TypeOK
<1>4. CASE Unique(<<req[s].user, req[s].other>>) /\ req[s].fee # 0
  <2>1. Sale(s)
    BY <1>1, <1>4 DEF Record, Unique, Sale
  <2>2. QED
    BY <1>1, <2>1
<1>5. QED
  BY <1>2, <1>3, <1>4

\* The administrator's change of a membership.
LEMMA SetVipIs ==
    ASSUME TypeOK, NEW s \in Slots, SetVip(s)
    PROVE  /\ At(s, "write") /\ Moves(s) /\ At(s, "idle")'
           /\ UNCHANGED <<bal, logged, life, since, elapsed, granted, owned, charges, raced>>
           /\ vip' \in [Users -> {"null", "past", "ahead", "century"}]
  BY EndIs DEF SetVip, TypeOK

\* The books of one user.
LEMMA BooksIs ==
    ASSUME TypeOK, NEW s \in Slots, Busy(s), NEW amount \in Int, Books(s, amount)
    PROVE  /\ bal' \in [Users -> Int] /\ logged' \in [Users -> Int]
           /\ raced \subseteq raced' /\ raced' \subseteq Users
           /\ bal'[req[s].user] = req[s].seen + amount
           /\ logged'[req[s].user] = logged[req[s].user] + amount
           /\ \A u \in Users \ {req[s].user} : bal'[u] = bal[u] /\ logged'[u] = logged[u]
<1>1. /\ req[s].user \in Users /\ req[s].seen \in Int
      /\ bal \in [Users -> Int] /\ logged \in [Users -> Int]
  BY BusyIs DEF TypeOK
<1>2. raced \subseteq raced' /\ raced' \subseteq Users
  BY <1>1 DEF Books, Commits, TypeOK
<1>3. /\ bal' = [bal EXCEPT ![req[s].user] = req[s].seen + amount]
      /\ logged' = [logged EXCEPT ![req[s].user] = @ + amount]
  BY DEF Books
<1>4. QED
  BY <1>1, <1>2, <1>3

\* The books of a buyer and a seller.
LEMMA SaleIs ==
    ASSUME TypeOK, NEW s \in Slots, Busy(s), req[s].user # req[s].other, Sale(s)
    PROVE  /\ bal' \in [Users -> Int] /\ logged' \in [Users -> Int]
           /\ raced \subseteq raced' /\ raced' \subseteq Users
           /\ bal'[req[s].user] = req[s].seen - req[s].fee
           /\ logged'[req[s].user] = logged[req[s].user] - req[s].fee
           /\ bal'[req[s].other] = req[s].sold + req[s].fee
           /\ logged'[req[s].other] = logged[req[s].other] + req[s].fee
           /\ \A u \in Users \ {req[s].user, req[s].other} :
                 bal'[u] = bal[u] /\ logged'[u] = logged[u]
<1>1. /\ req[s].user \in Users /\ req[s].seen \in Int
      /\ req[s].other \in Users /\ req[s].sold \in Int /\ req[s].fee \in Nat
      /\ bal \in [Users -> Int] /\ logged \in [Users -> Int]
  BY BusyIs DEF TypeOK
<1>2. raced \subseteq raced' /\ raced' \subseteq Users
  BY <1>1 DEF Sale, Commits, TypeOK
<1>3. /\ bal' = [bal EXCEPT ![req[s].user] = req[s].seen - req[s].fee,
                            ![req[s].other] = req[s].sold + req[s].fee]
      /\ logged' = [logged EXCEPT ![req[s].user] = @ - req[s].fee,
                                  ![req[s].other] = @ + req[s].fee]
  BY DEF Sale
<1>4. QED
  BY <1>1, <1>2, <1>3

-----------------------------------------------------------------------------
(* The steps *)

\* Every step is one of these.
LEMMA StepIs ==
    ASSUME TypeOK, [Next]_vars
    PROVE  \/ \E s \in Slots : Local(s)
           \/ \E s \in Slots : Consume(s) \/ AddCredits(s) \/ SetCredits(s)
           \/ \E s \in Slots : Pay(s)
           \/ \E s \in Slots : SetVip(s)
           \/ \E s \in Slots : Record(s)
           \/ Tick \/ UNCHANGED vars
  BY LocalSteps DEF Next, Advance

\* The types are kept.
LEMMA TypesStep == IInv /\ [Next]_vars => TypeOK'
<1> SUFFICES ASSUME TypeOK, KindInv, PayInv, [Next]_vars PROVE TypeOK'
  BY DEF IInv
<1>1. ASSUME NEW s \in Slots, Local(s) PROVE TypeOK'
  BY <1>1 DEF Local, Moves, RequestTypes, TypeOK, members
<1>2. ASSUME NEW s \in Slots, Consume(s) \/ AddCredits(s) \/ SetCredits(s) PROVE TypeOK'
  <2>1. PICK amount \in Int : Books(s, amount)
    BY <1>2, BookIs
  <2>2. Busy(s) /\ Moves(s) /\ UNCHANGED <<members, owned, charges>>
    BY <1>2, BookIs DEF Busy, At
  <2>3. QED
    BY <2>1, <2>2, BooksIs DEF Moves, RequestTypes, TypeOK, members
<1>3. ASSUME NEW s \in Slots, Pay(s) PROVE TypeOK'
  <2>1. PICK amount \in Int : Books(s, amount)
    BY <1>3, PayIs
  <2>2. /\ Busy(s) /\ At(s, "pay") /\ Moves(s) /\ UNCHANGED <<owned, charges>>
        /\ req[s].user \in Users
    BY <1>3, PayIs, BusyIs DEF Busy, At
  <2>3. since' \in [Users -> Nat]
    BY <1>3, <2>2, PayIs DEF TypeOK
  <2>4. CASE req[s].kind \in Plans
    BY <1>3, <2>1, <2>2, <2>3, <2>4, BooksIs, PayIs DEF Moves, RequestTypes, TypeOK
  <2>5. CASE req[s].kind \notin Plans
    <3>1. req[s].sold \in Nat
      BY <2>2, <2>5, <1>3 DEF PayInv, Paying
    <3>2. QED
      BY <1>3, <2>1, <2>2, <2>3, <2>5, <3>1, BooksIs, PayIs DEF Moves, RequestTypes, TypeOK
  <2>6. QED
    BY <2>4, <2>5
<1>4. ASSUME NEW s \in Slots, SetVip(s) PROVE TypeOK'
  BY <1>4, SetVipIs DEF Moves, RequestTypes, TypeOK
<1>5. ASSUME NEW s \in Slots, Record(s) PROVE TypeOK'
  <2>1. Busy(s) /\ At(s, "record") /\ Moves(s) /\ UNCHANGED members
    BY <1>5, RecordIs DEF Busy, At
  <2>2. CASE Sale(s)
    <3>1. req[s].user \in Users /\ req[s].other \in Users /\ req[s].user # req[s].other
      BY <2>1, BusyIs DEF KindInv, Kind, At
    <3>2. owned' \subseteq Users \X Users /\ charges' \in [Users \X Users -> Nat]
      BY <2>2, <3>1 DEF Sale, TypeOK
    <3>3. QED
      BY <2>1, <2>2, <3>1, <3>2, SaleIs DEF Moves, RequestTypes, TypeOK, members
  <2>3. CASE ~Sale(s)
    BY <1>5, <2>1, <2>3, RecordIs DEF Moves, RequestTypes, TypeOK, members
  <2>4. QED
    BY <2>2, <2>3
<1>6. CASE Tick
  <2>1. since' \in [Users -> Nat] /\ elapsed' \in [Users -> Nat]
    BY <1>6 DEF Tick, TypeOK
  <2>2. vip' \in [Users -> {"null", "past", "ahead", "century"}]
    BY <1>6 DEF Tick, TypeOK
  <2>3. QED
    BY <1>6, <2>1, <2>2 DEF Tick, TypeOK
<1>7. CASE UNCHANGED vars
  BY <1>7 DEF vars, members, TypeOK
<1>8. QED
  BY <1>1, <1>2, <1>3, <1>4, <1>5, <1>6, <1>7, StepIs

\* Requests go the way of their kind.
LEMMA KindStep == IInv /\ [Next]_vars => KindInv'
<1> SUFFICES ASSUME IInv, [Next]_vars PROVE KindInv'
  OBVIOUS
<1>0. TypeOK /\ KindInv /\ LockInv /\ PayInv /\ SeenInv
  BY DEF IInv
<1>1. ASSUME NEW s \in Slots, NEW ask \in Asks, Begin(s, ask[1], ask[2], ask[3])
      PROVE  KindInv'
  BY <1>0, <1>1, BeginIs, KindKept DEF Moves
<1>2. ASSUME NEW s \in Slots, Alter(s) PROVE KindInv'
  BY <1>0, <1>2, KindKept, GotoIs
     DEF Alter, Busy, At, BusySteps, Moves, SameAsked, SameFee, KindInv, Kind, Charging
<1>3. ASSUME NEW s \in Slots, Due(s) PROVE KindInv'
  BY <1>0, <1>3, KindKept, DueIs
     DEF Moves, SameAsked, SameFee, KindInv, Kind, Busy, At, Charging
<1>4. ASSUME NEW s \in Slots, Read(s) PROVE KindInv'
  BY <1>0, <1>4, KindKept, ReadIs
     DEF Moves, SameAsked, SameFee, KindInv, Kind, Busy, At, Charging
<1>5. ASSUME NEW s \in Slots, Check(s) PROVE KindInv'
  BY <1>0, <1>5, KindKept, CheckIs
     DEF Moves, SameAsked, SameFee, KindInv, Kind, Busy, At, Charging
<1>6. ASSUME NEW s \in Slots, Debit(s) PROVE KindInv'
  BY <1>0, <1>6, KindKept, GotoIs
     DEF Debit, Busy, At, BusySteps, Moves, SameAsked, SameFee, KindInv, Kind, Charging
<1>7. ASSUME NEW s \in Slots, ReadSeller(s) PROVE KindInv'
  BY <1>0, <1>7, KindKept, ReadSellerIs
     DEF Moves, SameAsked, SameFee, KindInv, Kind, Busy, At, Charging
<1>8. ASSUME NEW s \in Slots, Credit(s) PROVE KindInv'
  BY <1>0, <1>8, KindKept, GotoIs
     DEF Credit, Busy, At, BusySteps, Moves, SameAsked, SameFee, KindInv, Kind,
     Charging
<1>9. ASSUME NEW s \in Slots, RowDeadlock(s) PROVE KindInv'
  BY <1>0, <1>9, KindKept, EndIs
     DEF RowDeadlock, Moves, SameAsked, SameFee, KindInv, Kind, Busy, At, Charging
<1>10. ASSUME NEW s \in Slots, Die(s) PROVE KindInv'
  BY <1>0, <1>10, KindKept, EndIs
     DEF Die, Moves, SameAsked, SameFee, KindInv, Kind, Busy, At, Charging
<1>11. ASSUME NEW s \in Slots, Consume(s) \/ AddCredits(s) \/ SetCredits(s) PROVE KindInv'
  BY <1>0, <1>11, BookIs, KindKept DEF Moves, Busy
<1>12. ASSUME NEW s \in Slots, Pay(s) PROVE KindInv'
  BY <1>0, <1>12, PayIs, KindKept DEF Moves, Busy, KindInv, Kind, SameAsked, At
<1>13. ASSUME NEW s \in Slots, SetVip(s) PROVE KindInv'
  BY <1>0, <1>13, SetVipIs, KindKept DEF Moves, Busy
<1>14. ASSUME NEW s \in Slots, Record(s) PROVE KindInv'
  BY <1>0, <1>14, RecordIs, KindKept DEF Moves, Busy
<1>15. CASE Tick
  BY <1>0, <1>15 DEF Tick, KindInv, Kind, Busy, At
<1>16. CASE UNCHANGED vars
  BY <1>0, <1>16 DEF vars, KindInv, Kind, Busy, At
<1>17. QED
  BY <1>1, <1>2, <1>3, <1>4, <1>5, <1>6, <1>7, <1>8, <1>9, <1>10, <1>11, <1>12, <1>13, <1>14, <1>15, <1>16
     DEF Next, Advance

\* The locks exclude each other.
LEMMA LockStep == IInv /\ [Next]_vars => LockInv'
<1> SUFFICES ASSUME IInv, [Next]_vars PROVE LockInv'
  OBVIOUS
<1>0. TypeOK /\ KindInv /\ LockInv /\ PayInv /\ SeenInv
  BY DEF IInv
<1>1. ASSUME NEW s \in Slots, NEW ask \in Asks, Begin(s, ask[1], ask[2], ask[3])
      PROVE  LockInv'
  BY <1>0, <1>1, BeginIs, LockKept DEF Moves, Exclusive, Updating, RowsOf, At
<1>2. ASSUME NEW s \in Slots, Alter(s) PROVE LockInv'
  BY <1>0, <1>2, GotoIs, LockTaken
     DEF Alter, Busy, At, BusySteps, Moves, Exclusive, Updating, RowsOf
<1>3. ASSUME NEW s \in Slots, Due(s) PROVE LockInv'
  BY <1>0, <1>3, LockKept, DueIs
     DEF Moves, SameAsked, SameFee, Exclusive, Updating, RowsOf, At, KindInv, Kind,
     Busy
<1>4. ASSUME NEW s \in Slots, Read(s) PROVE LockInv'
  BY <1>0, <1>4, LockKept, ReadIs
     DEF Moves, SameAsked, SameFee, Exclusive, Updating, RowsOf, At, KindInv, Kind,
     Busy
<1>5. ASSUME NEW s \in Slots, Check(s) PROVE LockInv'
  BY <1>0, <1>5, LockKept, CheckIs
     DEF Moves, SameAsked, SameFee, Exclusive, Updating, RowsOf, At, KindInv, Kind,
     Busy
<1>6. ASSUME NEW s \in Slots, Debit(s) PROVE LockInv'
  <2>1. /\ Moves(s) /\ At(s, "seller")' /\ SameAsked(s) /\ ~Exclusive(s)'
        /\ Free /\ RowFree(s, req[s].user)
    BY <1>0, <1>6, GotoIs DEF Debit, Busy, At, BusySteps, Exclusive
  <2>2. RowsOf(s)' \subseteq {req[s].user}
    BY <2>1 DEF RowsOf, At, SameAsked
  <2>3. QED
    BY <1>0, <2>1, <2>2, LockTaken DEF Free, RowFree, Moves
<1>7. ASSUME NEW s \in Slots, ReadSeller(s) PROVE LockInv'
  BY <1>0, <1>7, LockKept, ReadSellerIs
     DEF Moves, SameAsked, SameFee, Exclusive, Updating, RowsOf, At, KindInv, Kind,
     Busy
<1>8. ASSUME NEW s \in Slots, Credit(s) PROVE LockInv'
  <2>1. /\ Moves(s) /\ At(s, "record")' /\ SameAsked(s) /\ SameFee(s) /\ ~Exclusive(s)'
        /\ At(s, "credit") /\ RowFree(s, req[s].other)
    BY <1>0, <1>8, GotoIs DEF Credit, Busy, At, BusySteps, Exclusive
  <2>2. /\ Updating(s)' => Updating(s)
        /\ RowsOf(s)' \subseteq RowsOf(s) \cup {req[s].other}
    BY <2>1 DEF RowsOf, Updating, At, SameAsked, SameFee
  <2>3. ASSUME NEW t \in Slots \ {s}
        PROVE  /\ Updating(s)' => ~Exclusive(t)
               /\ RowsOf(s)' \cap RowsOf(t) = {}
    BY <1>0, <2>1, <2>2 DEF LockInv, Apart, RowFree
  <2>4. QED
    BY <1>0, <2>1, <2>3, LockTaken DEF Moves
<1>9. ASSUME NEW s \in Slots, RowDeadlock(s) PROVE LockInv'
  BY <1>0, <1>9, LockKept, EndIs
     DEF RowDeadlock, Moves, SameAsked, SameFee, Exclusive, Updating, RowsOf, At,
     KindInv, Kind, Busy
<1>10. ASSUME NEW s \in Slots, Die(s) PROVE LockInv'
  BY <1>0, <1>10, LockKept, EndIs
     DEF Die, Moves, SameAsked, SameFee, Exclusive, Updating, RowsOf, At, KindInv,
     Kind, Busy
<1>11. ASSUME NEW s \in Slots, Consume(s) \/ AddCredits(s) \/ SetCredits(s) PROVE LockInv'
  BY <1>0, <1>11, BookIs, LockKept DEF Moves, Exclusive, Updating, RowsOf, At
<1>12. ASSUME NEW s \in Slots, Pay(s) PROVE LockInv'
  BY <1>0, <1>12, PayIs, LockKept DEF Moves, Exclusive, Updating, RowsOf, At
<1>13. ASSUME NEW s \in Slots, SetVip(s) PROVE LockInv'
  BY <1>0, <1>13, SetVipIs, LockKept DEF Moves, Exclusive, Updating, RowsOf, At
<1>14. ASSUME NEW s \in Slots, Record(s) PROVE LockInv'
  BY <1>0, <1>14, RecordIs, LockKept DEF Moves, Exclusive, Updating, RowsOf, At
<1>15. CASE Tick
  BY <1>0, <1>15 DEF Tick, LockInv, Apart, Exclusive, Updating, RowsOf, At
<1>16. CASE UNCHANGED vars
  BY <1>0, <1>16 DEF vars, LockInv, Apart, Exclusive, Updating, RowsOf, At
<1>17. QED
  BY <1>1, <1>2, <1>3, <1>4, <1>5, <1>6, <1>7, <1>8, <1>9, <1>10, <1>11, <1>12, <1>13, <1>14, <1>15, <1>16
     DEF Next, Advance

\* The grants that fell due fit in the ticks since the last one.
LEMMA PeriodsFit ==
    ASSUME NEW u \in Users, since[u] \in Nat
    PROVE  Periods(u) \in Nat /\ Periods(u) * Period <= since[u]
<1> DEFINE due == since[u] \div Period
<1>1. Period \in Nat \ {0} /\ CatchUp \in Nat
  BY CreditsAssumption
<1>2. due \in Nat /\ due * Period <= since[u]
  BY <1>1
<1>3. Periods(u) = IF due > CatchUp THEN CatchUp ELSE due
  BY DEF Periods
<1> HIDE DEF due
<1>4. ASSUME due > CatchUp PROVE CatchUp * Period <= due * Period
  BY <1>1, <1>2, <1>4
<1>5. CatchUp * Period \in Nat /\ due * Period \in Nat
  BY <1>1, <1>2
<1>6. QED
  BY <1>1, <1>2, <1>3, <1>4, <1>5

\* When nobody pays, nothing is due.
LEMMA PayNone ==
    ASSUME NEW s \in Slots, Rest(s), ~At(s, "pay")', \A t \in Slots \ {s} : ~At(t, "pay")
    PROVE  PayInv'
  BY OthersKept DEF PayInv

\* What a grant is decided on stays true until it is paid.
LEMMA PayStep == IInv /\ [Next]_vars => PayInv'
<1> SUFFICES ASSUME IInv, [Next]_vars PROVE PayInv'
  OBVIOUS
<1>0. TypeOK /\ KindInv /\ LockInv /\ PayInv /\ SeenInv
  BY DEF IInv
<1>1. ASSUME NEW s \in Slots, NEW ask \in Asks, Begin(s, ask[1], ask[2], ask[3])
      PROVE  PayInv'
  BY <1>0, <1>1, BeginIs, PayKept, LocalSteps DEF Local, Moves, members, At
<1>2. ASSUME NEW s \in Slots, Alter(s) PROVE PayInv'
  BY <1>0, <1>2, PayKept, LocalSteps, GotoIs
     DEF Alter, Busy, At, BusySteps, Local, Moves, members
<1>3. ASSUME NEW s \in Slots, Due(s) PROVE PayInv'
  <2>1. Local(s) /\ req[s].user \in Users
    BY <1>0, <1>3, LocalSteps, DueIs, BusyIs DEF Busy, At
  <2>2. ASSUME At(s, "pay")' PROVE Paying(s)'
    <3>1. /\ SameAsked(s) /\ req'[s].seen = bal[req[s].user]
          /\ req'[s].sold = Periods(req[s].user)
          /\ req[s].kind \in Plans \/ Owed(req[s].user)
      BY <1>0, <1>3, <2>2, DueIs DEF At
    <3>2. req'[s].seen = bal'[req'[s].user]
      BY <2>1, <3>1 DEF Local, SameAsked
    <3>3. ASSUME req'[s].kind \notin Plans
          PROVE  /\ life[req[s].user] /\ req'[s].sold \in Nat
                 /\ req'[s].sold * Period <= since[req[s].user]
      <4>1. since[req[s].user] \in Nat
        BY <1>0, <2>1 DEF TypeOK
      <4>2. QED
        BY <2>1, <3>1, <3>3, <4>1, PeriodsFit DEF Owed, SameAsked
    <3>4. life'[req'[s].user] = life[req[s].user] /\ since'[req'[s].user] = since[req[s].user]
      BY <2>1, <3>1 DEF Local, members, SameAsked
    <3>5. QED
      BY <3>2, <3>3, <3>4 DEF Paying
  <2>3. QED
    BY <1>0, <2>1, <2>2, PayKept DEF Local, Moves, members
<1>4. ASSUME NEW s \in Slots, Read(s) PROVE PayInv'
  BY <1>0, <1>4, PayKept, LocalSteps, ReadIs DEF Local, Moves, members, At, Busy
<1>5. ASSUME NEW s \in Slots, Check(s) PROVE PayInv'
  BY <1>0, <1>5, PayKept, LocalSteps, CheckIs DEF Local, Moves, members, At, Busy
<1>6. ASSUME NEW s \in Slots, Debit(s) PROVE PayInv'
  BY <1>0, <1>6, PayKept, LocalSteps, GotoIs
     DEF Debit, Busy, At, BusySteps, Local, Moves, members
<1>7. ASSUME NEW s \in Slots, ReadSeller(s) PROVE PayInv'
  BY <1>0, <1>7, PayKept, LocalSteps, ReadSellerIs DEF Local, Moves, members, At, Busy
<1>8. ASSUME NEW s \in Slots, Credit(s) PROVE PayInv'
  BY <1>0, <1>8, PayKept, LocalSteps, GotoIs
     DEF Credit, Busy, At, BusySteps, Local, Moves, members
<1>9. ASSUME NEW s \in Slots, RowDeadlock(s) PROVE PayInv'
  BY <1>0, <1>9, PayKept, LocalSteps, EndIs DEF RowDeadlock, Local, Moves, members, At, Busy
<1>10. ASSUME NEW s \in Slots, Die(s) PROVE PayInv'
  BY <1>0, <1>10, PayKept, LocalSteps, EndIs DEF Die, Local, Moves, members, At, Busy
<1>11. ASSUME NEW s \in Slots, Consume(s) \/ AddCredits(s) \/ SetCredits(s) PROVE PayInv'
  BY <1>0, <1>11, BookIs, PayNone DEF Moves, At, Free, Exclusive
<1>12. ASSUME NEW s \in Slots, Pay(s) PROVE PayInv'
  BY <1>0, <1>12, PayIs, PayNone DEF Moves, At, LockInv, Apart, Exclusive
<1>13. ASSUME NEW s \in Slots, SetVip(s) PROVE PayInv'
  BY <1>0, <1>13, SetVipIs, PayKept DEF Moves, At
<1>14. ASSUME NEW s \in Slots, Record(s) PROVE PayInv'
  <2>1. /\ At(s, "record") /\ Rest(s) /\ ~At(s, "pay")' /\ UNCHANGED members
    BY <1>0, <1>14, RecordIs DEF Moves, At
  <2>2. CASE Sale(s)
    <3>1. Updating(s)
      BY <2>1, <2>2 DEF Sale, Updating, At
    <3>2. QED
      BY <1>0, <2>1, <3>1, PayNone DEF LockInv, Apart, Exclusive, At
  <2>3. CASE ~Sale(s)
    BY <1>0, <1>14, <2>1, <2>3, RecordIs, PayKept DEF members
  <2>4. QED
    BY <2>2, <2>3
<1>15. CASE Tick
  <2> SUFFICES ASSUME NEW s \in Slots, At(s, "pay")' PROVE Paying(s)'
    BY DEF PayInv
  <2>1. req' = req /\ bal' = bal /\ life' = life /\ At(s, "pay")
    BY <1>15 DEF Tick, At
  <2>2. Paying(s) /\ req[s].user \in Users
    BY <1>0, <2>1, BusyIs DEF PayInv, Busy, At
  <2>3. ASSUME life[req[s].user]
        PROVE  since'[req[s].user] = since[req[s].user] + 1 /\ since[req[s].user] \in Nat
    BY <1>0, <1>15, <2>2, <2>3 DEF Tick, TypeOK
  <2>4. ASSUME req[s].sold \in Nat PROVE req[s].sold * Period \in Nat
    BY <2>4, CreditsAssumption
  <2>5. QED
    BY <2>1, <2>2, <2>3, <2>4 DEF Paying
<1>16. CASE UNCHANGED vars
  BY <1>0, <1>16 DEF vars, members, PayInv, Paying, At
<1>17. QED
  BY <1>1, <1>2, <1>3, <1>4, <1>5, <1>6, <1>7, <1>8, <1>9, <1>10, <1>11, <1>12, <1>13, <1>14, <1>15, <1>16
     DEF Next, Advance

\* What was read of an undisturbed balance stays the balance.
LEMMA SeenStep == IInv /\ [Next]_vars => SeenInv'
<1> SUFFICES ASSUME IInv, [Next]_vars PROVE SeenInv'
  OBVIOUS
<1>0. TypeOK /\ KindInv /\ LockInv /\ PayInv /\ SeenInv
  BY DEF IInv
<1>1. ASSUME NEW s \in Slots, NEW ask \in Asks, Begin(s, ask[1], ask[2], ask[3])
      PROVE  SeenInv'
  BY <1>0, <1>1, BeginIs, SeenKept, LocalSteps
     DEF Local, Moves, Seen, BuyerRead, SellerRead, Updating, At, Charging
<1>2. ASSUME NEW s \in Slots, Alter(s) PROVE SeenInv'
  BY <1>0, <1>2, SeenKept, LocalSteps, GotoIs
     DEF Alter, Busy, At, BusySteps, Local, Moves, Seen, BuyerRead, SellerRead,
     Updating
<1>3. ASSUME NEW s \in Slots, Due(s) PROVE SeenInv'
  BY <1>0, <1>3, SeenKept, LocalSteps, DueIs
     DEF Local, Moves, Seen, BuyerRead, SellerRead, Updating, At
<1>4. ASSUME NEW s \in Slots, Read(s) PROVE SeenInv'
  <2>1. Local(s)
    BY <1>0, <1>4, LocalSteps
  <2>2. Seen(s)'
    BY <1>0, <1>4, <2>1, ReadIs
       DEF Seen, BuyerRead, SellerRead, Updating, At, Local, SameAsked
  <2>3. QED
    BY <1>0, <2>1, <2>2, SeenKept DEF Local, Moves
<1>5. ASSUME NEW s \in Slots, Check(s) PROVE SeenInv'
  <2>1. Local(s)
    BY <1>0, <1>5, LocalSteps
  <2>2. Seen(s)'
    BY <1>0, <1>5, CheckIs DEF Seen, BuyerRead, SellerRead, Updating, At
  <2>3. QED
    BY <1>0, <2>1, <2>2, SeenKept DEF Local, Moves
<1>6. ASSUME NEW s \in Slots, Debit(s) PROVE SeenInv'
  <2>1. Local(s)
    BY <1>0, <1>6, LocalSteps
  <2>2. At(s, "seller")' /\ SameAsked(s) /\ SameSeen(s)
    BY <1>0, <1>6, GotoIs DEF Debit, Busy, At, BusySteps
  <2>3. req[s].user \in raced \/ req[s].seen = bal[req[s].user]
    BY <1>0, <1>6 DEF Debit, SeenInv, Seen, BuyerRead, Charging
  <2>4. Seen(s)'
    BY <2>1, <2>2, <2>3 DEF Seen, SellerRead, At, Local, SameAsked, SameSeen
  <2>5. QED
    BY <1>0, <2>1, <2>4, SeenKept DEF Local, Moves
<1>7. ASSUME NEW s \in Slots, ReadSeller(s) PROVE SeenInv'
  <2>1. Local(s)
    BY <1>0, <1>7, LocalSteps
  <2>2. req[s].user \in raced \/ req[s].seen = bal[req[s].user]
    BY <1>0, <1>7, ReadSellerIs, BusyIs
       DEF SeenInv, Seen, BuyerRead, Updating, KindInv, Kind, Busy, At
  <2>3. Seen(s)'
    BY <1>0, <1>7, <2>1, <2>2, ReadSellerIs DEF Seen, Local, SameAsked
  <2>4. QED
    BY <1>0, <2>1, <2>3, SeenKept DEF Local, Moves
<1>8. ASSUME NEW s \in Slots, Credit(s) PROVE SeenInv'
  <2>1. Local(s)
    BY <1>0, <1>8, LocalSteps
  <2>2. At(s, "credit") /\ At(s, "record")' /\ SameAsked(s) /\ SameSeen(s) /\ SameFee(s)
    BY <1>0, <1>8, GotoIs DEF Credit, Busy, At, BusySteps
  <2>3. /\ Updating(s)' => Updating(s)
        /\ BuyerRead(s)' => BuyerRead(s)
        /\ SellerRead(s)
    BY <2>2 DEF BuyerRead, SellerRead, Updating, SameFee, At
  <2>4. Seen(s)'
    BY <1>0, <2>1, <2>2, <2>3 DEF SeenInv, Seen, Local, SameAsked, SameSeen
  <2>5. QED
    BY <1>0, <2>1, <2>4, SeenKept DEF Local, Moves
<1>9. ASSUME NEW s \in Slots, RowDeadlock(s) PROVE SeenInv'
  BY <1>0, <1>9, SeenKept, LocalSteps, EndIs
     DEF RowDeadlock, Local, Moves, Seen, BuyerRead, SellerRead, Updating, At
<1>10. ASSUME NEW s \in Slots, Die(s) PROVE SeenInv'
  BY <1>0, <1>10, SeenKept, LocalSteps, EndIs
     DEF Die, Local, Moves, Seen, BuyerRead, SellerRead, Updating, At
<1>11. ASSUME NEW s \in Slots, Consume(s) \/ AddCredits(s) \/ SetCredits(s) PROVE SeenInv'
  <2>1. PICK amount \in Int : Books(s, amount)
    BY <1>0, <1>11, BookIs
  <2>2. Moves(s) /\ ~Busy(s)' /\ RowFree(s, req[s].user) /\ Busy(s)
    BY <1>0, <1>11, BookIs DEF Busy, At
  <2>3. QED
    BY <1>0, <2>1, <2>2, BooksIs, SeenCommitted DEF Books, RowFree, Moves
<1>12. ASSUME NEW s \in Slots, Pay(s) PROVE SeenInv'
  <2>1. PICK amount \in Int : Books(s, amount)
    BY <1>0, <1>12, PayIs
  <2>2. Moves(s) /\ (~Busy(s)' \/ At(s, "check")') /\ Exclusive(s) /\ Busy(s)
    BY <1>0, <1>12, PayIs DEF Busy, At, Exclusive
  <2>3. \A t \in Slots \ {s} : RowsOf(t) = {}
    BY <1>0, <2>2 DEF LockInv, Apart, RowsOf
  <2>4. QED
    BY <1>0, <2>1, <2>2, <2>3, BooksIs, SeenCommitted DEF Books, Moves
<1>13. ASSUME NEW s \in Slots, SetVip(s) PROVE SeenInv'
  BY <1>0, <1>13, SetVipIs, SeenKept DEF Moves, Seen, BuyerRead, SellerRead, Updating, At
<1>14. ASSUME NEW s \in Slots, Record(s) PROVE SeenInv'
  <2>1. Moves(s) /\ At(s, "record") /\ At(s, "idle")' /\ Busy(s) /\ ~Busy(s)'
    BY <1>0, <1>14, RecordIs DEF Busy, At
  <2>2. CASE Sale(s)
    <3>1. RowsOf(s) = {req[s].user, req[s].other} /\ req[s].user # req[s].other
      BY <1>0, <2>1, <2>2 DEF Sale, RowsOf, Updating, KindInv, Kind, At
    <3>2. \A t \in Slots \ {s} : RowsOf(t) \cap {req[s].user, req[s].other} = {}
      BY <1>0, <3>1 DEF LockInv, Apart
    <3>3. \A u \in Users \ {req[s].user, req[s].other} : bal'[u] = bal[u]
      BY <1>0, <2>1, <2>2, <3>1, SaleIs
    <3>4. QED
      BY <1>0, <2>1, <2>2, <3>2, <3>3, SeenCommitted DEF Sale, Moves
  <2>3. CASE ~Sale(s)
    BY <1>0, <1>14, <2>1, <2>3, RecordIs, SeenKept
       DEF Moves, Seen, BuyerRead, SellerRead, Updating, At
  <2>4. QED
    BY <2>2, <2>3
<1>15. CASE Tick
  BY <1>0, <1>15 DEF Tick, SeenInv, Seen, BuyerRead, SellerRead, Updating, At
<1>16. CASE UNCHANGED vars
  BY <1>0, <1>16 DEF vars, SeenInv, Seen, BuyerRead, SellerRead, Updating, At
<1>17. QED
  BY <1>1, <1>2, <1>3, <1>4, <1>5, <1>6, <1>7, <1>8, <1>9, <1>10, <1>11, <1>12, <1>13, <1>14, <1>15, <1>16
     DEF Next, Advance

\* What a request changes, it changes in the balance and in the log alike.
LEMMA LogKept ==
    ASSUME TypeOK, LogExplainsBalance, NEW s \in Slots, Busy(s), NEW amount \in Int,
           Books(s, amount), req[s].user \in raced \/ req[s].seen = bal[req[s].user]
    PROVE  LogExplainsBalance'
<1> SUFFICES ASSUME NEW u \in Users, u \notin raced' PROVE bal'[u] = logged'[u]
  BY DEF LogExplainsBalance
<1>1. u \notin raced /\ bal[u] = logged[u]
  BY BooksIs DEF LogExplainsBalance
<1>2. CASE u = req[s].user
  BY <1>1, <1>2, BooksIs
<1>3. CASE u # req[s].user
  BY <1>1, <1>3, BooksIs
<1>4. QED
  BY <1>2, <1>3

\* The log goes on explaining the balance.
LEMMA LogStep == IInv /\ [Next]_vars => LogExplainsBalance'
<1> SUFFICES ASSUME IInv, [Next]_vars PROVE LogExplainsBalance'
  OBVIOUS
<1>0. TypeOK /\ KindInv /\ PayInv /\ SeenInv /\ LogExplainsBalance
  BY DEF IInv
<1>1. ASSUME NEW s \in Slots, Local(s) PROVE LogExplainsBalance'
  BY <1>0, <1>1 DEF Local, LogExplainsBalance
<1>2. ASSUME NEW s \in Slots, Consume(s) \/ AddCredits(s) \/ SetCredits(s)
      PROVE  LogExplainsBalance'
  <2>1. PICK amount \in Int : Books(s, amount)
    BY <1>0, <1>2, BookIs
  <2>2. Busy(s) /\ BuyerRead(s)
    BY <1>0, <1>2, BookIs DEF Busy, BuyerRead, At
  <2>3. QED
    BY <1>0, <2>1, <2>2, LogKept DEF SeenInv, Seen
<1>3. ASSUME NEW s \in Slots, Pay(s) PROVE LogExplainsBalance'
  <2>1. PICK amount \in Int : Books(s, amount)
    BY <1>0, <1>3, PayIs
  <2>2. Busy(s) /\ Paying(s)
    BY <1>0, <1>3, PayIs DEF PayInv, Busy, At
  <2>3. QED
    BY <1>0, <2>1, <2>2, LogKept DEF Paying
<1>4. ASSUME NEW s \in Slots, SetVip(s) PROVE LogExplainsBalance'
  BY <1>0, <1>4, SetVipIs DEF LogExplainsBalance
<1>5. ASSUME NEW s \in Slots, Record(s) PROVE LogExplainsBalance'
  <2>1. At(s, "record") /\ Busy(s)
    BY <1>0, <1>5, RecordIs DEF Busy, At
  <2>2. CASE Sale(s)
    <3>1. /\ BuyerRead(s) /\ SellerRead(s) /\ req[s].user # req[s].other
          /\ req[s].user \in Users /\ req[s].other \in Users /\ req[s].fee \in Nat
      BY <1>0, <2>1, <2>2, BusyIs
         DEF Sale, BuyerRead, SellerRead, Updating, KindInv, Kind, At
    <3>2. Seen(s)
      BY <1>0 DEF SeenInv
    <3>3. ASSUME NEW u \in Users, u \notin raced' PROVE bal'[u] = logged'[u]
      <4>1. u \notin raced /\ bal[u] = logged[u]
        BY <1>0, <2>1, <2>2, <3>1, <3>3, SaleIs DEF LogExplainsBalance
      <4>2. CASE u = req[s].user
        BY <1>0, <2>1, <2>2, <3>1, <3>2, <4>1, <4>2, SaleIs DEF Seen
      <4>3. CASE u = req[s].other
        BY <1>0, <2>1, <2>2, <3>1, <3>2, <4>1, <4>3, SaleIs DEF Seen
      <4>4. CASE u \notin {req[s].user, req[s].other}
        BY <1>0, <2>1, <2>2, <3>1, <4>1, <4>4, SaleIs
      <4>5. QED
        BY <4>2, <4>3, <4>4
    <3>4. QED
      BY <3>3 DEF LogExplainsBalance
  <2>3. CASE ~Sale(s)
    BY <1>0, <1>5, <2>3, RecordIs DEF LogExplainsBalance
  <2>4. QED
    BY <2>2, <2>3
<1>6. CASE Tick
  BY <1>0, <1>6 DEF Tick, LogExplainsBalance
<1>7. CASE UNCHANGED vars
  BY <1>0, <1>7 DEF vars, LogExplainsBalance
<1>8. QED
  BY <1>0, <1>1, <1>2, <1>3, <1>4, <1>5, <1>6, <1>7, StepIs

\* A step that leaves the plans alone grants nothing.
LEMMA GrantKept ==
    ASSUME GrantInv, UNCHANGED <<life, since, elapsed, granted>>
    PROVE  GrantInv'
  BY DEF GrantInv

\* The ticks since the last grant stay ungranted.
LEMMA GrantStep == IInv /\ [Next]_vars => GrantInv'
<1> SUFFICES ASSUME IInv, [Next]_vars PROVE GrantInv'
  OBVIOUS
<1>0. TypeOK /\ PayInv /\ GrantInv
  BY DEF IInv
<1>1. ASSUME NEW s \in Slots, Local(s) PROVE GrantInv'
  BY <1>0, <1>1, GrantKept DEF Local, members
<1>2. ASSUME NEW s \in Slots, Consume(s) \/ AddCredits(s) \/ SetCredits(s) PROVE GrantInv'
  BY <1>0, <1>2, BookIs, GrantKept DEF members
<1>3. ASSUME NEW s \in Slots, Pay(s) PROVE GrantInv'
  <2> DEFINE u == req[s].user
  <2>1. /\ At(s, "pay") /\ Paying(s) /\ u \in Users /\ req[s].sold \in Int
        /\ since' = [since EXCEPT ![u] = 0]
    BY <1>0, <1>3, PayIs, BusyIs DEF PayInv, Busy, At
  <2> SUFFICES ASSUME NEW x \in Users, life'[x]
               PROVE  granted'[x] * Period + since'[x] <= elapsed'[x]
    BY DEF GrantInv
  <2>2. /\ Period \in Nat /\ granted[x] \in Nat /\ since[x] \in Nat /\ elapsed[x] \in Nat
        /\ since'[x] = IF x = u THEN 0 ELSE since[x]
    BY <1>0, <2>1, CreditsAssumption DEF TypeOK
  <2>3. CASE req[s].kind \in Plans
    <3>1. /\ elapsed'[x] = IF x = u THEN 0 ELSE elapsed[x]
          /\ granted'[x] = IF x = u THEN 0 ELSE granted[x]
          /\ x # u => life[x]
      BY <1>0, <1>3, <2>1, <2>3, PayIs DEF TypeOK
    <3>2. CASE x = u
      BY <2>2, <3>1, <3>2
    <3>3. CASE x # u
      BY <1>0, <2>2, <3>1, <3>3 DEF GrantInv
    <3>4. QED
      BY <3>2, <3>3
  <2>4. CASE req[s].kind \notin Plans
    <3>1. /\ elapsed'[x] = elapsed[x] /\ life[x]
          /\ granted'[x] = IF x = u THEN granted[x] + req[s].sold ELSE granted[x]
      BY <1>0, <1>3, <2>1, <2>4, PayIs DEF TypeOK
    <3>2. granted[x] * Period + since[x] <= elapsed[x]
      BY <1>0, <3>1 DEF GrantInv
    <3>3. CASE x = u
      <4>1. req[s].sold \in Nat /\ req[s].sold * Period <= since[x]
        BY <2>1, <2>4, <3>3 DEF Paying
      <4>2. (granted[x] + req[s].sold) * Period = granted[x] * Period + req[s].sold * Period
        BY <2>2, <4>1
      <4>3. granted[x] * Period \in Nat /\ req[s].sold * Period \in Nat
        BY <2>2, <4>1
      <4>4. QED
        BY <2>2, <3>1, <3>2, <3>3, <4>1, <4>2, <4>3
    <3>4. CASE x # u
      BY <2>2, <3>1, <3>2, <3>4
    <3>5. QED
      BY <3>3, <3>4
  <2>5. QED
    BY <2>3, <2>4
<1>4. ASSUME NEW s \in Slots, SetVip(s) PROVE GrantInv'
  BY <1>0, <1>4, SetVipIs, GrantKept
<1>5. ASSUME NEW s \in Slots, Record(s) PROVE GrantInv'
  BY <1>0, <1>5, RecordIs, GrantKept DEF members
<1>6. CASE Tick
  <2> SUFFICES ASSUME NEW x \in Users, life'[x]
               PROVE  granted'[x] * Period + since'[x] <= elapsed'[x]
    BY DEF GrantInv
  <2>1. /\ life[x] /\ granted'[x] = granted[x]
        /\ since'[x] = since[x] + 1 /\ elapsed'[x] = elapsed[x] + 1
    BY <1>6 DEF Tick
  <2>2. /\ Period \in Nat /\ granted[x] \in Nat /\ since[x] \in Nat /\ elapsed[x] \in Nat
        /\ granted[x] * Period + since[x] <= elapsed[x]
    BY <1>0, <2>1, CreditsAssumption DEF TypeOK, GrantInv
  <2>3. granted[x] * Period \in Nat
    BY <2>2
  <2>4. QED
    BY <2>1, <2>2, <2>3
<1>7. CASE UNCHANGED vars
  BY <1>0, <1>7, GrantKept DEF vars, members
<1>8. QED
  BY <1>0, <1>1, <1>2, <1>3, <1>4, <1>5, <1>6, <1>7, StepIs

\* What is charged for becomes owned, and what is owned is not charged for.
LEMMA ChargeStep == IInv /\ [Next]_vars => ChargeInv'
<1> SUFFICES ASSUME IInv, [Next]_vars PROVE ChargeInv'
  OBVIOUS
<1>0. TypeOK /\ ChargeInv
  BY DEF IInv
<1>1. ASSUME charges' = charges, owned \subseteq owned' PROVE ChargeInv'
  BY <1>0, <1>1 DEF ChargeInv
<1>2. ASSUME NEW s \in Slots, Record(s) PROVE ChargeInv'
  <2>1. req[s].user \in Users /\ req[s].other \in Users
    BY <1>0, <1>2, RecordIs, BusyIs DEF Busy, At
  <2>2. CASE Sale(s)
    <3> DEFINE p == <<req[s].user, req[s].other>>
    <3>1. /\ p \in Users \X Users /\ p \notin owned /\ owned' = owned \cup {p}
          /\ charges' = [charges EXCEPT ![p] = @ + 1]
          /\ charges \in [Users \X Users -> Nat]
      BY <1>0, <2>1, <2>2 DEF Sale, TypeOK
    <3> HIDE DEF p
    <3>2. ASSUME NEW q \in Users \X Users
          PROVE  charges'[q] <= 1 /\ (charges'[q] > 0 => q \in owned')
      <4>1. charges[q] \in Nat /\ charges[q] <= 1 /\ (charges[q] > 0 => q \in owned)
        BY <1>0, <3>1 DEF ChargeInv
      <4>2. charges'[q] = IF q = p THEN charges[q] + 1 ELSE charges[q]
        BY <3>1
      <4>3. QED
        BY <3>1, <4>1, <4>2
    <3>3. QED
      BY <3>2 DEF ChargeInv
  <2>3. CASE ~Sale(s)
    BY <1>0, <1>1, <1>2, <2>3, RecordIs
  <2>4. QED
    BY <2>2, <2>3
<1>3. ASSUME NEW s \in Slots,
             Local(s) \/ Pay(s) \/ SetVip(s) \/ Consume(s) \/ AddCredits(s) \/ SetCredits(s)
      PROVE  charges' = charges /\ owned' = owned
  BY <1>0, <1>3, BookIs, PayIs, SetVipIs DEF Local
<1>4. CASE Tick \/ UNCHANGED vars
  BY <1>1, <1>4 DEF Tick, vars
<1>5. QED
  BY <1>0, <1>1, <1>2, <1>3, <1>4, StepIs

\* Nothing is in hand, nothing is granted and nothing is sold.
LEMMA InitInv == Init => IInv
<1> SUFFICES ASSUME Init PROVE IInv
  OBVIOUS
<1>1. TypeOK
  BY CreditsAssumption DEF Init, TypeOK
<1>2. \A s \in Slots : req[s] = Idle /\ At(s, "idle")
  BY DEF Init, At, Idle
<1>3. KindInv /\ LockInv /\ PayInv /\ SeenInv
  BY <1>2 DEF KindInv, LockInv, Apart, Exclusive, Updating, RowsOf, PayInv, SeenInv, Seen,
              BuyerRead, SellerRead, Busy, At, Idle
<1>4. LogExplainsBalance /\ ChargeInv
  BY DEF Init, LogExplainsBalance, ChargeInv
<1>5. GrantInv
  BY CreditsAssumption DEF Init, GrantInv
<1>6. QED
  BY <1>1, <1>3, <1>4, <1>5 DEF IInv

\* The inductive invariant: the requests have the fields their steps need, the locks
\* of PostgreSQL exclude each other, what a grant is decided on stays true under its
\* lock, and what a request has read of a balance that no other commit has touched is
\* still that balance.
THEOREM Invariance == Spec => []IInv
<1>1. IInv /\ [Next]_vars => IInv'
  BY TypesStep, KindStep, LockStep, PayStep, SeenStep, LogStep, GrantStep, ChargeStep
     DEF IInv
<1>2. QED
  BY <1>1, InitInv, PTL DEF Spec

\* For any number of users and web workers, whatever fails: the log of a user adds up
\* to the balance, unless a commit fell between the read and the write of another
\* request or a failed read counted as 0.
THEOREM LogExplainsBalanceAlways == Spec => []LogExplainsBalance
<1>1. IInv => LogExplainsBalance
  BY DEF IInv
<1>2. QED
  BY <1>1, Invariance, PTL

\* For any period, any limit of periods made up at once and any number of looks at a
\* member's status: no more monthly grants than periods since the plan was bought.
THEOREM GrantsNotEarlyAlways == Spec => []GrantsNotEarly
<1>1. IInv => GrantsNotEarly
  <2> SUFFICES ASSUME IInv, NEW u \in Users, life[u]
               PROVE  granted[u] * Period <= elapsed[u]
    BY DEF GrantsNotEarly
  <2>1. /\ granted[u] \in Nat /\ since[u] \in Nat /\ elapsed[u] \in Nat /\ Period \in Nat
        /\ granted[u] * Period + since[u] <= elapsed[u]
    BY CreditsAssumption DEF IInv, TypeOK, GrantInv
  <2>2. granted[u] * Period \in Nat
    BY <2>1
  <2>3. QED
    BY <2>1, <2>2
<1>2. QED
  BY <1>1, Invariance, PTL

\* For any number of concurrent purchases of an indicator: a buyer pays for it once.
THEOREM ChargedOnceAlways == Spec => []ChargedOnce
<1>1. IInv => ChargedOnce
  BY DEF IInv, ChargeInv, ChargedOnce
<1>2. QED
  BY <1>1, Invariance, PTL
=============================================================================
