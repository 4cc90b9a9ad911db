--------------------------- MODULE UsdtOrderProofs ---------------------------
(***************************************************************************)
(* Proofs about USDT orders for any set of orders and polls, any batch     *)
(* limit and any number of faults.                                         *)
(***************************************************************************)
EXTENDS UsdtOrder, TLAPS, FiniteSetTheorems

Steps == {"idle", "chain", "markpaid", "expire", "check", "confirm", "activate"}
Ages == {"none", "fresh", "old"}
Busy(r) == at[r] # "idle"
CreatedOrders == {o \in Orders : status[o] \in Created}
Settled(o) == status[o] \in {"paid", "confirmed"}

RowRecords == [order : Orders \cup {"none"}, status : Created \cup {"none"},
               due : BOOLEAN, old : BOOLEAN]

TypeOK ==
    /\ status \in [Orders -> Created \cup {"requested", "numbered", "refused"}]
    /\ index \in [Orders -> Addresses]
    /\ due \in [Orders -> BOOLEAN]
    /\ transfer \in [Addresses -> Ages] /\ shown \in [Addresses -> BOOLEAN]
    /\ paid \in [Orders -> Ages]
    /\ batch \in Seq([order : Orders, status : Created])
    /\ at \in [Refreshers -> Steps]
    /\ row \in [Refreshers -> RowRecords]
    /\ activated \in [Orders -> Nat]
    /\ overlapped \in [Orders -> BOOLEAN]

\* No two orders have an address in common.
AddressInv == \A o, p \in CreatedOrders : index[o] = index[p] => o = p

\* What payments of orders have to do with transfers.
PaymentInv ==
    \A o \in Orders :
        /\ paid[o] # "none" => o \in CreatedOrders
        /\ Settled(o) => shown[index[o]]
        /\ paid[o] = "old" \/ status[o] = "confirmed" => transfer[index[o]] = "old"

\* The rows of a scan are of orders, and a payment they saw is still one.
BatchInv ==
    \A i \in DOMAIN batch :
        /\ batch[i].order \in CreatedOrders /\ batch[i].status \in {"pending", "paid"}
        /\ batch[i].status = "paid" => Settled(batch[i].order)

\* What a refresh knows at each of its steps, whatever others do meanwhile.
Known(r) ==
    LET o == row[r].order IN
    /\ o \in CreatedOrders
    /\ row[r].old \/ at[r] \in {"check", "confirm", "activate"} => transfer[index[o]] = "old"
    /\ at[r] = "markpaid" => shown[index[o]]
    /\ at[r] \in {"check", "confirm", "activate"} => Settled(o)
    /\ at[r] = "activate" => status[o] = "confirmed"
RowInv == \A r \in Refreshers : Busy(r) => Known(r)

\* A confirmation that did not overlap another is the only one, and activates once.
OnceInv ==
    \A o \in Orders : ~overlapped[o] =>
        /\ activated[o] <= 1
        /\ activated[o] = 1 => status[o] = "confirmed"
        /\ \A r \in Refreshers : row[r].order = o =>
              /\ at[r] = "confirm" => status[o] # "confirmed"
              /\ at[r] = "activate" =>
                    /\ activated[o] = 0
                    /\ \A q \in Refreshers \ {r} : row[q].order = o => at[q] # "activate"

IInv == TypeOK /\ AddressInv /\ PaymentInv /\ BatchInv /\ RowInv /\ OnceInv

-----------------------------------------------------------------------------
(* The steps *)

\* Addresses suffice: the next index of an order that is not created yet is one.
LEMMA NextIndex ==
    ASSUME index \in [Orders -> Addresses], NEW o \in Orders, o \notin CreatedOrders
    PROVE  Cardinality(Taken) \in Addresses
<1> DEFINE f == [p \in CreatedOrders |-> index[p]]
<1>1. IsFiniteSet(Orders) /\ CreatedOrders \subseteq Orders \ {o}
  BY OrderBounds DEF CreatedOrders
<1>2. /\ IsFiniteSet(Orders \ {o}) /\ Cardinality(Orders \ {o}) = Cardinality(Orders) - 1
      /\ Cardinality(Orders) \in Nat
  BY <1>1, FS_RemoveElement, FS_CardinalityType
<1>3. /\ IsFiniteSet(CreatedOrders) /\ Cardinality(CreatedOrders) <= Cardinality(Orders) - 1
      /\ Cardinality(CreatedOrders) \in Nat
  BY <1>1, <1>2, FS_Subset, FS_CardinalityType
<1>4. f \in Surjection(CreatedOrders, Taken)
  BY DEF Surjection, Taken, CreatedOrders
<1>5. IsFiniteSet(Taken) /\ Cardinality(Taken) <= Cardinality(CreatedOrders)
  BY <1>3, <1>4, FS_Surjection
<1>6. Cardinality(Taken) \in Nat
  BY <1>5, FS_CardinalityType
<1>7. QED
  BY <1>2, <1>3, <1>5, <1>6 DEF Addresses

Kept ==
    /\ \A o \in CreatedOrders :
          /\ o \in CreatedOrders' /\ index'[o] = index[o]
          /\ Settled(o) => Settled(o)'
          /\ status[o] = "confirmed" => status'[o] = "confirmed"
    /\ \A a \in Addresses :
          /\ shown[a] => shown'[a]
          /\ transfer[a] = "old" => transfer'[a] = "old"

Elsewhere(r) == \A q \in Refreshers \ {r} : at'[q] = at[q] /\ row'[q] = row[q]

\* What a refresh does when it goes on.
LEMMA GotoIs ==
    ASSUME TypeOK, NEW r \in Refreshers, NEW x \in Steps, Goto(r, x)
    PROVE  /\ at' \in [Refreshers -> Steps] /\ row' \in [Refreshers -> RowRecords]
           /\ at'[r] = x /\ row'[r] = row[r] /\ Elsewhere(r)
  BY DEF Goto, TypeOK, Elsewhere

\* What it does when it ends.
LEMMA DoneIs ==
    ASSUME TypeOK, NEW r \in Refreshers, Done(r)
    PROVE  /\ at' \in [Refreshers -> Steps] /\ row' \in [Refreshers -> RowRecords]
           /\ at'[r] = "idle" /\ Elsewhere(r)
<1>1. NoWork \in RowRecords
  BY DEF NoWork, RowRecords
<1>2. QED
  BY <1>1 DEF Done, TypeOK, Elsewhere, Steps

\* What it does when it starts, on a row that may be older than the order.
LEMMA BeginIs ==
    ASSUME IInv, NEW r \in Refreshers, at[r] = "idle", NEW o \in CreatedOrders,
           NEW read \in Created, read = "paid" => Settled(o), Begin(r, o, read)
    PROVE  /\ at' \in [Refreshers -> Steps] /\ row' \in [Refreshers -> RowRecords]
           /\ Elsewhere(r)
           /\ at'[r] # "idle" =>
                 /\ row'[r].order = o /\ at'[r] \in {"check", "chain"}
                 /\ row'[r].old \/ at'[r] = "check" => transfer[index[o]] = "old"
                 /\ at'[r] = "check" => Settled(o)
<1>1. /\ at \in [Refreshers -> Steps] /\ row \in [Refreshers -> RowRecords]
      /\ due[o] \in BOOLEAN /\ o \in Orders
  BY DEF IInv, TypeOK, CreatedOrders
<1>2. CASE UNCHANGED <<at, row>>
  BY <1>1, <1>2 DEF Elsewhere
<1>3. CASE ~ UNCHANGED <<at, row>>
  <2> DEFINE new == [order |-> o, status |-> read, due |-> due[o],
                     old |-> transfer[index[o]] = "old"]
             x == IF read = "paid" THEN "check" ELSE "chain"
  <2>1. /\ at' = [at EXCEPT ![r] = x] /\ row' = [row EXCEPT ![r] = new]
        /\ read = "paid" => paid[o] = "old"
    BY <1>3 DEF Begin, Ready
  <2>2. (transfer[index[o]] = "old") \in BOOLEAN
    OBVIOUS
  <2>3. new \in RowRecords /\ new.order = o /\ new.old = (transfer[index[o]] = "old")
    BY <1>1, <2>2 DEF RowRecords
  <2>4. x \in Steps /\ x \in {"check", "chain"} /\ (x = "check" => read = "paid")
    BY DEF Steps
  <2> HIDE DEF new, x
  <2>5. read = "paid" => transfer[index[o]] = "old"
    BY <1>1, <2>1 DEF IInv, PaymentInv
  <2>6. /\ at'[r] = x /\ row'[r] = new
        /\ at' \in [Refreshers -> Steps] /\ row' \in [Refreshers -> RowRecords]
        /\ Elsewhere(r)
    BY <1>1, <2>1, <2>3, <2>4 DEF Elsewhere
  <2>7. QED
    BY <2>3, <2>4, <2>5, <2>6
<1>4. QED
  BY <1>2, <1>3

\* The row the worker is to refresh next.
LEMMA NextRowIs ==
    ASSUME IInv, NextRow
    PROVE  /\ Head(batch).order \in CreatedOrders /\ Head(batch).status \in Created
           /\ Head(batch).status = "paid" => Settled(Head(batch).order)
           /\ at["worker"] = "idle" /\ "worker" \in Refreshers
           /\ Begin("worker", Head(batch).order, Head(batch).status)
           /\ batch' = Tail(batch)
           /\ Tail(batch) \in Seq([order : Orders, status : Created])
           /\ DOMAIN Tail(batch) = 1..(Len(batch) - 1) /\ Len(batch) \in Nat
           /\ \A i \in 1..(Len(batch) - 1) : Tail(batch)[i] = batch[i + 1] /\ i + 1 \in DOMAIN batch
           /\ UNCHANGED <<status, index, due, transfer, shown, paid, activated, faults, intime, overlapped>>
<1>1. batch \in Seq([order : Orders, status : Created]) /\ batch # <<>>
  BY DEF NextRow, IInv, TypeOK
<1>2. /\ Head(batch) = batch[1] /\ 1 \in DOMAIN batch /\ Len(batch) \in Nat
      /\ Tail(batch) \in Seq([order : Orders, status : Created])
      /\ DOMAIN Tail(batch) = 1..(Len(batch) - 1)
      /\ \A i \in 1..(Len(batch) - 1) : Tail(batch)[i] = batch[i + 1] /\ i + 1 \in DOMAIN batch
  BY <1>1
<1>3. /\ Head(batch).order \in CreatedOrders /\ Head(batch).status \in Created
      /\ Head(batch).status = "paid" => Settled(Head(batch).order)
  BY <1>2 DEF IInv, BatchInv, Created
<1>4. QED
  BY <1>2, <1>3 DEF NextRow, Refreshers

\* The rows a scan reads.
LEMMA ScanIs ==
    ASSUME IInv, Scan
    PROVE  /\ batch' \in Seq([order : Orders, status : Created])
           /\ \A i \in DOMAIN batch' :
                 /\ batch'[i].order \in CreatedOrders
                 /\ batch'[i].status \in {"pending", "paid"}
                 /\ batch'[i].status = status[batch'[i].order]
           /\ UNCHANGED <<status, index, due, transfer, shown, paid, at, row, activated, faults, intime,
                          overlapped>>
<1> DEFINE open == {o \in Orders : status[o] \in {"pending", "paid"}}
<1>1. PICK s \in OldestOf(open) : batch' = [i \in DOMAIN s |-> Reads(s[i])]
  BY DEF Scan
<1>2. PICK n \in 1..BatchLimit : s \in [1..n -> open]
  BY <1>1 DEF OldestOf
<1>3. n \in Nat
  BY <1>2, OrderBounds
<1>4. /\ DOMAIN batch' = 1..n
      /\ \A i \in 1..n : batch'[i] = [order |-> s[i], status |-> status[s[i]]] /\ s[i] \in open
  BY <1>1, <1>2 DEF Reads
<1> DEFINE b == [i \in 1..n |-> [order |-> s[i], status |-> status[s[i]]]]
<1>5. \A i \in 1..n : [order |-> s[i], status |-> status[s[i]]] \in [order : Orders, status : Created]
  BY <1>4 DEF Created
<1>6. b \in Seq([order : Orders, status : Created]) /\ batch' = b
  BY <1>1, <1>2, <1>3, <1>5 DEF Reads
<1>7. QED
  BY <1>4, <1>6 DEF Scan, CreatedOrders, Created

\* The types are kept.
LEMMA TypesStep == IInv /\ [Next]_vars => TypeOK'
<1> SUFFICES ASSUME IInv, [Next]_vars PROVE TypeOK'
  OBVIOUS
<1>1. ASSUME NEW o \in Orders, Number(o) PROVE TypeOK'
  <2>1. Cardinality(Taken) \in Addresses
    BY <1>1, NextIndex DEF Number, IInv, TypeOK, CreatedOrders, Created
  <2>2. QED
    BY <1>1, <2>1 DEF Number, IInv, TypeOK
<1>2. ASSUME NEW o \in Orders, Insert(o) PROVE TypeOK'
  BY <1>2 DEF Insert, IInv, TypeOK, Steps, Ages, Refreshers, Created, BatchInv, RowInv,
     Busy, CreatedOrders
<1>3. ASSUME NEW o \in Orders, Poll(o) PROVE TypeOK'
  <2>1. /\ o \in CreatedOrders /\ status[o] \in Created /\ at["user"] = "idle"
        /\ status[o] = "paid" => Settled(o)
        /\ Begin("user", o, status[o]) /\ "user" \in Refreshers
    BY <1>3 DEF Poll, CreatedOrders, Settled, Refreshers
  <2>2. at' \in [Refreshers -> Steps] /\ row' \in [Refreshers -> RowRecords]
    BY <2>1, BeginIs
  <2>3. QED
    BY <1>3, <2>2 DEF Poll, IInv, TypeOK
<1>4. ASSUME NEW o \in Orders, Transfer(o) PROVE TypeOK'
  BY <1>4 DEF Transfer, IInv, TypeOK, Steps, Ages, Refreshers, Created, BatchInv,
     RowInv, Busy, CreatedOrders
<1>4a. ASSUME NEW o \in Orders, TransferShows(o) PROVE TypeOK'
  BY <1>4a DEF TransferShows, IInv, TypeOK, Steps, Ages, Refreshers, Created, BatchInv,
     RowInv, Busy, CreatedOrders
<1>5. ASSUME NEW o \in Orders, ComesDue(o) PROVE TypeOK'
  BY <1>5 DEF ComesDue, IInv, TypeOK, Steps, Ages, Refreshers, Created, BatchInv,
     RowInv, Busy, CreatedOrders
<1>6. ASSUME NEW o \in Orders, PaymentAges(o) PROVE TypeOK'
  BY <1>6 DEF PaymentAges, IInv, TypeOK, Steps, Ages, Refreshers, Created, BatchInv,
     RowInv, Busy, CreatedOrders
<1>7. ASSUME NEW a \in Addresses, TransferAges(a) PROVE TypeOK'
  BY <1>7 DEF TransferAges, IInv, TypeOK, Steps, Ages, Refreshers, Created, BatchInv,
     RowInv, Busy, CreatedOrders
<1>8. ASSUME NEW r \in Refreshers, AskChain(r) PROVE TypeOK'
  BY <1>8, GotoIs, DoneIs DEF AskChain, IInv, TypeOK, Steps
<1>9. ASSUME NEW r \in Refreshers, MarkPaid(r) PROVE TypeOK'
  <2>1. at' \in [Refreshers -> Steps] /\ row' \in [Refreshers -> RowRecords]
    BY <1>9, GotoIs, DoneIs DEF MarkPaid, IInv, Steps
  <2>2. QED
    BY <1>9, <2>1 DEF MarkPaid, IInv, TypeOK, Created, Ages
<1>10. ASSUME NEW r \in Refreshers, MarkExpired(r) PROVE TypeOK'
  BY <1>10, DoneIs DEF MarkExpired, IInv, TypeOK, Created
<1>11. ASSUME NEW r \in Refreshers, Check(r) PROVE TypeOK'
  BY <1>11, GotoIs, DoneIs DEF Check, IInv, TypeOK, Steps
<1>12. ASSUME NEW r \in Refreshers, Confirm(r) PROVE TypeOK'
  <2>1. at' \in [Refreshers -> Steps] /\ row' \in [Refreshers -> RowRecords]
    BY <1>12, GotoIs, DoneIs DEF Confirm, IInv, Steps
  <2>2. status' \in [Orders -> Created \cup {"requested", "numbered", "refused"}]
    BY <1>12 DEF Confirm, IInv, TypeOK, Created
  <2>3. overlapped' \in [Orders -> BOOLEAN]
    <3> DEFINE b == overlapped[row[r].order] \/ \E q \in Refreshers \ {r} :
                        row[q].order = row[r].order /\ at[q] = "confirm"
    <3>1. b \in BOOLEAN
      OBVIOUS
    <3>2. overlapped' = overlapped \/ overlapped' = [overlapped EXCEPT ![row[r].order] = b]
      BY <1>12 DEF Confirm
    <3> HIDE DEF b
    <3>3. QED
      BY <3>1, <3>2 DEF IInv, TypeOK
  <2>4. QED
    BY <1>12, <2>1, <2>2, <2>3 DEF Confirm, IInv, TypeOK
<1>13. ASSUME NEW r \in Refreshers, Activate(r) PROVE TypeOK'
  <2>1. at' \in [Refreshers -> Steps] /\ row' \in [Refreshers -> RowRecords]
    BY <1>13, DoneIs DEF Activate, IInv
  <2>2. row[r].order \in Orders
    BY <1>13 DEF Activate, IInv, RowInv, Busy, Known, CreatedOrders
  <2>3. activated' \in [Orders -> Nat]
    BY <1>13, <2>2 DEF Activate, IInv, TypeOK
  <2>4. QED
    BY <1>13, <2>1, <2>3 DEF Activate, IInv, TypeOK
<1>14. CASE Scan
  BY <1>14, ScanIs DEF IInv, TypeOK
<1>15. CASE NextRow
  <2>1. at' \in [Refreshers -> Steps] /\ row' \in [Refreshers -> RowRecords]
    BY <1>15, NextRowIs, BeginIs
  <2>2. QED
    BY <1>15, <2>1, NextRowIs DEF IInv, TypeOK
<1>16. CASE Restart
  BY <1>16 DEF Restart, Fault, NoWork, RowRecords, IInv, TypeOK, Steps, Ages,
     Refreshers, Created, BatchInv, RowInv, Busy, CreatedOrders
<1>17. CASE UNCHANGED vars
  BY <1>17 DEF vars, IInv, TypeOK, Steps, Ages, Refreshers, Created, BatchInv, RowInv,
     Busy, CreatedOrders
<1>18. QED
  BY <1>1, <1>2, <1>3, <1>4, <1>4a, <1>5, <1>6, <1>7, <1>8, <1>9, <1>10, <1>11, <1>12,
     <1>13, <1>14, <1>15, <1>16, <1>17
     DEF Next, Time, Step

\* Orders once created, payments and transfers stay.
LEMMA KeptStep == IInv /\ [Next]_vars => Kept
<1> SUFFICES ASSUME IInv, [Next]_vars PROVE Kept
  OBVIOUS
<1>1. ASSUME NEW o \in Orders, Number(o) PROVE Kept
  BY <1>1 DEF Number, IInv, TypeOK, Ages, Created, CreatedOrders, Settled, Kept
<1>2. ASSUME NEW o \in Orders, Insert(o) PROVE Kept
  BY <1>2 DEF Insert, IInv, TypeOK, Ages, Created, CreatedOrders, Settled, Kept
<1>3. ASSUME NEW o \in Orders, Poll(o) PROVE Kept
  BY <1>3 DEF Poll, Begin, Ready, IInv, TypeOK, Ages, Created, CreatedOrders, Settled, Kept
<1>4. ASSUME NEW o \in Orders, Transfer(o) PROVE Kept
  BY <1>4 DEF Transfer, IInv, TypeOK, Ages, Created, CreatedOrders, Settled, Kept
<1>4a. ASSUME NEW o \in Orders, TransferShows(o) PROVE Kept
  BY <1>4a DEF TransferShows, IInv, TypeOK, Ages, Created, CreatedOrders, Settled, Kept
<1>5. ASSUME NEW o \in Orders, ComesDue(o) PROVE Kept
  BY <1>5 DEF ComesDue, IInv, TypeOK, Ages, Created, CreatedOrders, Settled, Kept
<1>6. ASSUME NEW o \in Orders, PaymentAges(o) PROVE Kept
  BY <1>6 DEF PaymentAges, IInv, TypeOK, Ages, Created, CreatedOrders, Settled, Kept
<1>7. ASSUME NEW a \in Addresses, TransferAges(a) PROVE Kept
  BY <1>7 DEF TransferAges, IInv, TypeOK, Ages, Created, CreatedOrders, Settled, Kept
<1>8. ASSUME NEW r \in Refreshers, AskChain(r) PROVE Kept
  BY <1>8 DEF AskChain, Goto, Done, Fault, NoWork, IInv, TypeOK, Ages, Created,
     CreatedOrders, Settled, Kept
<1>9. ASSUME NEW r \in Refreshers, MarkPaid(r) PROVE Kept
  BY <1>9 DEF MarkPaid, Goto, Done, Fault, NoWork, IInv, TypeOK, Ages, Created,
     CreatedOrders, Settled, Kept
<1>10. ASSUME NEW r \in Refreshers, MarkExpired(r) PROVE Kept
  BY <1>10 DEF MarkExpired, Goto, Done, Fault, NoWork, IInv, TypeOK, Ages, Created,
     CreatedOrders, Settled, Kept
<1>11. ASSUME NEW r \in Refreshers, Check(r) PROVE Kept
  BY <1>11 DEF Check, Goto, Done, NoWork, IInv, TypeOK, Ages, Created, CreatedOrders,
     Settled, Kept
<1>12. ASSUME NEW r \in Refreshers, Confirm(r) PROVE Kept
  <2>1. /\ status' = status
           \/ status' = [status EXCEPT ![row[r].order] = IF @ \in {"paid", "pending"} THEN "confirmed" ELSE @]
        /\ UNCHANGED <<index, transfer, shown>>
    BY <1>12 DEF Confirm
  <2>2. \A o \in Orders : \/ status'[o] = status[o]
                          \/ status[o] \in {"paid", "pending"} /\ status'[o] = "confirmed"
    BY <2>1 DEF IInv, TypeOK
  <2>3. QED
    BY <2>1, <2>2 DEF Created, CreatedOrders, Settled, Kept
<1>13. ASSUME NEW r \in Refreshers, Activate(r) PROVE Kept
  BY <1>13 DEF Activate, Goto, Done, Fault, NoWork, IInv, TypeOK, Ages, Created,
     CreatedOrders, Settled, Kept
<1>14. CASE Scan
  BY <1>14 DEF Scan, Reads, IInv, TypeOK, Ages, Created, CreatedOrders, Settled, Kept
<1>15. CASE NextRow
  BY <1>15 DEF NextRow, Begin, Ready, IInv, TypeOK, Ages, Created, CreatedOrders,
     Settled, Kept
<1>16. CASE Restart
  BY <1>16 DEF Restart, Fault, NoWork, IInv, TypeOK, Ages, Created, CreatedOrders,
     Settled, Kept
<1>17. CASE UNCHANGED vars
  BY <1>17 DEF vars, IInv, TypeOK, Ages, Created, CreatedOrders, Settled, Kept
<1>18. QED
  BY <1>1, <1>2, <1>3, <1>4, <1>4a, <1>5, <1>6, <1>7, <1>8, <1>9, <1>10, <1>11, <1>12,
     <1>13, <1>14, <1>15, <1>16, <1>17
     DEF Next, Time, Step

\* Addresses stay apart.
LEMMA AddressStep == IInv /\ [Next]_vars => AddressInv'
<1> SUFFICES ASSUME IInv, [Next]_vars PROVE AddressInv'
  OBVIOUS
<1>1. ASSUME NEW o \in Orders, Number(o) PROVE AddressInv'
  BY <1>1 DEF Number, IInv, TypeOK, Created, CreatedOrders, AddressInv
<1>2. ASSUME NEW o \in Orders, Insert(o) PROVE AddressInv'
  <2>1. CASE index[o] \in Taken
    BY <1>2, <2>1 DEF Insert, IInv, TypeOK, Created, CreatedOrders, AddressInv
  <2>2. CASE index[o] \notin Taken
    <3>1. CreatedOrders' \subseteq CreatedOrders \cup {o} /\ index' = index
      BY <1>2, <2>2 DEF Insert, CreatedOrders, IInv, TypeOK
    <3>2. \A p \in CreatedOrders : index[p] # index[o]
      BY <2>2 DEF Taken, CreatedOrders
    <3>3. QED
      BY <3>1, <3>2 DEF IInv, AddressInv
  <2>3. QED
    BY <2>1, <2>2
<1>3. ASSUME NEW o \in Orders, Poll(o) PROVE AddressInv'
  BY <1>3 DEF Poll, Begin, Ready, IInv, TypeOK, Created, CreatedOrders, AddressInv
<1>4. ASSUME NEW o \in Orders, Transfer(o) PROVE AddressInv'
  BY <1>4 DEF Transfer, IInv, TypeOK, Created, CreatedOrders, AddressInv
<1>4a. ASSUME NEW o \in Orders, TransferShows(o) PROVE AddressInv'
  BY <1>4a DEF TransferShows, IInv, TypeOK, Created, CreatedOrders, AddressInv
<1>5. ASSUME NEW o \in Orders, ComesDue(o) PROVE AddressInv'
  BY <1>5 DEF ComesDue, IInv, TypeOK, Created, CreatedOrders, AddressInv
<1>6. ASSUME NEW o \in Orders, PaymentAges(o) PROVE AddressInv'
  BY <1>6 DEF PaymentAges, IInv, TypeOK, Created, CreatedOrders, AddressInv
<1>7. ASSUME NEW a \in Addresses, TransferAges(a) PROVE AddressInv'
  BY <1>7 DEF TransferAges, IInv, TypeOK, Created, CreatedOrders, AddressInv
<1>8. ASSUME NEW r \in Refreshers, AskChain(r) PROVE AddressInv'
  BY <1>8 DEF AskChain, Goto, Done, Fault, NoWork, IInv, TypeOK, Created, CreatedOrders,
     AddressInv
<1>9. ASSUME NEW r \in Refreshers, MarkPaid(r) PROVE AddressInv'
  BY <1>9 DEF MarkPaid, Goto, Done, Fault, NoWork, IInv, TypeOK, Created, CreatedOrders,
     AddressInv
<1>10. ASSUME NEW r \in Refreshers, MarkExpired(r) PROVE AddressInv'
  BY <1>10 DEF MarkExpired, Goto, Done, Fault, NoWork, IInv, TypeOK, Created,
     CreatedOrders, AddressInv
<1>11. ASSUME NEW r \in Refreshers, Check(r) PROVE AddressInv'
  BY <1>11 DEF Check, Goto, Done, NoWork, IInv, TypeOK, Created, CreatedOrders, AddressInv
<1>12. ASSUME NEW r \in Refreshers, Confirm(r) PROVE AddressInv'
  <2>1. /\ \/ status' = status
           \/ status' = [status EXCEPT ![row[r].order] = IF @ \in {"paid", "pending"} THEN "confirmed" ELSE @]
        /\ index' = index
    BY <1>12 DEF Confirm
  <2>2. \A o \in Orders : \/ status'[o] = status[o]
                          \/ status[o] \in {"paid", "pending"} /\ status'[o] = "confirmed"
    BY <2>1 DEF IInv, TypeOK
  <2>3. CreatedOrders' = CreatedOrders
    BY <2>2 DEF CreatedOrders, Created
  <2>4. QED
    BY <2>1, <2>3 DEF IInv, AddressInv
<1>13. ASSUME NEW r \in Refreshers, Activate(r) PROVE AddressInv'
  BY <1>13 DEF Activate, Goto, Done, Fault, NoWork, IInv, TypeOK, Created,
     CreatedOrders, AddressInv
<1>14. CASE Scan
  BY <1>14 DEF Scan, Reads, IInv, TypeOK, Created, CreatedOrders, AddressInv
<1>15. CASE NextRow
  BY <1>15 DEF NextRow, Begin, Ready, IInv, TypeOK, Created, CreatedOrders, AddressInv
<1>16. CASE Restart
  BY <1>16 DEF Restart, Fault, NoWork, IInv, TypeOK, Created, CreatedOrders, AddressInv
<1>17. CASE UNCHANGED vars
  BY <1>17 DEF vars, IInv, TypeOK, Created, CreatedOrders, AddressInv
<1>18. QED
  BY <1>1, <1>2, <1>3, <1>4, <1>4a, <1>5, <1>6, <1>7, <1>8, <1>9, <1>10, <1>11, <1>12,
     <1>13, <1>14, <1>15, <1>16, <1>17
     DEF Next, Time, Step

\* Payments stay backed.
LEMMA PaymentStep == IInv /\ [Next]_vars => PaymentInv'
<1> SUFFICES ASSUME IInv, [Next]_vars PROVE PaymentInv'
  OBVIOUS
<1>1. ASSUME NEW o \in Orders, Number(o) PROVE PaymentInv'
  BY <1>1, KeptStep
     DEF Number, IInv, TypeOK, Steps, Ages, Refreshers, Created, CreatedOrders,
     PaymentInv, Settled, Kept, RowInv, Busy
<1>2. ASSUME NEW o \in Orders, Insert(o) PROVE PaymentInv'
  BY <1>2, KeptStep
     DEF Insert, IInv, TypeOK, Steps, Ages, Refreshers, Created, CreatedOrders,
     PaymentInv, Settled, Kept, RowInv, Busy
<1>3. ASSUME NEW o \in Orders, Poll(o) PROVE PaymentInv'
  BY <1>3, KeptStep DEF Poll, Begin, Ready, IInv, TypeOK, Steps, Ages, Refreshers,
     Created, CreatedOrders, PaymentInv, Settled, Kept, RowInv, Busy
<1>4. ASSUME NEW o \in Orders, Transfer(o) PROVE PaymentInv'
  BY <1>4, KeptStep
     DEF Transfer, IInv, TypeOK, Steps, Ages, Refreshers, Created, CreatedOrders,
     PaymentInv, Settled, Kept, RowInv, Busy
<1>4a. ASSUME NEW o \in Orders, TransferShows(o) PROVE PaymentInv'
  BY <1>4a, KeptStep
     DEF TransferShows, IInv, TypeOK, Steps, Ages, Refreshers, Created, CreatedOrders,
     PaymentInv, Settled, Kept, RowInv, Busy
<1>5. ASSUME NEW o \in Orders, ComesDue(o) PROVE PaymentInv'
  BY <1>5, KeptStep
     DEF ComesDue, IInv, TypeOK, Steps, Ages, Refreshers, Created, CreatedOrders,
     PaymentInv, Settled, Kept, RowInv, Busy
<1>6. ASSUME NEW o \in Orders, PaymentAges(o) PROVE PaymentInv'
  BY <1>6, KeptStep
     DEF PaymentAges, IInv, TypeOK, Steps, Ages, Refreshers, Created, CreatedOrders,
     PaymentInv, Settled, Kept, RowInv, Busy
<1>7. ASSUME NEW a \in Addresses, TransferAges(a) PROVE PaymentInv'
  BY <1>7, KeptStep
     DEF TransferAges, IInv, TypeOK, Steps, Ages, Refreshers, Created, CreatedOrders,
     PaymentInv, Settled, Kept, RowInv, Busy
<1>8. ASSUME NEW r \in Refreshers, AskChain(r) PROVE PaymentInv'
  BY <1>8, KeptStep
     DEF AskChain, Goto, Done, Fault, NoWork, IInv, TypeOK, Steps, Ages, Refreshers,
     Created, CreatedOrders, PaymentInv, Settled, Kept, RowInv, Busy
<1>9. ASSUME NEW r \in Refreshers, MarkPaid(r) PROVE PaymentInv'
  <2> DEFINE own == row[r].order
  <2>1. own \in Orders /\ own \in CreatedOrders /\ UNCHANGED <<index, transfer, shown>>
    BY <1>9 DEF MarkPaid, IInv, RowInv, Busy, Known, CreatedOrders
  <2>2. shown[index[own]]
    BY <1>9 DEF MarkPaid, IInv, RowInv, Busy, Known
  <2>3. \/ UNCHANGED <<status, paid>>
        \/ status' = [status EXCEPT ![own] = "paid"] /\ paid' = [paid EXCEPT ![own] = "fresh"]
    BY <1>9 DEF MarkPaid
  <2>4. CASE UNCHANGED <<status, paid>>
    BY <2>1, <2>4 DEF IInv, PaymentInv, CreatedOrders, Settled
  <2>5. CASE status' = [status EXCEPT ![own] = "paid"] /\ paid' = [paid EXCEPT ![own] = "fresh"]
    <3>1. /\ status'[own] = "paid" /\ paid'[own] = "fresh"
          /\ \A o \in Orders \ {own} : status'[o] = status[o] /\ paid'[o] = paid[o]
      BY <2>1, <2>5 DEF IInv, TypeOK
    <3>2. QED
      BY <2>1, <2>2, <3>1 DEF IInv, PaymentInv, CreatedOrders, Settled, Created
  <2>6. QED
    BY <2>3, <2>4, <2>5
<1>10. ASSUME NEW r \in Refreshers, MarkExpired(r) PROVE PaymentInv'
  BY <1>10, KeptStep
     DEF MarkExpired, Goto, Done, Fault, NoWork, IInv, TypeOK, Steps, Ages, Refreshers,
     Created, CreatedOrders, PaymentInv, Settled, Kept, RowInv, Busy
<1>11. ASSUME NEW r \in Refreshers, Check(r) PROVE PaymentInv'
  BY <1>11, KeptStep
     DEF Check, Goto, Done, NoWork, IInv, TypeOK, Steps, Ages, Refreshers, Created,
     CreatedOrders, PaymentInv, Settled, Kept, RowInv, Busy
<1>12. ASSUME NEW r \in Refreshers, Confirm(r) PROVE PaymentInv'
  <2> DEFINE own == row[r].order
  <2>1. /\ own \in Orders /\ transfer[index[own]] = "old" /\ Settled(own)
        /\ UNCHANGED <<index, transfer, shown, paid>>
    BY <1>12 DEF Confirm, IInv, RowInv, Busy, Known, CreatedOrders
  <2>2. \/ status' = status
        \/ status' = [status EXCEPT ![own] = IF @ \in {"paid", "pending"} THEN "confirmed" ELSE @]
    BY <1>12 DEF Confirm
  <2>3. /\ \A o \in Orders \ {own} : status'[o] = status[o]
        /\ status'[own] = status[own] \/ status'[own] = "confirmed"
    BY <2>1, <2>2 DEF IInv, TypeOK
  <2>4. \A o \in Orders : o \in CreatedOrders => o \in CreatedOrders'
    BY KeptStep DEF Kept
  <2>5. ASSUME NEW o \in Orders
        PROVE  /\ paid'[o] # "none" => o \in CreatedOrders'
               /\ Settled(o)' => shown'[index'[o]]
               /\ paid'[o] = "old" \/ status'[o] = "confirmed" => transfer'[index'[o]] = "old"
    BY <2>1, <2>3, <2>4 DEF IInv, PaymentInv, Settled
  <2>6. QED
    BY <2>5 DEF PaymentInv
<1>13. ASSUME NEW r \in Refreshers, Activate(r) PROVE PaymentInv'
  BY <1>13, KeptStep
     DEF Activate, Goto, Done, Fault, NoWork, IInv, TypeOK, Steps, Ages, Refreshers,
     Created, CreatedOrders, PaymentInv, Settled, Kept, RowInv, Busy
<1>14. CASE Scan
  BY <1>14, KeptStep
     DEF Scan, Reads, IInv, TypeOK, Steps, Ages, Refreshers, Created, CreatedOrders,
     PaymentInv, Settled, Kept, RowInv, Busy
<1>15. CASE NextRow
  BY <1>15, KeptStep
     DEF NextRow, Begin, Ready, IInv, TypeOK, Steps, Ages, Refreshers, Created,
     CreatedOrders, PaymentInv, Settled, Kept, RowInv, Busy
<1>16. CASE Restart
  BY <1>16, KeptStep
     DEF Restart, Fault, NoWork, IInv, TypeOK, Steps, Ages, Refreshers, Created,
     CreatedOrders, PaymentInv, Settled, Kept, RowInv, Busy
<1>17. CASE UNCHANGED vars
  BY <1>17, KeptStep
     DEF vars, IInv, TypeOK, Steps, Ages, Refreshers, Created, CreatedOrders,
     PaymentInv, Settled, Kept, RowInv, Busy
<1>18. QED
  BY <1>1, <1>2, <1>3, <1>4, <1>4a, <1>5, <1>6, <1>7, <1>8, <1>9, <1>10, <1>11, <1>12,
     <1>13, <1>14, <1>15, <1>16, <1>17
     DEF Next, Time, Step

\* Batches stay good.
LEMMA BatchStep == IInv /\ [Next]_vars => BatchInv'
<1> SUFFICES ASSUME IInv, [Next]_vars PROVE BatchInv'
  OBVIOUS
<1>1. ASSUME NEW o \in Orders, Number(o) PROVE BatchInv'
  BY <1>1, KeptStep
     DEF Number, IInv, TypeOK, Steps, Ages, Refreshers, Created, CreatedOrders,
     BatchInv, Settled, Kept
<1>2. ASSUME NEW o \in Orders, Insert(o) PROVE BatchInv'
  BY <1>2, KeptStep
     DEF Insert, IInv, TypeOK, Steps, Ages, Refreshers, Created, CreatedOrders,
     BatchInv, Settled, Kept
<1>3. ASSUME NEW o \in Orders, Poll(o) PROVE BatchInv'
  BY <1>3, KeptStep DEF Poll, Begin, Ready, IInv, TypeOK, Steps, Ages, Refreshers,
     Created, CreatedOrders, BatchInv, Settled, Kept
<1>4. ASSUME NEW o \in Orders, Transfer(o) PROVE BatchInv'
  BY <1>4, KeptStep
     DEF Transfer, IInv, TypeOK, Steps, Ages, Refreshers, Created, CreatedOrders,
     BatchInv, Settled, Kept
<1>4a. ASSUME NEW o \in Orders, TransferShows(o) PROVE BatchInv'
  BY <1>4a, KeptStep
     DEF TransferShows, IInv, TypeOK, Steps, Ages, Refreshers, Created, CreatedOrders,
     BatchInv, Settled, Kept
<1>5. ASSUME NEW o \in Orders, ComesDue(o) PROVE BatchInv'
  BY <1>5, KeptStep
     DEF ComesDue, IInv, TypeOK, Steps, Ages, Refreshers, Created, CreatedOrders,
     BatchInv, Settled, Kept
<1>6. ASSUME NEW o \in Orders, PaymentAges(o) PROVE BatchInv'
  BY <1>6, KeptStep
     DEF PaymentAges, IInv, TypeOK, Steps, Ages, Refreshers, Created, CreatedOrders,
     BatchInv, Settled, Kept
<1>7. ASSUME NEW a \in Addresses, TransferAges(a) PROVE BatchInv'
  BY <1>7, KeptStep
     DEF TransferAges, IInv, TypeOK, Steps, Ages, Refreshers, Created, CreatedOrders,
     BatchInv, Settled, Kept
<1>8. ASSUME NEW r \in Refreshers, AskChain(r) PROVE BatchInv'
  BY <1>8, KeptStep
     DEF AskChain, Goto, Done, Fault, NoWork, IInv, TypeOK, Steps, Ages, Refreshers,
     Created, CreatedOrders, BatchInv, Settled, Kept
<1>9. ASSUME NEW r \in Refreshers, MarkPaid(r) PROVE BatchInv'
  BY <1>9, KeptStep
     DEF MarkPaid, Goto, Done, Fault, NoWork, IInv, TypeOK, Steps, Ages, Refreshers,
     Created, CreatedOrders, BatchInv, Settled, Kept
<1>10. ASSUME NEW r \in Refreshers, MarkExpired(r) PROVE BatchInv'
  BY <1>10, KeptStep
     DEF MarkExpired, Goto, Done, Fault, NoWork, IInv, TypeOK, Steps, Ages, Refreshers,
     Created, CreatedOrders, BatchInv, Settled, Kept
<1>11. ASSUME NEW r \in Refreshers, Check(r) PROVE BatchInv'
  BY <1>11, KeptStep
     DEF Check, Goto, Done, NoWork, IInv, TypeOK, Steps, Ages, Refreshers, Created,
     CreatedOrders, BatchInv, Settled, Kept
<1>12. ASSUME NEW r \in Refreshers, Confirm(r) PROVE BatchInv'
  BY <1>12, KeptStep
     DEF Confirm, Goto, Done, Fault, NoWork, IInv, TypeOK, Steps, Ages, Refreshers,
     Created, CreatedOrders, BatchInv, Settled, Kept
<1>13. ASSUME NEW r \in Refreshers, Activate(r) PROVE BatchInv'
  BY <1>13, KeptStep
     DEF Activate, Goto, Done, Fault, NoWork, IInv, TypeOK, Steps, Ages, Refreshers,
     Created, CreatedOrders, BatchInv, Settled, Kept
<1>14. CASE Scan
  BY <1>14, ScanIs DEF IInv, BatchInv, CreatedOrders, Settled
<1>15. CASE NextRow
  BY <1>15, KeptStep
     DEF NextRow, Begin, Ready, IInv, TypeOK, Steps, Ages, Refreshers, Created,
     CreatedOrders, BatchInv, Settled, Kept
<1>16. CASE Restart
  BY <1>16, KeptStep
     DEF Restart, Fault, NoWork, IInv, TypeOK, Steps, Ages, Refreshers, Created,
     CreatedOrders, BatchInv, Settled, Kept
<1>17. CASE UNCHANGED vars
  BY <1>17, KeptStep
     DEF vars, IInv, TypeOK, Steps, Ages, Refreshers, Created, CreatedOrders, BatchInv,
     Settled, Kept
<1>18. QED
  BY <1>1, <1>2, <1>3, <1>4, <1>4a, <1>5, <1>6, <1>7, <1>8, <1>9, <1>10, <1>11, <1>12,
     <1>13, <1>14, <1>15, <1>16, <1>17
     DEF Next, Time, Step

\* What a refresh knows is not undone by what others do.
LEMMA KnownStays ==
    ASSUME IInv, Kept, NEW q \in Refreshers, at'[q] = at[q], row'[q] = row[q], Busy(q)
    PROVE  Known(q)'
<1> DEFINE o == row[q].order
<1>1. Known(q) /\ o \in CreatedOrders /\ index[o] \in Addresses
  BY DEF IInv, RowInv, Known, TypeOK, CreatedOrders
<1>2. /\ o \in CreatedOrders' /\ index'[o] = index[o] /\ (Settled(o) => Settled(o)')
      /\ status[o] = "confirmed" => status'[o] = "confirmed"
      /\ shown[index[o]] => shown'[index[o]]
      /\ transfer[index[o]] = "old" => transfer'[index[o]] = "old"
  BY <1>1 DEF Kept
<1>3. QED
  BY <1>1, <1>2 DEF Known

\* Rows stay good.
LEMMA RowStep == IInv /\ [Next]_vars => RowInv'
<1> SUFFICES ASSUME IInv, [Next]_vars PROVE RowInv'
  OBVIOUS
<1>1. ASSUME NEW o \in Orders, Number(o) PROVE RowInv'
  BY <1>1, KeptStep, KnownStays DEF Number, RowInv, Busy
<1>2. ASSUME NEW o \in Orders, Insert(o) PROVE RowInv'
  BY <1>2, KeptStep, KnownStays DEF Insert, RowInv, Busy
<1>3. ASSUME NEW o \in Orders, Poll(o) PROVE RowInv'
  <2>1. /\ o \in CreatedOrders /\ status[o] \in Created /\ at["user"] = "idle"
        /\ status[o] = "paid" => Settled(o)
        /\ Begin("user", o, status[o]) /\ "user" \in Refreshers
    BY <1>3 DEF Poll, CreatedOrders, Settled, Refreshers
  <2>2. Busy("user")' => Known("user")'
    <3>1. UNCHANGED <<status, index, transfer, shown>>
      BY <1>3 DEF Poll
    <3>2. QED
      BY <2>1, <3>1, BeginIs DEF Known, Busy, CreatedOrders, Settled
  <2>3. Elsewhere("user")
    BY <2>1, BeginIs
  <2>4. QED
    BY <2>2, <2>3, KeptStep, KnownStays DEF RowInv, Busy, Elsewhere
<1>4. ASSUME NEW o \in Orders, Transfer(o) PROVE RowInv'
  BY <1>4, KeptStep, KnownStays DEF Transfer, RowInv, Busy
<1>4a. ASSUME NEW o \in Orders, TransferShows(o) PROVE RowInv'
  BY <1>4a, KeptStep, KnownStays DEF TransferShows, RowInv, Busy
<1>5. ASSUME NEW o \in Orders, ComesDue(o) PROVE RowInv'
  BY <1>5, KeptStep, KnownStays DEF ComesDue, RowInv, Busy
<1>6. ASSUME NEW o \in Orders, PaymentAges(o) PROVE RowInv'
  BY <1>6, KeptStep, KnownStays DEF PaymentAges, RowInv, Busy
<1>7. ASSUME NEW a \in Addresses, TransferAges(a) PROVE RowInv'
  BY <1>7, KeptStep, KnownStays DEF TransferAges, RowInv, Busy
<1>8. ASSUME NEW r \in Refreshers, AskChain(r) PROVE RowInv'
  <2>1. /\ Known(r) /\ UNCHANGED <<status, index, transfer, shown>>
        /\ at'[r] # "idle" =>
              /\ row'[r] = row[r] /\ at'[r] \in {"markpaid", "expire"}
              /\ at'[r] = "markpaid" => shown[index[row[r].order]]
    BY <1>8, GotoIs, DoneIs DEF AskChain, IInv, RowInv, Busy, Steps
  <2>2. Busy(r)' => Known(r)'
    BY <2>1 DEF Known, Busy, CreatedOrders, Settled
  <2>3. Elsewhere(r)
    BY <1>8, GotoIs, DoneIs DEF AskChain, IInv, Steps
  <2>4. QED
    BY <2>2, <2>3, KeptStep, KnownStays DEF RowInv, Busy, Elsewhere
<1>9. ASSUME NEW r \in Refreshers, MarkPaid(r) PROVE RowInv'
  <2>1. Known(r) /\ UNCHANGED <<index, transfer, shown>> /\ Elsewhere(r)
    BY <1>9, GotoIs, DoneIs DEF MarkPaid, IInv, RowInv, Busy, Steps
  <2>2. CASE at'[r] = "idle"
    BY <2>1, <2>2, KeptStep, KnownStays DEF RowInv, Busy, Elsewhere
  <2>3. CASE at'[r] # "idle"
    <3>1. /\ row'[r] = row[r] /\ at'[r] = "check" /\ row[r].old
          /\ status[row[r].order] \in {"pending", "expired"} =>
                status' = [status EXCEPT ![row[r].order] = "paid"]
          /\ status[row[r].order] \notin {"pending", "expired"} => status' = status
      BY <1>9, <2>3, GotoIs, DoneIs DEF MarkPaid, IInv, Steps
    <3>2. row[r].order \in Orders /\ status[row[r].order] \in Created
      BY <2>1 DEF Known, CreatedOrders
    <3>3. Settled(row[r].order)' /\ row[r].order \in CreatedOrders'
      BY <3>1, <3>2 DEF IInv, TypeOK, Settled, Created, CreatedOrders
    <3>4. Known(r)'
      BY <2>1, <3>1, <3>3 DEF Known
    <3>5. QED
      BY <2>1, <3>4, KeptStep, KnownStays DEF RowInv, Busy, Elsewhere
  <2>4. QED
    BY <2>2, <2>3
<1>10. ASSUME NEW r \in Refreshers, MarkExpired(r) PROVE RowInv'
  <2>1. at'[r] = "idle" /\ Elsewhere(r)
    BY <1>10, DoneIs DEF MarkExpired, IInv
  <2>2. QED
    BY <2>1, KeptStep, KnownStays DEF RowInv, Busy, Elsewhere
<1>11. ASSUME NEW r \in Refreshers, Check(r) PROVE RowInv'
  <2>1. /\ Known(r) /\ UNCHANGED <<status, index, transfer, shown>> /\ Elsewhere(r) /\ at[r] = "check"
        /\ at'[r] # "idle" => at'[r] = "confirm" /\ row'[r] = row[r]
    BY <1>11, GotoIs, DoneIs DEF Check, IInv, RowInv, Busy, Steps
  <2>2. Busy(r)' => Known(r)'
    BY <2>1 DEF Known, Busy, CreatedOrders, Settled
  <2>3. QED
    BY <2>1, <2>2, KeptStep, KnownStays DEF RowInv, Busy, Elsewhere
<1>12. ASSUME NEW r \in Refreshers, Confirm(r) PROVE RowInv'
  <2>1. Known(r) /\ UNCHANGED <<index, transfer, shown>> /\ Elsewhere(r)
    BY <1>12, GotoIs, DoneIs DEF Confirm, IInv, RowInv, Busy, Steps
  <2>2. CASE at'[r] = "idle"
    BY <2>1, <2>2, KeptStep, KnownStays DEF RowInv, Busy, Elsewhere
  <2>3. CASE at'[r] # "idle"
    <3>1. /\ row'[r] = row[r] /\ at[r] = "confirm" /\ at'[r] = "activate"
          /\ status' = [status EXCEPT ![row[r].order] =
                            IF @ \in {"paid", "pending"} THEN "confirmed" ELSE @]
      BY <1>12, <2>3, GotoIs, DoneIs DEF Confirm, IInv, Steps
    <3>2. row[r].order \in Orders /\ Settled(row[r].order)
      BY <2>1, <3>1 DEF Known, CreatedOrders
    <3>3. status'[row[r].order] = "confirmed"
      BY <3>1, <3>2 DEF IInv, TypeOK, Settled
    <3>4. Known(r)'
      BY <2>1, <3>1, <3>2, <3>3 DEF Known, CreatedOrders, Created, Settled
    <3>5. QED
      BY <2>1, <3>4, KeptStep, KnownStays DEF RowInv, Busy, Elsewhere
  <2>4. QED
    BY <2>2, <2>3
<1>13. ASSUME NEW r \in Refreshers, Activate(r) PROVE RowInv'
  <2>1. at'[r] = "idle" /\ Elsewhere(r)
    BY <1>13, DoneIs DEF Activate, IInv
  <2>2. QED
    BY <2>1, KeptStep, KnownStays DEF RowInv, Busy, Elsewhere
<1>14. CASE Scan
  BY <1>14, KeptStep, KnownStays DEF Scan, RowInv, Busy
<1>15. CASE NextRow
  <2>1. UNCHANGED <<status, index, transfer, shown>> /\ Elsewhere("worker") /\ "worker" \in Refreshers
    BY <1>15, NextRowIs, BeginIs
  <2>2. Busy("worker")' => Known("worker")'
    BY <1>15, <2>1, NextRowIs, BeginIs DEF Known, Busy, CreatedOrders, Settled
  <2>3. QED
    BY <2>1, <2>2, KeptStep, KnownStays DEF RowInv, Busy, Elsewhere
<1>16. CASE Restart
  BY <1>16, KeptStep
     DEF Restart, Fault, NoWork, IInv, TypeOK, Steps, Ages, Refreshers, Created,
     CreatedOrders, RowInv, Busy, PaymentInv, BatchInv, Settled, Kept
<1>17. CASE UNCHANGED vars
  BY <1>17, KeptStep, KnownStays DEF vars, RowInv, Busy
<1>18. QED
  BY <1>1, <1>2, <1>3, <1>4, <1>4a, <1>5, <1>6, <1>7, <1>8, <1>9, <1>10, <1>11, <1>12,
     <1>13, <1>14, <1>15, <1>16, <1>17
     DEF Next, Time, Step

\* Confirmations stay single.
LEMMA OnceStep == IInv /\ [Next]_vars => OnceInv'
<1> SUFFICES ASSUME IInv, [Next]_vars PROVE OnceInv'
  OBVIOUS
<1>1. ASSUME NEW o \in Orders, Number(o) PROVE OnceInv'
  BY <1>1 DEF Number, IInv, TypeOK, Steps, Ages, Refreshers, Created, CreatedOrders,
     RowInv, Busy, Settled, OnceInv
<1>2. ASSUME NEW o \in Orders, Insert(o) PROVE OnceInv'
  BY <1>2 DEF Insert, IInv, TypeOK, Steps, Ages, Refreshers, Created, CreatedOrders,
     RowInv, Busy, Settled, OnceInv
<1>3. ASSUME NEW o \in Orders, Poll(o) PROVE OnceInv'
  <2>1. /\ o \in CreatedOrders /\ status[o] \in Created /\ at["user"] = "idle"
        /\ status[o] = "paid" => Settled(o)
        /\ Begin("user", o, status[o]) /\ "user" \in Refreshers
        /\ UNCHANGED <<status, activated, overlapped>>
    BY <1>3 DEF Poll, CreatedOrders, Settled, Refreshers
  <2>2. at'["user"] \notin {"confirm", "activate"} /\ Elsewhere("user")
    BY <2>1, BeginIs
  <2>3. QED
    BY <2>1, <2>2 DEF IInv, OnceInv, Elsewhere
<1>4. ASSUME NEW o \in Orders, Transfer(o) PROVE OnceInv'
  BY <1>4 DEF Transfer, IInv, TypeOK, Steps, Ages, Refreshers, Created, CreatedOrders,
     RowInv, Busy, Settled, OnceInv
<1>4a. ASSUME NEW o \in Orders, TransferShows(o) PROVE OnceInv'
  BY <1>4a DEF TransferShows, IInv, TypeOK, Steps, Ages, Refreshers, Created, CreatedOrders,
     RowInv, Busy, Settled, OnceInv
<1>5. ASSUME NEW o \in Orders, ComesDue(o) PROVE OnceInv'
  BY <1>5 DEF ComesDue, IInv, TypeOK, Steps, Ages, Refreshers, Created, CreatedOrders,
     RowInv, Busy, Settled, OnceInv
<1>6. ASSUME NEW o \in Orders, PaymentAges(o) PROVE OnceInv'
  BY <1>6 DEF PaymentAges, IInv, TypeOK, Steps, Ages, Refreshers, Created,
     CreatedOrders, RowInv, Busy, Settled, OnceInv
<1>7. ASSUME NEW a \in Addresses, TransferAges(a) PROVE OnceInv'
  BY <1>7 DEF TransferAges, IInv, TypeOK, Steps, Ages, Refreshers, Created,
     CreatedOrders, RowInv, Busy, Settled, OnceInv
<1>8. ASSUME NEW r \in Refreshers, AskChain(r) PROVE OnceInv'
  BY <1>8 DEF AskChain, Goto, Done, Fault, NoWork, IInv, TypeOK, Steps, Ages,
     Refreshers, Created, CreatedOrders, RowInv, Busy, Settled, OnceInv
<1>9. ASSUME NEW r \in Refreshers, MarkPaid(r) PROVE OnceInv'
  BY <1>9 DEF MarkPaid, Goto, Done, Fault, NoWork, IInv, TypeOK, Steps, Ages,
     Refreshers, Created, CreatedOrders, RowInv, Busy, Settled, OnceInv
<1>10. ASSUME NEW r \in Refreshers, MarkExpired(r) PROVE OnceInv'
  BY <1>10
     DEF MarkExpired, Goto, Done, Fault, NoWork, IInv, TypeOK, Steps, Ages, Refreshers,
     Created, CreatedOrders, RowInv, Busy, Settled, OnceInv
<1>11. ASSUME NEW r \in Refreshers, Check(r) PROVE OnceInv'
  BY <1>11 DEF Check, Goto, Done, NoWork, IInv, TypeOK, Steps, Ages, Refreshers,
     Created, CreatedOrders, RowInv, Busy, Settled, OnceInv
<1>12. ASSUME NEW r \in Refreshers, Confirm(r) PROVE OnceInv'
  <2> DEFINE own == row[r].order
  <2>1. Known(r) /\ activated' = activated /\ at[r] = "confirm"
    BY <1>12 DEF Confirm, IInv, RowInv, Busy
  <2>2. CASE Fault /\ Done(r) /\ UNCHANGED <<status, overlapped>>
    <3>1. at'[r] = "idle" /\ Elsewhere(r) /\ UNCHANGED <<status, overlapped>>
      BY <2>2, DoneIs DEF IInv
    <3>2. QED
      BY <2>1, <3>1 DEF IInv, OnceInv, Elsewhere
  <2>3. CASE Goto(r, "activate")
    <3>1. /\ at'[r] = "activate" /\ row'[r] = row[r] /\ Elsewhere(r)
          /\ \A o \in Orders : o # own => status'[o] = status[o] /\ overlapped'[o] = overlapped[o]
      BY <1>12, <2>3, GotoIs DEF Confirm, IInv, TypeOK, Steps, Fault
    <3>2. \A q \in Refreshers : row'[q] = row[q]
      BY <3>1 DEF Elsewhere
    <3>3. own \in Orders /\ Settled(own)
      BY <2>1 DEF Known, CreatedOrders
    <3>4. ASSUME ~overlapped'[own]
          PROVE  /\ ~overlapped[own] /\ status'[own] = "confirmed"
                 /\ \A q \in Refreshers \ {r} : row[q].order = own => at[q] # "confirm"
      <4>1. overlapped' = [overlapped EXCEPT ![own] = @ \/ \E q \in Refreshers \ {r} :
                                                 row[q].order = own /\ at[q] = "confirm"]
        BY <1>12, <2>3, <3>1 DEF Confirm, Done, Fault, IInv, TypeOK
      <4>2. ~overlapped[own] /\ \A q \in Refreshers \ {r} : row[q].order = own => at[q] # "confirm"
        BY <3>3, <3>4, <4>1 DEF IInv, TypeOK
      <4>3. status' = [status EXCEPT ![own] = IF @ \in {"paid", "pending"} THEN "confirmed" ELSE @]
        BY <1>12, <2>3, <3>1 DEF Confirm, Done, Fault, IInv, TypeOK
      <4>4. status'[own] = "confirmed"
        BY <3>3, <4>3 DEF IInv, TypeOK, Settled
      <4>5. QED
        BY <4>2, <4>4
    <3>5. ASSUME ~overlapped'[own]
          PROVE  /\ activated[own] = 0
                 /\ \A q \in Refreshers : row[q].order = own => at[q] # "activate"
      <4>1. status[own] # "confirmed" /\ activated[own] \in Nat
        BY <2>1, <3>3, <3>4, <3>5 DEF IInv, OnceInv, TypeOK
      <4>2. activated[own] = 0
        BY <3>3, <3>4, <3>5, <4>1 DEF IInv, OnceInv
      <4>3. QED
        BY <3>3, <4>1, <4>2 DEF IInv, RowInv, Busy, Known
    <3>6. ASSUME NEW o \in Orders, ~overlapped'[o], o = own
          PROVE  /\ activated'[o] <= 1 /\ activated'[o] # 1
                 /\ \A q \in Refreshers : row'[q].order = o =>
                      /\ at'[q] # "confirm"
                      /\ at'[q] = "activate" => activated'[o] = 0 /\ q = r
      BY <2>1, <3>1, <3>2, <3>4, <3>5, <3>6 DEF Elsewhere
    <3>7. ASSUME NEW o \in Orders, ~overlapped'[o], o # own
          PROVE  /\ ~overlapped[o] /\ status'[o] = status[o] /\ activated'[o] = activated[o]
                 /\ \A q \in Refreshers : row'[q].order = o =>
                      row[q].order = o /\ q # r /\ at'[q] = at[q]
      BY <2>1, <3>1, <3>2, <3>7 DEF Elsewhere
    <3>8. QED
      BY <3>6, <3>7 DEF IInv, OnceInv
  <2>4. QED
    BY <1>12, <2>2, <2>3 DEF Confirm
<1>13. ASSUME NEW r \in Refreshers, Activate(r) PROVE OnceInv'
  <2> DEFINE own == row[r].order
  <2>1. /\ own \in Orders /\ at[r] = "activate" /\ at'[r] = "idle" /\ Elsewhere(r)
        /\ UNCHANGED <<status, overlapped>>
    BY <1>13, DoneIs DEF Activate, IInv, RowInv, Busy, Known, CreatedOrders
  <2>2. \A o \in Orders \ {own} : activated'[o] = activated[o]
    BY <1>13 DEF Activate, IInv, TypeOK
  <2>3. activated'[own] = activated[own] \/ activated'[own] = activated[own] + 1
    BY <1>13, <2>1 DEF Activate, IInv, TypeOK
  <2>4. ASSUME NEW o \in Orders, o # own, ~overlapped'[o]
        PROVE  /\ activated'[o] <= 1
               /\ activated'[o] = 1 => status'[o] = "confirmed"
               /\ \A q \in Refreshers : row'[q].order = o =>
                     /\ at'[q] = "confirm" => status'[o] # "confirmed"
                     /\ at'[q] = "activate" =>
                           /\ activated'[o] = 0
                           /\ \A z \in Refreshers \ {q} : row'[z].order = o => at'[z] # "activate"
    <3>1. ~overlapped[o] /\ activated'[o] = activated[o] /\ status'[o] = status[o]
      BY <2>1, <2>2, <2>4
    <3>2. /\ activated[o] <= 1
          /\ activated[o] = 1 => status[o] = "confirmed"
          /\ \A q \in Refreshers : row[q].order = o =>
                /\ at[q] = "confirm" => status[o] # "confirmed"
                /\ at[q] = "activate" =>
                      /\ activated[o] = 0
                      /\ \A z \in Refreshers \ {q} : row[z].order = o => at[z] # "activate"
      BY <3>1 DEF IInv, OnceInv
    <3>3. \A q \in Refreshers : at'[q] = "idle" \/ (at'[q] = at[q] /\ row'[q] = row[q])
      BY <2>1 DEF Elsewhere
    <3>4. QED
      BY <3>1, <3>2, <3>3
  <2>5. ASSUME ~overlapped'[own]
        PROVE  /\ activated'[own] <= 1 /\ status'[own] = "confirmed"
               /\ \A q \in Refreshers : row'[q].order = own => at'[q] \notin {"confirm", "activate"}
    <3>1. ~overlapped[own] /\ status'[own] = status[own] /\ status[own] = "confirmed"
      BY <2>1, <2>5 DEF IInv, RowInv, Busy, Known
    <3>2. /\ activated[own] = 0
          /\ \A q \in Refreshers \ {r} : row[q].order = own => at[q] \notin {"confirm", "activate"}
      BY <2>1, <3>1 DEF IInv, OnceInv
    <3>3. activated'[own] <= 1
      BY <2>3, <3>2
    <3>4. QED
      BY <2>1, <3>1, <3>2, <3>3 DEF Elsewhere
  <2>6. QED
    BY <2>4, <2>5 DEF OnceInv
<1>14. CASE Scan
  BY <1>14 DEF Scan, Reads, IInv, TypeOK, Steps, Ages, Refreshers, Created,
     CreatedOrders, RowInv, Busy, Settled, OnceInv
<1>15. CASE NextRow
  <2>1. UNCHANGED <<status, activated, overlapped>> /\ "worker" \in Refreshers
    BY <1>15, NextRowIs
  <2>2. at'["worker"] \notin {"confirm", "activate"} /\ Elsewhere("worker")
    BY <1>15, NextRowIs, BeginIs
  <2>3. QED
    BY <2>1, <2>2 DEF IInv, OnceInv, Elsewhere
<1>16. CASE Restart
  BY <1>16 DEF Restart, Fault, NoWork, IInv, TypeOK, Steps, Ages, Refreshers, Created,
     CreatedOrders, RowInv, Busy, Settled, OnceInv
<1>17. CASE UNCHANGED vars
  BY <1>17 DEF vars, IInv, TypeOK, Steps, Ages, Refreshers, Created, CreatedOrders,
     RowInv, Busy, Settled, OnceInv
<1>18. QED
  BY <1>1, <1>2, <1>3, <1>4, <1>4a, <1>5, <1>6, <1>7, <1>8, <1>9, <1>10, <1>11, <1>12,
     <1>13, <1>14, <1>15, <1>16, <1>17
     DEF Next, Time, Step

\* The invariant holds initially.
LEMMA InitInv == Init => IInv
<1> SUFFICES ASSUME Init PROVE IInv
  OBVIOUS
<1>1. ASSUME NEW o \in Orders PROVE 0 \in Addresses
  <2>1. Cardinality(Orders) \in Nat /\ Cardinality(Orders) # 0
    BY OrderBounds, FS_CardinalityType, FS_EmptySet
  <2>2. QED
    BY <2>1 DEF Addresses
<1>2. TypeOK
  BY <1>1 DEF Init, TypeOK, Ages, Steps, RowRecords, NoWork
<1>3. CreatedOrders = {}
  BY DEF Init, CreatedOrders, Created
<1>4. AddressInv /\ PaymentInv /\ BatchInv
  BY <1>3 DEF Init, AddressInv, PaymentInv, BatchInv, Settled
<1>5. RowInv /\ OnceInv
  BY DEF Init, RowInv, OnceInv, Busy
<1>6. QED
  BY <1>2, <1>4, <1>5 DEF IInv

\* The inductive invariant: what the orders, the chain and the two refreshers have to
\* do with each other.
THEOREM Invariance == Spec => []IInv
<1>1. IInv /\ [Next]_vars => IInv'
  BY TypesStep, AddressStep, PaymentStep, BatchStep, RowStep, OnceStep DEF IInv
<1>2. QED
  BY <1>1, InitInv, PTL DEF Spec

\* For any number of orders and polls, a paid order is backed by a confirmed transfer to its
\* own address, and a confirmed one by an old transfer.
THEOREM PaidIsBackedAlways == Spec => []PaidIsBacked
<1>1. IInv => PaidIsBacked
  BY DEF IInv, AddressInv, PaymentInv, Settled, CreatedOrders, PaidIsBacked
<1>2. QED
  BY <1>1, Invariance, PTL

\* However often the worker and the user refresh an order, from rows however old, and
\* whatever fails, its membership is activated twice only if two confirmations overlap.
THEOREM TwiceOnlyByOverlapAlways == Spec => []TwiceOnlyByOverlap
<1>1. IInv => TwiceOnlyByOverlap
  BY DEF IInv, TypeOK, OnceInv, TwiceOnlyByOverlap
<1>2. QED
  BY <1>1, Invariance, PTL

\* A payment is never lost, whatever rows the refreshers hold.
THEOREM PaymentSticksAlways == Spec => PaymentSticks
<1>1. IInv /\ [Next]_vars => [\A o \in Orders :
        /\ status[o] = "paid" => status'[o] \in {"paid", "confirmed"}
        /\ status[o] = "confirmed" => status'[o] = "confirmed"]_vars
  <2>1. \A o \in Orders : Settled(o) => o \in CreatedOrders
    BY DEF Settled, CreatedOrders, Created
  <2>2. QED
    BY <2>1, KeptStep DEF Kept, Settled
<1>2. QED
  BY <1>1, Invariance, PTL DEF Spec, PaymentSticks
=============================================================================
