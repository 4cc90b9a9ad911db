-------------------------- MODULE SignalGateProofs --------------------------
(***************************************************************************)
(* Proofs about SignalGate for any kinds of signals, modes, directions,    *)
(* sizes, queue lengths and faults.                                        *)
(***************************************************************************)
EXTENDS SignalGate, TLAPS, SequenceTheorems

Orders == [act : {"open", "add", "reduce", "close"}, side : Sides, amount : Nat,
           late : BOOLEAN, at : {"pending", "claimed", "aside"},
           past : {"none", "missed", "booked"}]
Places == 1..Len(queue)
Opposite(side) == IF side = "long" THEN "short" ELSE "long"

TypeOK ==
    /\ mode \in {"live", "signal"} /\ direction \in Directions
    /\ cache \subseteq Signals
    /\ pos \in [Sides -> Nat]
    /\ stop \in Sides \cup {"none"}
    /\ queue \in Seq(Orders)
    /\ pc \in {"tick", "recheck", "enqueue", "simulate"}
    /\ picked \in Signals \cup {NoSignal}
    /\ pc # "tick" => picked \in Signals
    /\ pc = "simulate" => mode = "signal"
    /\ size \in Nat
    /\ issued \in [Counted -> Nat]
    /\ sure \in BOOLEAN /\ overlap \in BOOLEAN /\ blind \in BOOLEAN /\ outOfTurn \in BOOLEAN
    /\ faults \in Nat

\* An exit is sized from a position that was held.
SizeInv == pc \in {"enqueue", "simulate"} /\ ~Entry(picked) => size > 0

\* Every ordered signal is reserved, and so is the one in hand, which is not ordered yet.
ReservedInv ==
    /\ \A s \in Counted : issued[s] > 0 => s \in cache
    /\ pc # "tick" => picked \in cache
    /\ pc \in {"recheck", "enqueue"} /\ picked \in Counted => issued[picked] = 0
    /\ OncePerCandle

\* The worker holds one row, and no older one that has not been set aside before.
WorkerInv ==
    /\ \A i, j \in InHand : i = j
    /\ \A i \in InHand : \A j \in Places : j < i => queue[j].past # "none"
    /\ \A i \in Places : queue[i].at = "aside" => queue[i].past # "none"

\* A signal to open, selected on a reading that worked, finds the account flat again.
SureInv ==
    pc = "recheck" /\ sure /\ picked.act = "open" =>
        /\ \A d \in Sides : pos[d] = 0
        /\ \A i \in Places : ~Entry(queue[i])

\* While no entry was decided behind another one or blindly, at most one entry is
\* under way, and the account is as it was when that was decided, but for exits.
Undisturbed(act, side) ==
    /\ pos[Opposite(side)] = 0
    /\ act = "open" => pos[side] = 0

Clean == ~overlap /\ ~blind

LiveInv ==
    mode = "live" /\ Clean =>
        /\ \E side \in Sides : pos[side] = 0
        /\ \A i, j \in Places : Entry(queue[i]) /\ Entry(queue[j]) => i = j
        /\ \A i \in Places : Entry(queue[i]) =>
              Undisturbed(IF queue[i].past = "booked" THEN "add" ELSE queue[i].act, queue[i].side)
        /\ pc = "enqueue" /\ Entry(picked) =>
              /\ \A i \in Places : ~Entry(queue[i])
              /\ Undisturbed(picked.act, picked.side)

\* In signal mode nobody but the strategy thread writes the position.
SignalInv ==
    mode = "signal" /\ ~blind =>
        /\ \E side \in Sides : pos[side] = 0
        /\ pc \in {"enqueue", "simulate"} =>
              /\ size = pos[picked.side]
              /\ Entry(picked) => pos[Opposite(picked.side)] = 0

\* Of the rows that were never set aside: entries of a flat side wait behind its
\* exits, entries of a held one in front of them; the signal in hand counts as the
\* end of the queue.
Prompt(i) == queue[i].past = "none"

OrderlyInv ==
    mode = "live" /\ ~outOfTurn /\ ~blind =>
        /\ \A i, j \in Places :
              i < j /\ Prompt(i) /\ Prompt(j) /\ queue[i].side = queue[j].side =>
              /\ Entry(queue[i]) /\ ~Entry(queue[j]) => pos[queue[i].side] > 0
              /\ ~Entry(queue[i]) /\ Entry(queue[j]) => pos[queue[i].side] = 0
        /\ pc = "enqueue" =>
              \A i \in Places : Prompt(i) /\ queue[i].side = picked.side =>
                 /\ Entry(queue[i]) /\ ~Entry(picked) => pos[picked.side] > 0
                 /\ ~Entry(queue[i]) /\ Entry(picked) => pos[picked.side] = 0

NoneLate == ~outOfTurn /\ ~blind => \A i \in Places : queue[i].late => ~Prompt(i)

GateInv == TypeOK /\ SizeInv /\ ReservedInv /\ WorkerInv /\ SureInv /\ LiveInv /\ SignalInv
ExitInv == OrderlyInv /\ NoneLate

-----------------------------------------------------------------------------
(* Lemmas about the operators.                                             *)

\* A position is never reduced below nothing.
LEMMA ReducedIs ==
    ASSUME NEW lots \in Nat, NEW amount \in Nat
    PROVE  Reduced(lots, amount) \in Nat /\ Reduced(lots, amount) <= lots
<1>1. Reduced(lots, amount) = IF lots > amount THEN lots - amount ELSE 0
  BY DEF Reduced, Max
<1>2. QED
  BY <1>1

\* Every order of the queue is one.
LEMMA PlacesHoldOrders ==
    ASSUME queue \in Seq(Orders), NEW i \in Places
    PROVE  queue[i] \in Orders /\ queue[i].side \in Sides /\ queue[i].amount \in Nat
<1>1. queue[i] \in Orders
  BY ElementOfSeq DEF Places
<1>2. QED
  BY <1>1 DEF Orders

\* Where the rows were before the row at k went, or stayed.
Source(gone, k, i) == IF gone /\ i >= k THEN i + 1 ELSE i

\* The queue without one of its orders.
LEMMA RestIs ==
    ASSUME queue \in Seq(Orders), NEW k \in Places
    PROVE  /\ RemoveAt(queue, k) \in Seq(Orders)
           /\ \A i \in 1..Len(RemoveAt(queue, k)) :
                /\ Source(TRUE, k, i) \in Places /\ Source(TRUE, k, i) # k
                /\ RemoveAt(queue, k)[i] = queue[Source(TRUE, k, i)]
<1> DEFINE front == SubSeq(queue, 1, k - 1)
           back == SubSeq(queue, k + 1, Len(queue))
<1>1. Len(queue) \in Nat /\ k \in 1..Len(queue)
  BY DEF Places
<1>2. \A i \in 1..Len(queue) : queue[i] \in Orders
  BY PlacesHoldOrders DEF Places
<1>3. /\ front \in Seq(Orders) /\ Len(front) = k - 1
      /\ \A i \in 1..(k - 1) : front[i] = queue[i]
  <2>1. \A i \in 1..(k - 1) : queue[i] \in Orders
    BY <1>1, <1>2
  <2>2. /\ front \in Seq(Orders)
        /\ Len(front) = IF 1 <= k - 1 THEN (k - 1) - 1 + 1 ELSE 0
        /\ \A i \in 1..((k - 1) - 1 + 1) : front[i] = queue[1 + i - 1]
    BY <1>1, <2>1, SubSeqProperties
  <2> HIDE DEF front
  <2>3. \A i \in 1..(k - 1) : i \in 1..((k - 1) - 1 + 1) /\ 1 + i - 1 = i
    BY <1>1
  <2>4. QED
    BY <1>1, <2>2, <2>3
<1>4. /\ back \in Seq(Orders) /\ Len(back) = Len(queue) - k
      /\ \A i \in 1..(Len(queue) - k) : back[i] = queue[k + i]
  <2>1. \A i \in (k + 1)..Len(queue) : queue[i] \in Orders
    BY <1>1, <1>2
  <2>2. /\ back \in Seq(Orders)
        /\ Len(back) = IF k + 1 <= Len(queue) THEN Len(queue) - (k + 1) + 1 ELSE 0
        /\ \A i \in 1..(Len(queue) - (k + 1) + 1) : back[i] = queue[(k + 1) + i - 1]
    BY <1>1, <2>1, SubSeqProperties
  <2> HIDE DEF back
  <2>3. \A i \in 1..(Len(queue) - k) :
           i \in 1..(Len(queue) - (k + 1) + 1) /\ (k + 1) + i - 1 = k + i
    BY <1>1
  <2>4. QED
    BY <1>1, <2>2, <2>3
<1>5. RemoveAt(queue, k) = front \o back
  BY DEF RemoveAt
<1> HIDE DEF front, back
<1>6. /\ RemoveAt(queue, k) \in Seq(Orders) /\ Len(RemoveAt(queue, k)) = Len(queue) - 1
      /\ \A i \in 1..(Len(queue) - 1) :
            RemoveAt(queue, k)[i] = IF i <= k - 1 THEN front[i] ELSE back[i - (k - 1)]
  <2>1. front \in Seq(Orders) /\ back \in Seq(Orders)
    BY <1>3, <1>4
  <2>2. /\ front \o back \in Seq(Orders) /\ Len(front \o back) = Len(front) + Len(back)
        /\ \A i \in 1..(Len(front) + Len(back)) :
              (front \o back)[i] = IF i <= Len(front) THEN front[i] ELSE back[i - Len(front)]
    BY <2>1, ConcatProperties, Zenon
  <2>3. Len(front) = k - 1 /\ Len(front) + Len(back) = Len(queue) - 1
    BY <1>1, <1>3, <1>4
  <2>4. QED
    BY <1>5, <2>2, <2>3, Zenon
<1>7. ASSUME NEW i \in 1..(Len(queue) - 1)
      PROVE  /\ Source(TRUE, k, i) \in Places /\ Source(TRUE, k, i) # k
             /\ RemoveAt(queue, k)[i] = queue[Source(TRUE, k, i)]
  <2>1. i \in Nat /\ k \in Nat /\ i > 0 /\ i + 1 \in Places /\ i \in Places
    BY <1>1 DEF Places
  <2>2. CASE i < k
    <3>1. i \in 1..(k - 1) /\ i <= k - 1 /\ i # k
      BY <2>1, <2>2
    <3>2. Source(TRUE, k, i) = i
      BY <2>1, <2>2 DEF Source
    <3>3. RemoveAt(queue, k)[i] = queue[i]
      BY <1>3, <1>6, <3>1, Zenon
    <3>4. QED
      BY <2>1, <3>1, <3>2, <3>3
  <2>3. CASE i >= k
    <3>1. /\ i - (k - 1) \in 1..(Len(queue) - k) /\ ~(i <= k - 1) /\ k + (i - (k - 1)) = i + 1
          /\ i + 1 # k
      BY <1>1, <2>1, <2>3
    <3>2. Source(TRUE, k, i) = i + 1
      BY <2>1, <2>3 DEF Source
    <3>3. RemoveAt(queue, k)[i] = queue[i + 1]
      BY <1>4, <1>6, <3>1, Zenon
    <3>4. QED
      BY <2>1, <3>1, <3>2, <3>3
  <2>4. i < k \/ i >= k
    BY <2>1
  <2>5. QED
    BY <2>2, <2>3, <2>4
<1>8. QED
  BY <1>6, <1>7

\* The rows keep their order.
LEMMA SourceIs ==
    ASSUME NEW gone \in BOOLEAN, NEW k \in Nat, NEW i \in Nat, NEW j \in Nat, i < j
    PROVE  Source(gone, k, i) < Source(gone, k, j)
  BY DEF Source

\* A row set aside is the same order.
LEMMA AsideIs ==
    ASSUME NEW o \in Orders, NEW booked \in BOOLEAN
    PROVE  LET a == Aside(o, booked) IN
           /\ a \in Orders /\ a.act = o.act /\ a.side = o.side /\ a.amount = o.amount
           /\ a.late = o.late /\ a.at = "aside"
           /\ a.past = IF booked \/ o.past = "booked" THEN "booked" ELSE "missed"
<1> DEFINE past == IF booked \/ o.past = "booked" THEN "booked" ELSE "missed"
<1>1. Aside(o, booked) = [o EXCEPT !.at = "aside", !.past = past]
  BY DEF Aside
<1>2. past \in {"missed", "booked"}
  OBVIOUS
<1> HIDE DEF past
<1>3. QED
  BY <1>1, <1>2 DEF Orders, past

\* What a step that only moves rows on does to the queue.
Relabelled ==
    /\ queue' \in Seq(Orders) /\ Len(queue') = Len(queue)
    /\ \A i \in Places :
         /\ queue'[i].act = queue[i].act /\ queue'[i].side = queue[i].side
         /\ queue'[i].late = queue[i].late
         /\ queue'[i].past = queue[i].past \/ (Prompt(i) /\ queue'[i].past = "missed")

\* Claims, returns and restarts are such steps.
LEMMA RelabelIs ==
    ASSUME TypeOK, Claim \/ Return \/ Restart
    PROVE  Relabelled
<1>1. /\ Len(queue) \in Nat /\ queue = [i \in Places |-> queue[i]]
      /\ \A i \in Places : queue[i] \in Orders
  BY PlacesHoldOrders DEF TypeOK, Places
<1> DEFINE Moved(i) == {queue[i], [queue[i] EXCEPT !.at = "claimed"],
                        [queue[i] EXCEPT !.at = "pending"], Aside(queue[i], FALSE)}
<1>2. ASSUME NEW i \in Places, NEW o \in Moved(i)
      PROVE  /\ o \in Orders /\ o.act = queue[i].act /\ o.side = queue[i].side
             /\ o.late = queue[i].late
             /\ o.past = queue[i].past \/ (Prompt(i) /\ o.past = "missed")
  <2>1. queue[i] \in Orders
    BY <1>1
  <2>2. CASE o = Aside(queue[i], FALSE)
    <3>1. /\ o \in Orders /\ o.act = queue[i].act /\ o.side = queue[i].side
          /\ o.late = queue[i].late
          /\ o.past = IF queue[i].past = "booked" THEN "booked" ELSE "missed"
      BY <2>1, <2>2, AsideIs
    <3>2. queue[i].past \in {"none", "missed", "booked"}
      BY <2>1 DEF Orders
    <3>3. QED
      BY <3>1, <3>2 DEF Prompt
  <2>3. CASE o \in {queue[i], [queue[i] EXCEPT !.at = "claimed"],
                    [queue[i] EXCEPT !.at = "pending"]}
    BY <2>1, <2>3 DEF Orders
  <2>4. QED
    BY <1>2, <2>2, <2>3
<1>3. queue' = [i \in Places |-> queue'[i]] /\ \A i \in Places : queue'[i] \in Moved(i)
  <2>1. CASE Claim
    <3>1. PICK i \in Waiting : \/ queue' = [queue EXCEPT ![i].at = "claimed"]
                               \/ queue' = [queue EXCEPT ![i] = Aside(queue[i], FALSE)]
      BY <2>1 DEF Claim
    <3>2. QED
      BY <1>1, <3>1
  <2>2. CASE Return
    <3>1. PICK i \in Places : queue' = [queue EXCEPT ![i].at = "pending"]
      BY <2>2 DEF Return, Places
    <3>2. QED
      BY <1>1, <3>1
  <2>3. CASE Restart
    <3>1. queue' = [i \in Places |-> IF i \in InHand THEN Aside(queue[i], FALSE) ELSE queue[i]]
      BY <2>3 DEF Restart, Places
    <3>2. QED
      BY <1>1, <3>1
  <2>4. QED
    BY <2>1, <2>2, <2>3
<1> HIDE DEF Moved
<1>4. queue' \in Seq(Orders) /\ Len(queue') = Len(queue)
  <2>1. queue' \in [1..Len(queue) -> Orders] /\ DOMAIN queue' = 1..Len(queue)
    BY <1>2, <1>3 DEF Places
  <2>2. Len(queue) \in Nat
    BY <1>1
  <2>3. queue' \in Seq(Orders) /\ Len(queue') = Len(queue)
    BY <2>1, <2>2
  <2>4. QED
    BY <2>3
<1>5. QED
  BY <1>2, <1>3, <1>4 DEF Relabelled

\* What executing the row at k does to the queue and the position.
Ran(k, filled, gone) ==
    LET o == queue[k] IN
    /\ o \in Orders /\ o.side \in Sides
    /\ queue' \in Seq(Orders)
    /\ \A i \in Places' : LET s == Source(gone, k, i) IN
         /\ s \in Places /\ (gone => s # k)
         /\ queue'[i].act = queue[s].act /\ queue'[i].side = queue[s].side
         /\ s # k => queue'[i].past = queue[s].past /\ queue'[i].at = queue[s].at
         /\ s = k => /\ queue'[i].past = IF filled \/ o.past = "booked" THEN "booked"
                                         ELSE "missed"
                     /\ queue'[i].at = "aside"
         /\ queue'[i].late => \/ queue[s].late
                              \/ /\ filled /\ pos[o.side] = 0 /\ Entry(o)
                                 /\ queue[s].side = o.side /\ ~Entry(queue[s])
    /\ pos' \in [Sides -> Nat]
    /\ \A d \in Sides : d # o.side => pos'[d] = pos[d]
    /\ ~filled => pos' = pos
    /\ filled => /\ mode = "live"
                 /\ IF Entry(o) THEN pos'[o.side] = pos[o.side] + 1
                    ELSE pos'[o.side] <= pos[o.side]
    /\ outOfTurn' = (outOfTurn \/ (filled /\ o.past # "none"))
    /\ UNCHANGED <<mode, direction, cache, stop, pc, picked, size, issued, sure, overlap, blind>>
    /\ faults' \in Nat

\* The worker's execution runs the row in hand.
LEMMA ExecuteIs ==
    ASSUME TypeOK, Execute
    PROVE  \E k \in InHand, filled \in BOOLEAN, gone \in BOOLEAN : Ran(k, filled, gone)
<1>1. PICK k \in InHand, filled \in BOOLEAN, gone \in BOOLEAN :
         LET o == queue[k]
             left == IF gone THEN RemoveAt(queue, k)
                     ELSE [queue EXCEPT ![k] = Aside(o, filled)]
         IN  /\ filled => mode = "live"
             /\ IF gone /\ (filled \/ mode = "signal") THEN UNCHANGED faults ELSE Fault
             /\ IF filled THEN Fill(o, left) ELSE queue' = left /\ UNCHANGED pos
             /\ outOfTurn' = (outOfTurn \/ (filled /\ o.past # "none"))
  BY DEF Execute
<1> DEFINE o == queue[k]
           left == IF gone THEN RemoveAt(queue, k) ELSE [queue EXCEPT ![k] = Aside(o, filled)]
<1>2. /\ k \in Places /\ o \in Orders /\ o.side \in Sides /\ o.amount \in Nat
      /\ Len(queue) \in Nat
  BY PlacesHoldOrders DEF InHand, Places, TypeOK
<1>3. UNCHANGED <<mode, direction, cache, stop, pc, picked, size, issued, sure, overlap, blind>>
  BY DEF Execute
<1>4. faults' \in Nat
  BY <1>1 DEF Fault, TypeOK
\* The rows that are left, before exits are told that they are late.
<1>5. /\ left \in Seq(Orders)
      /\ \A i \in 1..Len(left) : LET s == Source(gone, k, i) IN
           /\ s \in Places /\ (gone => s # k)
           /\ left[i] = IF s = k THEN Aside(o, filled) ELSE queue[s]
  <2>1. CASE gone
    BY <1>2, <2>1, RestIs DEF TypeOK
  <2>2. CASE ~gone
    <3>1. Aside(o, filled) \in Orders
      BY <1>2, AsideIs
    <3>2. /\ [queue EXCEPT ![k] = Aside(o, filled)] \in Seq(Orders)
          /\ Len([queue EXCEPT ![k] = Aside(o, filled)]) = Len(queue)
          /\ \A i \in Places : [queue EXCEPT ![k] = Aside(o, filled)][i] =
                                  IF i = k THEN Aside(o, filled) ELSE queue[i]
      BY <1>2, <3>1 DEF TypeOK, Places
    <3>3. \A i \in Places : Source(gone, k, i) = i
      BY <2>2 DEF Source
    <3>4. QED
      BY <2>2, <3>2, <3>3 DEF Places
  <2>3. QED
    BY <2>1, <2>2
<1> DEFINE opens == pos[o.side] = 0 /\ Entry(o)
           lots == IF Entry(o) THEN pos[o.side] + 1 ELSE Reduced(pos[o.side], o.amount)
<1>6. CASE ~filled
  <2>1. queue' = left /\ UNCHANGED pos
    BY <1>1, <1>6
  <2>2. pos \in [Sides -> Nat]
    BY DEF TypeOK
  <2>3. ASSUME NEW i \in Places'
        PROVE  LET s == Source(gone, k, i) IN
               /\ s \in Places /\ (gone => s # k)
               /\ queue'[i].act = queue[s].act /\ queue'[i].side = queue[s].side
               /\ s # k => queue'[i].past = queue[s].past /\ queue'[i].at = queue[s].at
               /\ s = k => /\ queue'[i].past = IF o.past = "booked" THEN "booked" ELSE "missed"
                           /\ queue'[i].at = "aside"
               /\ queue'[i].late => queue[s].late
    <3>1. /\ Source(gone, k, i) \in Places /\ (gone => Source(gone, k, i) # k)
          /\ queue'[i] = IF Source(gone, k, i) = k THEN Aside(o, filled)
                         ELSE queue[Source(gone, k, i)]
      BY <1>5, <2>1 DEF Places
    <3> HIDE DEF left
    <3>2. LET a == Aside(o, filled) IN
          /\ a.act = o.act /\ a.side = o.side /\ a.late = o.late /\ a.at = "aside"
          /\ a.past = IF o.past = "booked" THEN "booked" ELSE "missed"
      BY <1>2, <1>6, AsideIs
    <3>3. QED
      BY <3>1, <3>2
  <2> HIDE DEF left
  <2>4. QED
    BY <1>1, <1>2, <1>3, <1>4, <1>5, <1>6, <2>1, <2>2, <2>3 DEF Ran
<1>7. CASE filled
  <2>1. /\ pos' = [pos EXCEPT ![o.side] = lots]
        /\ queue' = [i \in DOMAIN left |->
                        [left[i] EXCEPT !.late = @ \/ (opens /\ left[i].side = o.side
                                                             /\ ~Entry(left[i]))]]
    BY <1>1, <1>7 DEF Fill
  <2>2. lots \in Nat /\ IF Entry(o) THEN lots = pos[o.side] + 1 ELSE lots <= pos[o.side]
    <3>1. pos[o.side] \in Nat
      BY <1>2 DEF TypeOK
    <3>2. Reduced(pos[o.side], o.amount) \in Nat /\ Reduced(pos[o.side], o.amount) <= pos[o.side]
      BY <1>2, <3>1, ReducedIs
    <3> HIDE DEF o
    <3>3. QED
      BY <3>1, <3>2
  <2>3. pos' \in [Sides -> Nat] /\ pos'[o.side] = lots /\ \A d \in Sides : d # o.side => pos'[d] = pos[d]
    BY <1>2, <2>1, <2>2 DEF TypeOK
  <2>4. DOMAIN left = 1..Len(left) /\ Len(left) \in Nat
    BY <1>5
  <2>5. \A i \in 1..Len(left) :
           /\ left[i] \in Orders
           /\ queue'[i] = [left[i] EXCEPT !.late = @ \/ (opens /\ left[i].side = o.side
                                                               /\ ~Entry(left[i]))]
    BY <1>5, <2>1, <2>4
  <2>6. \A i \in 1..Len(left) :
           /\ queue'[i].act = left[i].act /\ queue'[i].side = left[i].side
           /\ queue'[i].at = left[i].at /\ queue'[i].past = left[i].past
           /\ queue'[i].late => left[i].late \/ (opens /\ left[i].side = o.side /\ ~Entry(left[i]))
           /\ queue'[i] \in Orders
    <3> HIDE DEF left, o, opens
    <3> SUFFICES ASSUME NEW i \in 1..Len(left)
                 PROVE  /\ queue'[i].act = left[i].act /\ queue'[i].side = left[i].side
                        /\ queue'[i].at = left[i].at /\ queue'[i].past = left[i].past
                        /\ queue'[i].late =>
                             left[i].late \/ (opens /\ left[i].side = o.side /\ ~Entry(left[i]))
                        /\ queue'[i] \in Orders
      OBVIOUS
    <3> DEFINE late == left[i].late \/ (opens /\ left[i].side = o.side /\ ~Entry(left[i]))
    <3>1. left[i] \in Orders /\ queue'[i] = [left[i] EXCEPT !.late = late]
      BY <2>5
    <3>2. late \in BOOLEAN
      BY <3>1 DEF Orders, opens
    <3> HIDE DEF late
    <3>3. /\ queue'[i].act = left[i].act /\ queue'[i].side = left[i].side
          /\ queue'[i].at = left[i].at /\ queue'[i].past = left[i].past
          /\ queue'[i].late = late /\ queue'[i] \in Orders
      BY <3>1, <3>2 DEF Orders
    <3>4. QED
      BY <3>3 DEF late
  <2>7. queue' \in Seq(Orders) /\ Len(queue') = Len(left)
    <3> HIDE DEF left, o, opens
    <3>1. queue' = [i \in 1..Len(left) |-> queue'[i]]
      BY <2>1, <2>4
    <3>2. queue' \in [1..Len(left) -> Orders]
      BY <2>6, <3>1
    <3>3. QED
      BY <2>4, <3>2
  <2>8. ASSUME NEW i \in Places'
        PROVE  LET s == Source(gone, k, i) IN
               /\ s \in Places /\ (gone => s # k)
               /\ queue'[i].act = queue[s].act /\ queue'[i].side = queue[s].side
               /\ s # k => queue'[i].past = queue[s].past /\ queue'[i].at = queue[s].at
               /\ s = k => queue'[i].past = "booked" /\ queue'[i].at = "aside"
               /\ queue'[i].late => \/ queue[s].late
                                    \/ opens /\ queue[s].side = o.side /\ ~Entry(queue[s])
    <3>1. i \in 1..Len(left)
      BY <2>7 DEF Places
    <3>2. /\ Source(gone, k, i) \in Places /\ (gone => Source(gone, k, i) # k)
          /\ left[i] = IF Source(gone, k, i) = k THEN Aside(o, filled)
                       ELSE queue[Source(gone, k, i)]
      BY <1>5, <3>1
    <3>3. /\ queue'[i].act = left[i].act /\ queue'[i].side = left[i].side
          /\ queue'[i].at = left[i].at /\ queue'[i].past = left[i].past
          /\ queue'[i].late => left[i].late \/ (opens /\ left[i].side = o.side /\ ~Entry(left[i]))
      BY <2>6, <3>1
    <3> HIDE DEF left, opens
    <3>4. LET a == Aside(o, filled) IN
          /\ a.act = o.act /\ a.side = o.side /\ a.late = o.late /\ a.at = "aside"
          /\ a.past = "booked"
      BY <1>2, <1>7, AsideIs
    <3>5. QED
      BY <3>2, <3>3, <3>4 DEF Entry
  <2> HIDE DEF left, lots
  <2>9. QED
    <3>1. filled => /\ mode = "live"
                    /\ IF Entry(o) THEN pos'[o.side] = pos[o.side] + 1
                       ELSE pos'[o.side] <= pos[o.side]
      BY <1>1, <2>2, <2>3
    <3>2. o = queue[k]
      OBVIOUS
    <3> HIDE DEF o
    <3>3. \A i \in Places' : LET s == Source(gone, k, i) IN
             /\ s \in Places /\ (gone => s # k)
             /\ queue'[i].act = queue[s].act /\ queue'[i].side = queue[s].side
             /\ s # k => queue'[i].past = queue[s].past /\ queue'[i].at = queue[s].at
             /\ s = k => /\ queue'[i].past = IF filled \/ o.past = "booked" THEN "booked"
                                             ELSE "missed"
                         /\ queue'[i].at = "aside"
             /\ queue'[i].late => \/ queue[s].late
                                  \/ /\ filled /\ pos[o.side] = 0 /\ Entry(o)
                                     /\ queue[s].side = o.side /\ ~Entry(queue[s])
      BY <1>7, <2>8
    <3>4. outOfTurn' = (outOfTurn \/ (filled /\ o.past # "none"))
      BY <1>1, <3>2
    <3>5. Ran(k, filled, gone)
      BY <1>2, <1>3, <1>4, <1>7, <2>3, <2>7, <3>1, <3>2, <3>3, <3>4 DEF Ran
    <3>6. QED
      BY <3>5
<1>8. QED
  BY <1>6, <1>7

\* A signal as it looks one candle later and earlier.
Older(s) == [s EXCEPT !.age = 1]
Newer(s) == [s EXCEPT !.age = 0]

\* Ageing a signal changes nothing else of it, and is undone by the reverse.
LEMMA AgeIs ==
    \A s \in Signals :
        /\ Older(s) \in Signals /\ Older(s).age = 1 /\ Older(s).act = s.act
        /\ Older(s).side = s.side
        /\ Newer(s) \in Signals /\ Newer(s).age = 0 /\ Newer(s).act = s.act
        /\ Newer(s).side = s.side
        /\ s.age # 0 => Older(Newer(s)) = s
        /\ s.age = 0 => Newer(Older(s)) = s
<1> SUFFICES ASSUME NEW act \in Acts \cup {"close"}, NEW side \in Sides, NEW age \in 0..1,
                    NEW s \in Signals, s = [act |-> act, side |-> side, age |-> age]
             PROVE  /\ Older(s) \in Signals /\ Older(s).age = 1 /\ Older(s).act = s.act
                    /\ Older(s).side = s.side
                    /\ Newer(s) \in Signals /\ Newer(s).age = 0 /\ Newer(s).act = s.act
                    /\ Newer(s).side = s.side
                    /\ s.age # 0 => Older(Newer(s)) = s
                    /\ s.age = 0 => Newer(Older(s)) = s
  BY DEF Signals
<1> DEFINE At(a) == [act |-> act, side |-> side, age |-> a]
<1>1. \A a \in 0..1 : Older(At(a)) = At(1) /\ Newer(At(a)) = At(0)
  BY DEF Older, Newer
<1>2. /\ s = At(age) /\ At(0) \in Signals /\ At(1) \in Signals
      /\ \A a \in 0..1 : At(a).act = act /\ At(a).side = side /\ At(a).age = a
  BY DEF Signals
<1> HIDE DEF At
<1>3. QED
  BY <1>1, <1>2

\* What the begin of a candle does.
LEMMA NextCandleIs ==
    ASSUME TypeOK, NextCandle
    PROVE  /\ pc # "tick" => picked.age = 0 /\ picked' = Older(picked)
           /\ pc = "tick" => picked' = picked
           /\ cache' = {Older(s) : s \in {c \in cache : Remembered(c)}}
           /\ issued' = [s \in Counted |-> IF s.age = 0 THEN 0 ELSE issued[Newer(s)]]
           /\ UNCHANGED <<mode, direction, pos, stop, queue, pc, size, sure, overlap, blind,
                          outOfTurn, faults>>
  BY DEF NextCandle, CandleEnds, Older, Newer

\* The order that the signal in hand becomes.
LEMMA OrderIs ==
    ASSUME picked \in Signals, size \in Nat, SizeInv, pc \in {"enqueue", "simulate"}
    PROVE  /\ Order \in Orders /\ Order.side = picked.side
           /\ ~Order.late /\ Order.at = "pending" /\ Order.past = "none"
           /\ Entry(Order) <=> Entry(picked)
           /\ Order.act = "open" <=> picked.act = "open"
           /\ ~Entry(picked) => Order.amount \in 0..size
<1>1. /\ picked.act \in {"open", "add", "reduce", "close"} /\ picked.side \in Sides
  BY ActsAssumption DEF Signals
<1>2. QED
  BY <1>1 DEF Order, Orders, Entry, SizeInv

\* A fault is counted, or none happens.
LEMMA FaultIs ==
    ASSUME TypeOK, Fault \/ UNCHANGED faults
    PROVE  faults' \in Nat
  BY DEF Fault, TypeOK

-----------------------------------------------------------------------------
(* Types and sizes.                                                        *)

\* The invariants hold at the start.
LEMMA InitGateInv == Init => GateInv /\ ExitInv
<1> SUFFICES ASSUME Init PROVE GateInv /\ ExitInv
  OBVIOUS
<1>1. TypeOK
  <2>1. mode \in {"live", "signal"} /\ queue \in Seq(Orders)
    BY ActsAssumption DEF Init
  <2>2. pos \in [Sides -> Nat] /\ issued \in [Counted -> Nat]
    BY DEF Init
  <2>3. QED
    BY <2>1, <2>2 DEF Init, TypeOK
<1>2. Len(queue) = 0 /\ \A i \in Places : FALSE
  BY DEF Init, Places
<1>3. SizeInv /\ ReservedInv /\ SureInv
  BY DEF Init, SizeInv, ReservedInv, OncePerCandle, SureInv
<1>4. WorkerInv
  BY <1>2 DEF WorkerInv, InHand, Places
<1>5. LiveInv /\ SignalInv /\ OrderlyInv /\ NoneLate
  <2>1. \E side \in Sides : pos[side] = 0
    BY DEF Init, Sides
  <2>2. QED
    BY <1>2, <2>1 DEF Init, LiveInv, SignalInv, OrderlyInv, NoneLate
<1>6. QED
  BY <1>1, <1>3, <1>4, <1>5 DEF GateInv, ExitInv

\* The signal a tick selects; one to open was read on a flat account.
LEMMA TickIs ==
    ASSUME TypeOK, Tick
    PROVE  /\ picked' \in Signals /\ picked' \notin cache /\ cache' = cache \cup {picked'}
           /\ pc = "tick" /\ pc' = "recheck"
           /\ sure' \in BOOLEAN /\ faults' \in Nat
           /\ sure' /\ picked'.act = "open" =>
                 (\A d \in Sides : pos[d] = 0) /\ (\A i \in Places : ~Entry(queue[i]))
           /\ UNCHANGED <<mode, direction, pos, stop, queue, size, issued, overlap, blind,
                          outOfTurn>>
<1> DEFINE Chosen(state, exits, s) ==
              /\ s \in Candidates(state) \cup exits
              /\ s \notin cache /\ picked' = s /\ cache' = cache \cup {s}
<1>1. \A state, exits : Select(state, exits) => \E s : Chosen(state, exits, s)
  BY DEF Select
<1>2. PICK state, exits, s :
          /\ state \in States \cup {"flat"} /\ exits \in {ServerExits(state), {}}
          /\ Chosen(state, exits, s)
          /\ sure' \in BOOLEAN /\ faults' \in Nat
          /\ sure' => state \in States /\ ~EntryOnOrder
  <2>1. CASE /\ \E state \in States : Select(state, ServerExits(state))
             /\ sure' = ~EntryOnOrder /\ UNCHANGED faults
    <3>1. PICK state \in States : Select(state, ServerExits(state))
      BY <2>1
    <3>2. PICK s : Chosen(state, ServerExits(state), s)
      BY <1>1, <3>1
    <3> HIDE DEF Chosen
    <3>3. sure' \in BOOLEAN /\ faults' \in Nat /\ (sure' => ~EntryOnOrder)
      BY <2>1, FaultIs DEF EntryOnOrder
    <3>4. QED
      BY <3>1, <3>2, <3>3
  <2>2. CASE /\ \E state \in States : ServerExits(state) # {} /\ Select(state, {})
             /\ sure' = ~EntryOnOrder /\ Misread
    <3>1. PICK state \in States : Select(state, {})
      BY <2>2
    <3>2. PICK s : Chosen(state, {}, s)
      BY <1>1, <3>1
    <3> HIDE DEF Chosen
    <3>3. sure' \in BOOLEAN /\ faults' \in Nat /\ (sure' => ~EntryOnOrder)
      BY <2>2, FaultIs DEF EntryOnOrder, Misread
    <3>4. QED
      BY <3>1, <3>2, <3>3
  <2>3. CASE Select("flat", {}) /\ sure' = FALSE /\ Misread
    <3>1. PICK s : Chosen("flat", {}, s)
      BY <1>1, <2>3
    <3> HIDE DEF Chosen
    <3>2. sure' \in BOOLEAN /\ faults' \in Nat /\ ~sure'
      BY <2>3, FaultIs DEF Misread
    <3>3. QED
      BY <3>1, <3>2
  <2>4. QED
    BY <2>1, <2>2, <2>3 DEF Tick
<1>3. s \in Signals /\ (s.act = "open" => state = "flat")
  <2>1. \A x \in Candidates(state) : x \in Signals /\ (x.act = "open" => state = "flat")
    BY DEF Candidates, Allowed
  <2>2. \A x \in exits : x \in Signals /\ x.act # "open"
    <3>1. \A x \in ServerExits(state) : x \in Signals /\ x.act # "open"
      BY <1>2 DEF States, ServerExits, Signals, Sides
    <3>2. QED
      BY <1>2, <3>1
  <2>3. QED
    BY <1>2, <2>1, <2>2
<1>4. sure' /\ s.act = "open" =>
         (\A d \in Sides : pos[d] = 0) /\ (\A i \in Places : ~Entry(queue[i]))
  <2>1. "flat" \in States => \A d \in Sides : pos[d] = 0
    BY DEF States, Sides
  <2>2. QED
    BY <1>2, <1>3, <2>1 DEF EntryOnOrder, Places
<1>5. /\ pc = "tick" /\ pc' = "recheck"
      /\ UNCHANGED <<mode, direction, pos, stop, queue, size, issued, overlap, blind, outOfTurn>>
  BY DEF Tick
<1>6. QED
  BY <1>2, <1>3, <1>4, <1>5

\* What the step after the second reading is.
LEMMA RecheckIs ==
    ASSUME TypeOK, Recheck
    PROVE  /\ pc = "recheck" /\ picked \in Signals /\ sure' = FALSE
           /\ \/ pc' = "tick" /\ picked' = NoSignal /\ size' = 0
              \/ pc' = "enqueue" /\ picked' = picked /\ size' \in Nat
           /\ blind' \in BOOLEAN /\ (blind => blind') /\ faults' \in Nat
           /\ overlap' = (overlap \/ (Entry(picked) /\ \E i \in Places : Entry(queue[i])))
           /\ UNCHANGED <<mode, direction, cache, pos, stop, queue, issued, outOfTurn>>
<1>1. PICK state \in States \cup {"flat"}, lots \in {pos, [side \in Sides |-> 0]} :
         Filter(state, lots) /\ blind' \in BOOLEAN /\ (blind => blind') /\ faults' \in Nat
  <2>1. CASE (\E state \in States : Filter(state, pos)) /\ UNCHANGED <<blind, faults>>
    <3>1. blind' \in BOOLEAN /\ (blind => blind') /\ faults' \in Nat
      BY <2>1, FaultIs DEF TypeOK
    <3>2. QED
      BY <2>1, <3>1
  <2>2. CASE /\ Misread /\ Filter("flat", [side \in Sides |-> 0])
             /\ blind' = (blind \/ (picked.act = "open" /\ ~sure))
    <3>1. blind' \in BOOLEAN /\ (blind => blind') /\ faults' \in Nat
      BY <2>2, FaultIs DEF Misread
    <3>2. QED
      BY <2>2, <3>1
  <2>3. QED
    BY <2>1, <2>2 DEF Recheck
<1>2. pc = "recheck" /\ picked \in Signals /\ picked.side \in Sides
  BY DEF Recheck, TypeOK, Signals
<1>3. lots[picked.side] \in Nat
  BY <1>1, <1>2 DEF TypeOK
<1>4. QED
  BY <1>1, <1>2, <1>3 DEF Recheck, Filter, Drop, Overlaps, EntryOnOrder, Places

\* What reading the positions again tells of the signal in hand; to open, unless
\* blindly, it takes a flat account.
LEMMA ReadAgainIs ==
    ASSUME TypeOK, SureInv, Recheck, pc' = "enqueue"
    PROVE  /\ picked.act # "open" => size' = pos[picked.side] /\ pos[picked.side] > 0
           /\ ~blind' /\ picked.act = "open" =>
                 size' = pos[picked.side] /\ \A d \in Sides : pos[d] = 0
<1>1. picked.side \in Sides /\ pos \in [Sides -> Nat]
  BY RecheckIs DEF Signals, TypeOK
<1>2. CASE \E state \in States : Filter(state, pos)
  <2>1. PICK state \in States : Allowed(state, picked) /\ size' = pos[picked.side]
    BY <1>2 DEF Filter, Drop
  <2>2. QED
    BY <1>1, <2>1 DEF States, Allowed, Sides
<1>3. CASE Filter("flat", [side \in Sides |-> 0]) /\ blind' = (blind \/ (picked.act = "open" /\ ~sure))
  <2>1. picked.act = "open" /\ size' = 0
    BY <1>1, <1>3 DEF Filter, Drop, Allowed
  <2>2. ~blind' => sure
    BY <1>3, <2>1
  <2>3. ~blind' => \A d \in Sides : pos[d] = 0
    BY <2>1, <2>2, RecheckIs DEF SureInv
  <2>4. QED
    BY <1>1, <2>1, <2>3
<1>4. QED
  BY <1>2, <1>3 DEF Recheck

\* Every step keeps the types and the sizes.
LEMMA TypesStep ==
    ASSUME TypeOK, SizeInv, SureInv, [Next]_vars
    PROVE  TypeOK' /\ SizeInv'
<1>1. CASE Tick
  BY <1>1, TickIs DEF TypeOK, SizeInv
<1>2. CASE Recheck
  <2>1. TypeOK'
    <3>1. overlap' \in BOOLEAN
      BY <1>2, RecheckIs
    <3>2. /\ sure' = FALSE /\ blind' \in BOOLEAN /\ faults' \in Nat
          /\ UNCHANGED <<mode, direction, cache, pos, stop, queue, issued, outOfTurn>>
      BY <1>2, RecheckIs
    <3>3. CASE pc' = "tick" /\ picked' = NoSignal /\ size' = 0
      BY <3>1, <3>2, <3>3 DEF TypeOK
    <3>4. CASE pc' = "enqueue" /\ picked' = picked /\ size' \in Nat /\ picked \in Signals
      BY <3>1, <3>2, <3>4 DEF TypeOK
    <3>5. QED
      BY <1>2, <3>3, <3>4, RecheckIs
  <2>2. SizeInv'
    BY <1>2, RecheckIs, ReadAgainIs DEF SizeInv, Entry
  <2>3. QED
    BY <2>1, <2>2
<1>3. CASE Veto
  BY <1>3 DEF Veto, Drop, TypeOK, SizeInv
<1>4. CASE Enqueue
  <2>1. picked \in Signals /\ pc = "enqueue" /\ size \in Nat
    BY <1>4 DEF Enqueue, TypeOK
  <2>2. queue' \in Seq(Orders)
    <3>1. Order \in Orders
      BY <2>1, OrderIs
    <3>2. queue' = Append(queue, Order) \/ queue' = queue
      BY <1>4 DEF Enqueue
    <3>3. QED
      BY <3>1, <3>2 DEF TypeOK
  <2>3. issued' \in [Counted -> Nat]
    BY <1>4 DEF Enqueue, TypeOK
  <2>4. faults' \in Nat
    BY <1>4 DEF Enqueue, Fault, TypeOK
  <2>5. /\ UNCHANGED <<mode, direction, cache, pos, stop, overlap, blind, outOfTurn>>
        /\ \/ pc' = "tick" /\ picked' = NoSignal /\ size' = 0 /\ sure' = FALSE
           \/ pc' = "simulate" /\ UNCHANGED <<picked, size, sure>> /\ mode = "signal"
    BY <1>4 DEF Enqueue, Drop, TypeOK
  <2>6. TypeOK'
    <3>1. CASE pc' = "tick" /\ picked' = NoSignal /\ size' = 0 /\ sure' = FALSE
      BY <2>2, <2>3, <2>4, <2>5, <3>1 DEF TypeOK
    <3>2. CASE pc' = "simulate" /\ UNCHANGED <<picked, size, sure>> /\ mode = "signal"
      BY <2>1, <2>2, <2>3, <2>4, <2>5, <3>2 DEF TypeOK
    <3>3. QED
      BY <2>5, <3>1, <3>2
  <2>7. SizeInv'
    BY <2>1, <2>5 DEF SizeInv
  <2>8. QED
    BY <2>6, <2>7
<1>5. CASE Simulate
  <2>1. /\ pc = "simulate" /\ picked \in Signals /\ picked.side \in Sides
        /\ pos' = [pos EXCEPT ![picked.side] = IF Entry(Order) THEN size + 1
                                               ELSE size - Order.amount]
        /\ pc' = "tick" /\ picked' = NoSignal /\ size' = 0 /\ sure' = FALSE
        /\ UNCHANGED <<mode, direction, cache, stop, queue, issued, overlap, blind,
                       outOfTurn, faults>>
    BY <1>5 DEF Simulate, Drop, TypeOK, Signals
  <2>2. (IF Entry(Order) THEN size + 1 ELSE size - Order.amount) \in Nat
    BY <2>1, OrderIs DEF TypeOK
  <2>3. pos' \in [Sides -> Nat]
    BY <2>1, <2>2 DEF TypeOK
  <2>4. QED
    BY <2>1, <2>3 DEF TypeOK, SizeInv
<1>6. CASE Execute
  <2>1. PICK k \in InHand, filled \in BOOLEAN, gone \in BOOLEAN : Ran(k, filled, gone)
    BY <1>6, ExecuteIs
  <2>2. outOfTurn' \in BOOLEAN
    BY <2>1 DEF Ran, TypeOK
  <2>3. QED
    BY <2>1, <2>2 DEF Ran, TypeOK, SizeInv
<1>7. CASE Claim \/ Return \/ Restart
  <2>1. queue' \in Seq(Orders)
    BY <1>7, RelabelIs DEF Relabelled
  <2>2. CASE Claim \/ Return
    <3>1. /\ faults' \in Nat
          /\ UNCHANGED <<mode, direction, cache, pos, stop, pc, picked, size, history>>
      <4>1. (Fault \/ UNCHANGED faults)
            /\ UNCHANGED <<mode, direction, cache, pos, stop, pc, picked, size, history>>
        BY <2>2 DEF Claim, Return
      <4>2. QED
        BY <4>1, FaultIs
    <3>2. QED
      BY <2>1, <3>1 DEF history, TypeOK, SizeInv
  <2>3. CASE Restart
    <3>1. faults' \in Nat
      BY <2>3, FaultIs DEF Restart
    <3>2. QED
      BY <2>1, <2>3, <3>1 DEF Restart, Drop, TypeOK, SizeInv
  <2>4. QED
    BY <1>7, <2>2, <2>3
<1>8. CASE NextCandle
  <2>1. cache' \subseteq Signals
    BY <1>8, NextCandleIs, AgeIs DEF TypeOK
  <2>2. issued' \in [Counted -> Nat]
    <3>1. \A s \in Counted : Newer(s) \in Counted
      BY AgeIs DEF Counted
    <3>2. QED
      BY <1>8, <3>1, NextCandleIs DEF TypeOK
  <2>3. /\ picked' \in Signals \cup {NoSignal} /\ (pc # "tick" => picked' \in Signals)
        /\ pc # "tick" => picked'.act = picked.act
    BY <1>8, NextCandleIs, AgeIs DEF TypeOK
  <2>4. QED
    BY <1>8, <2>1, <2>2, <2>3, NextCandleIs DEF TypeOK, SizeInv, Entry
<1>9. CASE \E side \in Sides : CrossStop(side)
  BY <1>9 DEF CrossStop, history, TypeOK, SizeInv
<1>10. CASE ForgetStop
  BY <1>10 DEF ForgetStop, history, TypeOK, SizeInv
<1>11. CASE UNCHANGED vars
  BY <1>11 DEF vars, history, TypeOK, SizeInv
<1>12. QED
  BY <1>1, <1>2, <1>3, <1>4, <1>5, <1>6, <1>7, <1>8, <1>9, <1>10, <1>11
     DEF Next, Strategy, Worker, World

-----------------------------------------------------------------------------
(* Reservations and the worker's row.                                      *)

\* Every step keeps the reservations ahead of the orders.
LEMMA ReservedStep ==
    ASSUME TypeOK, ReservedInv, [Next]_vars
    PROVE  ReservedInv'
<1> SUFFICES /\ \A s \in Counted : issued'[s] > 0 => s \in cache'
             /\ pc' # "tick" => picked' \in cache'
             /\ pc' \in {"recheck", "enqueue"} /\ picked' \in Counted => issued'[picked'] = 0
             /\ \A s \in Counted : issued'[s] <= 1
  BY DEF ReservedInv, OncePerCandle
<1>0. /\ \A s \in Counted : issued[s] > 0 => s \in cache
      /\ pc # "tick" => picked \in cache
      /\ pc \in {"recheck", "enqueue"} /\ picked \in Counted => issued[picked] = 0
      /\ \A s \in Counted : issued[s] \in Nat /\ issued[s] <= 1
  BY DEF ReservedInv, OncePerCandle, TypeOK
<1>1. CASE Tick
  <2>1. PICK s \in Signals : /\ picked' = s /\ s \notin cache /\ cache' = cache \cup {s}
                             /\ UNCHANGED issued /\ pc' = "recheck"
    BY <1>1, TickIs
  <2>2. s \in Counted => issued[s] = 0
    BY <1>0, <2>1
  <2>3. QED
    BY <1>0, <2>1, <2>2
<1>2. CASE Recheck \/ Veto \/ Simulate
  <2>1. /\ UNCHANGED <<cache, issued>>
        /\ \/ pc' = "tick"
           \/ pc = "recheck" /\ UNCHANGED picked
    BY <1>2, RecheckIs DEF Veto, Simulate, Drop
  <2>2. QED
    BY <1>0, <2>1
<1>3. CASE Enqueue
  <2>1. /\ pc = "enqueue" /\ UNCHANGED cache
        /\ \/ UNCHANGED issued
           \/ issued' = [s \in Counted |-> IF s = picked THEN issued[s] + 1 ELSE issued[s]]
        /\ \/ pc' = "tick"
           \/ pc' = "simulate" /\ UNCHANGED picked
    BY <1>3 DEF Enqueue, Drop
  <2>2. \A s \in Counted : issued'[s] = issued[s] \/ (s = picked /\ issued'[s] = 1)
    BY <1>0, <2>1
  <2>3. QED
    BY <1>0, <2>1, <2>2
<1>4. CASE NextCandle
  <2>1. /\ pc # "tick" => picked.age = 0 /\ picked' = Older(picked)
        /\ cache' = {Older(s) : s \in {c \in cache : Remembered(c)}}
        /\ issued' = [s \in Counted |-> IF s.age = 0 THEN 0 ELSE issued[Newer(s)]]
        /\ pc' = pc
    BY <1>4, NextCandleIs
  <2>2. \A s \in cache : s.age = 0 => Older(s) \in cache'
    BY <2>1 DEF Remembered
  <2>3. ASSUME NEW s \in Counted
        PROVE  (issued'[s] > 0 => s \in cache') /\ issued'[s] <= 1
    <3>1. issued'[s] = IF s.age = 0 THEN 0 ELSE issued[Newer(s)]
      BY <2>1
    <3>2. CASE s.age = 0
      BY <3>1, <3>2
    <3>3. CASE s.age # 0
      <4>1. Newer(s) \in Counted /\ Newer(s).age = 0 /\ Older(Newer(s)) = s
        BY <3>3, AgeIs DEF Counted
      <4>2. QED
        BY <1>0, <2>2, <3>1, <3>3, <4>1
    <3>4. QED
      BY <3>2, <3>3
  <2>4. ASSUME pc # "tick"
        PROVE  /\ picked' \in cache'
               /\ pc \in {"recheck", "enqueue"} /\ picked' \in Counted => issued'[picked'] = 0
    <3>1. picked \in Signals /\ picked.age = 0 /\ picked \in cache /\ picked' = Older(picked)
      BY <1>0, <2>1, <2>4 DEF TypeOK
    <3>2. /\ Older(picked).age = 1 /\ Older(picked).act = picked.act
          /\ Older(picked).side = picked.side /\ Newer(Older(picked)) = picked
      BY <3>1, AgeIs
    <3>3. Older(picked) \in Counted => picked \in Counted /\ issued'[Older(picked)] = issued[picked]
      BY <2>1, <3>1, <3>2 DEF Counted
    <3>4. QED
      BY <1>0, <2>2, <2>4, <3>1, <3>3
  <2>5. QED
    BY <2>1, <2>3, <2>4
<1>5. CASE Execute
  <2>1. UNCHANGED <<cache, issued, pc, picked>>
    BY <1>5 DEF Execute
  <2>2. QED
    BY <1>0, <2>1
<1>6. CASE Claim \/ Return \/ ForgetStop \/ \E side \in Sides : CrossStop(side)
  BY <1>0, <1>6 DEF Claim, Return, ForgetStop, CrossStop, history
<1>7. CASE Restart
  BY <1>7 DEF Restart, Drop
<1>8. CASE UNCHANGED vars
  BY <1>0, <1>8 DEF vars, history
<1>9. QED
  BY <1>1, <1>2, <1>3, <1>4, <1>5, <1>6, <1>7, <1>8 DEF Next, Strategy, Worker, World

\* Every step keeps the worker to the oldest row.
LEMMA WorkerStep ==
    ASSUME TypeOK, SizeInv, WorkerInv, [Next]_vars
    PROVE  WorkerInv'
<1> DEFINE Held == {i \in Places : queue[i].at = "claimed"}
<1>1. InHand = Held
  BY DEF InHand, Places
<1> SUFFICES /\ \A i, j \in Held' : i = j
             /\ \A i \in Held' : \A j \in Places' : j < i => queue'[j].past # "none"
             /\ \A i \in Places' : queue'[i].at = "aside" => queue'[i].past # "none"
  BY DEF WorkerInv, InHand, Places
<1>2. /\ \A i, j \in Held : i = j
      /\ \A i \in Held : \A j \in Places : j < i => queue[j].past # "none"
      /\ \A i \in Places : queue[i].at = "aside" => queue[i].past # "none"
      /\ Len(queue) \in Nat
      /\ queue = [i \in Places |-> queue[i]] /\ \A i \in Places : queue[i] \in Orders
  BY <1>1, PlacesHoldOrders DEF WorkerInv, TypeOK, Places
<1>3. CASE UNCHANGED queue
  BY <1>2, <1>3 DEF Places
<1>4. CASE Enqueue
  <2>1. CASE queue' = Append(queue, Order)
    <3>1. Order \in Orders /\ Order.at = "pending"
      BY <1>4, OrderIs DEF Enqueue, TypeOK
    <3>2. /\ Places' = 1..(Len(queue) + 1) /\ queue'[Len(queue) + 1] = Order
          /\ \A i \in Places : queue'[i] = queue[i]
          /\ \A i \in Places' : i \in Places \/ i = Len(queue) + 1
      BY <2>1, <3>1 DEF TypeOK, Places
    <3>3. \A i \in Held' : i \in Held /\ \A j \in Places' : j < i => j \in Places
      BY <1>2, <3>1, <3>2 DEF Places
    <3>4. QED
      BY <1>2, <3>1, <3>2, <3>3
  <2>2. QED
    BY <1>3, <1>4, <2>1 DEF Enqueue
<1>5. CASE Claim
  <2>1. Relabelled
    BY <1>5, RelabelIs
  <2>2. /\ Places' = Places /\ \A i \in Places : queue[i].past # "none" => queue'[i].past # "none"
    BY <2>1 DEF Relabelled, Places, Prompt
  <2>3. PICK k \in Places :
           /\ Held = {} /\ queue[k].at = "pending"
           /\ \A j \in Places : queue[j].at = "pending" => k <= j
           /\ \/ queue' = [queue EXCEPT ![k].at = "claimed"]
              \/ queue' = [queue EXCEPT ![k] = Aside(queue[k], FALSE)]
    BY <1>1, <1>5 DEF Claim, Waiting, Due, Places
  <2>4. \A j \in Places : j < k => queue[j].past # "none"
    <3> SUFFICES ASSUME NEW j \in Places, j < k PROVE queue[j].past # "none"
      OBVIOUS
    <3>1. queue[j].at # "pending" /\ queue[j].at # "claimed"
      BY <2>3 DEF Places
    <3>2. QED
      BY <1>2, <3>1 DEF Orders
  <2>5. /\ \A i \in Places : i # k => queue'[i] = queue[i]
        /\ queue'[k].at = "claimed" \/ (queue'[k].at = "aside" /\ queue'[k].past # "none")
    <3>1. queue[k] \in Orders
      BY <1>2
    <3>2. Aside(queue[k], FALSE).at = "aside" /\ Aside(queue[k], FALSE).past # "none"
      BY <3>1, AsideIs
    <3>3. QED
      BY <1>2, <2>3, <3>1, <3>2 DEF Orders
  <2>6. \A i \in Held' : i = k
    BY <2>2, <2>3, <2>5
  <2>7. QED
    BY <1>2, <2>2, <2>4, <2>5, <2>6
<1>6. CASE Return
  <2>1. PICK k \in Places :
           queue[k].at = "aside" /\ queue' = [queue EXCEPT ![k].at = "pending"]
    BY <1>6 DEF Return, Places
  <2>2. /\ \A i \in Places : i # k => queue'[i] = queue[i]
        /\ queue'[k].at = "pending" /\ queue'[k].past = queue[k].past
    BY <1>2, <2>1 DEF Orders
  <2>3. Places' = Places
    BY <1>6, RelabelIs DEF Relabelled, Places
  <2>4. QED
    BY <1>2, <2>1, <2>2, <2>3
<1>7. CASE Restart
  <2>1. queue' = [i \in Places |-> IF i \in Held THEN Aside(queue[i], FALSE) ELSE queue[i]]
    BY <1>1, <1>7 DEF Restart, Places
  <2>2. Places' = Places
    BY <1>7, RelabelIs DEF Relabelled, Places
  <2>3. \A i \in Held : Aside(queue[i], FALSE).at = "aside" /\ Aside(queue[i], FALSE).past # "none"
    BY <1>2, AsideIs
  <2>4. \A i \in Places : /\ queue'[i].at # "claimed"
                          /\ queue'[i].at = "aside" => queue'[i].past # "none"
    BY <1>2, <2>1, <2>3
  <2>5. QED
    BY <2>2, <2>4
<1>8. CASE Execute
  <2>1. PICK k \in Held, filled \in BOOLEAN, gone \in BOOLEAN : Ran(k, filled, gone)
    BY <1>1, <1>8, ExecuteIs
  <2>2. \A i \in Places' :
           LET s == Source(gone, k, i) IN
           /\ s \in Places
           /\ s # k => queue'[i].past = queue[s].past /\ queue'[i].at = queue[s].at
           /\ s = k => queue'[i].past # "none" /\ queue'[i].at = "aside"
    BY <2>1 DEF Ran
  <2>3. Held' = {}
    <3> SUFFICES ASSUME NEW i \in Places' PROVE queue'[i].at # "claimed"
      OBVIOUS
    <3>1. Source(gone, k, i) # k => Source(gone, k, i) \notin Held
      BY <1>2, <2>1, <2>2
    <3>2. QED
      BY <2>2, <3>1
  <2>4. QED
    BY <1>2, <2>2, <2>3
<1>9. CASE Tick \/ Recheck \/ Veto \/ Simulate \/ NextCandle \/ ForgetStop \/ UNCHANGED vars
           \/ \E side \in Sides : CrossStop(side)
  <2>1. UNCHANGED queue
    BY <1>9 DEF Tick, Recheck, Veto, Simulate, NextCandle, CandleEnds, ForgetStop,
       CrossStop, vars
  <2>2. QED
    BY <1>3, <2>1
<1>10. QED
  BY <1>4, <1>5, <1>6, <1>7, <1>8, <1>9 DEF Next, Strategy, Worker, World

-----------------------------------------------------------------------------
(* Positions.                                                              *)

\* The steps that move no position and bring no order nearer.
Idly ==
    /\ UNCHANGED <<mode, pos, sure>> /\ (overlap => overlap') /\ (blind => blind')
    /\ outOfTurn => outOfTurn'
    /\ UNCHANGED queue \/ Relabelled
    /\ \/ pc' = "tick"
       \/ /\ UNCHANGED <<pc, size>>
          /\ pc # "tick" => picked'.act = picked.act /\ picked'.side = picked.side

\* A signal dropped leaves nothing in hand.
Dropped ==
    /\ UNCHANGED <<mode, pos>> /\ (overlap => overlap') /\ (blind => blind')
    /\ outOfTurn => outOfTurn'
    /\ UNCHANGED queue \/ Relabelled
    /\ pc' = "tick"

\* These are all steps but selecting, deciding, enqueueing, simulating and executing.
LEMMA IdleSteps ==
    ASSUME TypeOK,
           \/ Veto \/ Claim \/ Return \/ NextCandle \/ ForgetStop \/ Restart \/ UNCHANGED vars
           \/ \E side \in Sides : CrossStop(side)
           \/ Recheck /\ pc' # "enqueue"
    PROVE  Idly \/ Dropped
<1>1. CASE Veto
  BY <1>1 DEF Veto, Drop, Dropped
<1>2. CASE Restart
  <2>1. Relabelled
    BY <1>2, RelabelIs
  <2>2. QED
    BY <1>2, <2>1 DEF Restart, Drop, Dropped
<1>3. CASE Claim \/ Return
  <2>1. Relabelled
    BY <1>3, RelabelIs
  <2>2. UNCHANGED <<mode, pos, pc, picked, size, history>>
    BY <1>3 DEF Claim, Return
  <2>3. QED
    BY <2>1, <2>2 DEF Idly, history
<1>4. CASE NextCandle
  <2>1. pc # "tick" => picked'.act = picked.act /\ picked'.side = picked.side
    BY <1>4, NextCandleIs, AgeIs DEF TypeOK
  <2>2. QED
    BY <1>4, <2>1, NextCandleIs DEF Idly
<1>5. CASE ForgetStop \/ UNCHANGED vars \/ \E side \in Sides : CrossStop(side)
  BY <1>5 DEF ForgetStop, CrossStop, vars, history, Idly
<1>6. CASE Recheck /\ pc' # "enqueue"
  BY <1>6, RecheckIs DEF Dropped
<1>7. QED
  BY <1>1, <1>2, <1>3, <1>4, <1>5, <1>6

\* What is left of a queue under such a step.
LEMMA RowsKept ==
    ASSUME TypeOK, UNCHANGED queue \/ Relabelled
    PROVE  /\ Places' = Places
           /\ \A i \in Places :
                /\ queue'[i].act = queue[i].act /\ queue'[i].side = queue[i].side
                /\ queue'[i].late = queue[i].late
                /\ (queue'[i].past = "none" => Prompt(i))
                /\ (queue[i].past = "booked" <=> queue'[i].past = "booked")
                /\ (Entry(queue'[i]) <=> Entry(queue[i]))
  BY DEF Relabelled, Places, Prompt, Entry

\* The mode is fixed, and what the history holds stays in it.
LEMMA HistoryKept ==
    ASSUME TypeOK, [Next]_vars
    PROVE  /\ mode' = mode /\ (overlap => overlap') /\ (blind => blind')
           /\ outOfTurn => outOfTurn'
<1>1. CASE Recheck
  <2>1. (blind => blind') /\ outOfTurn' = outOfTurn /\ mode' = mode
    BY <1>1, RecheckIs
  <2>2. overlap => overlap'
    BY <1>1, Zenon DEF Recheck, Overlaps
  <2>3. QED
    BY <2>1, <2>2
<1>2. CASE Execute
  <2>1. UNCHANGED <<mode, overlap, blind>>
    BY <1>2 DEF Execute
  <2>2. outOfTurn => outOfTurn'
    BY <1>2, Zenon DEF Execute
  <2>3. QED
    BY <2>1, <2>2
<1>3. CASE Tick
  BY <1>3, TickIs
<1>4. CASE Enqueue \/ Simulate
  BY <1>4 DEF Enqueue, Simulate
<1>5. QED
  BY <1>1, <1>2, <1>3, <1>4, IdleSteps DEF Next, Strategy, Worker, World, Idly, Dropped

\* There are two sides.
LEMMA OppositeIs ==
    \A side \in Sides :
        /\ Opposite(side) \in Sides /\ Opposite(side) # side
        /\ \A d \in Sides : d = side \/ d = Opposite(side)
  BY DEF Sides, Opposite

\* Every step keeps an account that was read flat as it is until the second reading.
LEMMA SureStep ==
    ASSUME TypeOK, SureInv, [Next]_vars
    PROVE  SureInv'
<1> SUFFICES ASSUME pc' = "recheck", sure', picked'.act = "open"
             PROVE  /\ \A d \in Sides : pos'[d] = 0
                    /\ \A i \in Places' : ~Entry(queue'[i])
  BY DEF SureInv, Entry
<1>1. CASE Tick
  BY <1>1, TickIs DEF Places
<1>2. CASE Idly
  <2>1. (\A d \in Sides : pos[d] = 0) /\ (\A i \in Places : ~Entry(queue[i]))
    BY <1>2 DEF Idly, SureInv
  <2>2. UNCHANGED pos /\ (UNCHANGED queue \/ Relabelled)
    BY <1>2 DEF Idly
  <2>3. QED
    BY <2>1, <2>2, RowsKept
<1>3. CASE Execute
  <2>1. PICK k \in InHand, filled \in BOOLEAN, gone \in BOOLEAN : Ran(k, filled, gone)
    BY <1>3, ExecuteIs
  <2>2. (\A d \in Sides : pos[d] = 0) /\ (\A i \in Places : ~Entry(queue[i]))
    BY <2>1 DEF Ran, SureInv
  <2>3. k \in Places /\ ~Entry(queue[k])
    BY <2>2 DEF InHand, Places
  <2>4. \A d \in Sides : pos'[d] = 0
    BY <2>1, <2>2, <2>3 DEF Ran
  <2>5. \A i \in Places' : Source(gone, k, i) \in Places /\ queue'[i].act = queue[Source(gone, k, i)].act
    BY <2>1 DEF Ran
  <2>6. QED
    BY <2>2, <2>4, <2>5 DEF Entry
<1>4. CASE Dropped \/ Enqueue \/ Simulate \/ (Recheck /\ pc' = "enqueue")
  BY <1>4 DEF Dropped, Enqueue, Simulate, Drop
<1>5. QED
  BY <1>1, <1>2, <1>3, <1>4, IdleSteps DEF Next, Strategy, Worker, World

\* In live mode every step keeps what an entry under way knows of the account.
Kind(o) == IF o.past = "booked" THEN "add" ELSE o.act

LEMMA LiveStep ==
    ASSUME TypeOK, SizeInv, SureInv, LiveInv, [Next]_vars
    PROVE  LiveInv'
<1> SUFFICES ASSUME mode' = "live", Clean'
             PROVE  /\ \E side \in Sides : pos'[side] = 0
                    /\ \A i, j \in Places' : Entry(queue'[i]) /\ Entry(queue'[j]) => i = j
                    /\ \A i \in Places' : Entry(queue'[i]) =>
                         Undisturbed(Kind(queue[i]), queue[i].side)'
                    /\ pc' = "enqueue" /\ Entry(picked') =>
                         /\ \A i \in Places' : ~Entry(queue'[i])
                         /\ Undisturbed(picked.act, picked.side)'
  BY DEF LiveInv, Entry, Kind
<1>0. mode = "live" /\ Clean /\ LiveInv
  <2>1. /\ mode' = mode /\ (blind => blind') /\ (overlap => overlap')
    BY HistoryKept
  <2>2. QED
    BY <2>1 DEF Clean
<1>a. /\ \E side \in Sides : pos[side] = 0
      /\ \A i, j \in Places : Entry(queue[i]) /\ Entry(queue[j]) => i = j
      /\ \A i \in Places : Entry(queue[i]) => Undisturbed(Kind(queue[i]), queue[i].side)
      /\ pc = "enqueue" /\ Entry(picked) =>
            /\ \A i \in Places : ~Entry(queue[i])
            /\ Undisturbed(picked.act, picked.side)
  BY <1>0 DEF LiveInv, Kind
<1>b. pos \in [Sides -> Nat] /\ Len(queue) \in Nat /\ \A i \in Places : queue[i].side \in Sides
  BY PlacesHoldOrders DEF TypeOK
<1>1. CASE Idly \/ Dropped
  <2>1. /\ UNCHANGED pos /\ (UNCHANGED queue \/ Relabelled)
        /\ pc' = "enqueue" /\ Entry(picked') =>
              /\ pc = "enqueue" /\ Entry(picked)
              /\ picked'.act = picked.act /\ picked'.side = picked.side
    BY <1>1 DEF Idly, Dropped, Entry
  <2>2. \A i \in Places' :
           /\ i \in Places /\ (Entry(queue'[i]) <=> Entry(queue[i]))
           /\ Kind(queue'[i]) = Kind(queue[i]) /\ queue'[i].side = queue[i].side
    BY <2>1, RowsKept DEF Kind
  <2>3. \A i \in Places' : Entry(queue'[i]) => Undisturbed(Kind(queue[i]), queue[i].side)'
    BY <1>a, <2>1, <2>2 DEF Undisturbed
  <2>4. pc' = "enqueue" /\ Entry(picked') => Undisturbed(picked.act, picked.side)'
    BY <1>a, <2>1 DEF Undisturbed
  <2>5. QED
    BY <1>a, <2>1, <2>2, <2>3, <2>4
<1>2. CASE Tick
  <2>1. UNCHANGED <<pos, queue>> /\ pc' = "recheck"
    BY <1>2, TickIs
  <2>2. QED
    BY <1>a, <2>1 DEF Undisturbed, Places
<1>3. CASE Recheck /\ pc' = "enqueue"
  <2>1. /\ UNCHANGED <<pos, queue>> /\ picked' = picked /\ picked \in Signals
        /\ (Entry(picked) => \A i \in Places : ~Entry(queue[i]))
        /\ picked.act = "open" => \A d \in Sides : pos[d] = 0
        /\ picked.act # "open" => pos[picked.side] > 0
    BY <1>3, RecheckIs, ReadAgainIs DEF Clean
  <2>2. picked.side \in Sides
    BY <2>1 DEF Signals
  <2>3. pos[Opposite(picked.side)] = 0
    <3>1. CASE picked.act = "open"
      BY <2>1, <2>2, <3>1, OppositeIs
    <3>2. CASE picked.act # "open"
      BY <1>a, <1>b, <2>1, <2>2, <3>2, OppositeIs
    <3>3. QED
      BY <3>1, <3>2
  <2>4. Undisturbed(picked.act, picked.side)
    BY <2>1, <2>2, <2>3 DEF Undisturbed
  <2>5. QED
    BY <1>a, <2>1, <2>4 DEF Undisturbed, Places
<1>4. CASE Enqueue
  <2>1. /\ pc = "enqueue" /\ pc' = "tick" /\ UNCHANGED pos
        /\ queue' = Append(queue, Order) \/ queue' = queue
    BY <1>0, <1>4 DEF Enqueue, Drop
  <2>2. picked \in Signals /\ size \in Nat
    BY <2>1 DEF TypeOK
  <2>3. /\ Order \in Orders /\ Order.side = picked.side /\ (Entry(Order) <=> Entry(picked))
        /\ (Order.act = "open" <=> picked.act = "open") /\ Order.past = "none"
    BY <2>1, <2>2, OrderIs
  <2>4. CASE queue' = Append(queue, Order)
    <3>1. /\ Places' = 1..(Len(queue) + 1)
          /\ queue'[Len(queue) + 1] = Order
          /\ \A i \in Places : queue'[i] = queue[i]
          /\ \A i \in Places' : i \in Places \/ i = Len(queue) + 1
      BY <2>3, <2>4 DEF TypeOK, Places
    <3>2. Entry(Order) => /\ \A i \in Places : ~Entry(queue[i])
                          /\ Undisturbed(Kind(Order), Order.side)
      BY <1>a, <2>1, <2>3 DEF Undisturbed, Kind
    <3>3. \A i, j \in Places' : Entry(queue'[i]) /\ Entry(queue'[j]) => i = j
      BY <1>a, <3>1, <3>2
    <3>4. \A i \in Places' : Entry(queue'[i]) => Undisturbed(Kind(queue'[i]), queue'[i].side)
      BY <1>a, <3>1, <3>2
    <3>5. \A i \in Places' : Entry(queue'[i]) => Undisturbed(Kind(queue[i]), queue[i].side)'
      BY <2>1, <3>4 DEF Undisturbed
    <3>6. QED
      BY <1>a, <2>1, <3>3, <3>5
  <2>5. CASE queue' = queue
    BY <1>a, <2>1, <2>5 DEF Undisturbed, Places
  <2>6. QED
    BY <2>1, <2>4, <2>5
<1>5. CASE Simulate
  BY <1>0, <1>5 DEF Simulate, TypeOK
<1>6. CASE Execute
  <2>1. PICK k \in InHand, filled \in BOOLEAN, gone \in BOOLEAN : Ran(k, filled, gone)
    BY <1>6, ExecuteIs
  <2> DEFINE o == queue[k]
  <2>2. /\ k \in Places /\ o.side \in Sides
        /\ pos' \in [Sides -> Nat]
        /\ \A d \in Sides : d # o.side => pos'[d] = pos[d]
        /\ ~Entry(o) => pos' = pos \/ pos'[o.side] <= pos[o.side]
        /\ UNCHANGED <<pc, picked>>
    BY <1>b, <2>1 DEF Ran, InHand, Places
  \* Of its rows an entry was one before, on the same account or on its way to "booked".
  <2>3. \A i \in Places' : LET s == Source(gone, k, i) IN
           /\ s \in Places /\ (Entry(queue'[i]) <=> Entry(queue[s]))
           /\ queue'[i].side = queue[s].side
           /\ Kind(queue'[i]) = Kind(queue[s]) \/ (s = k /\ filled /\ Kind(queue'[i]) = "add")
    <3> SUFFICES ASSUME NEW i \in Places', NEW s \in Places, s = Source(gone, k, i)
                 PROVE  /\ Entry(queue'[i]) <=> Entry(queue[s])
                        /\ queue'[i].side = queue[s].side
                        /\ \/ Kind(queue'[i]) = Kind(queue[s])
                           \/ s = k /\ filled /\ Kind(queue'[i]) = "add"
      BY <2>1 DEF Ran
    <3>1. /\ queue'[i].act = queue[s].act /\ queue'[i].side = queue[s].side
          /\ s # k => queue'[i].past = queue[s].past
          /\ s = k => queue'[i].past = IF filled \/ o.past = "booked" THEN "booked" ELSE "missed"
      BY <2>1 DEF Ran
    <3>2. QED
      BY <3>1 DEF Kind, Entry
  <2> HIDE DEF o
  <2>4. ASSUME NEW i \in Places', NEW j \in Places', Entry(queue'[i]), Entry(queue'[j])
        PROVE  i = j
    <3>1. Source(gone, k, i) = Source(gone, k, j)
      BY <1>a, <2>3, <2>4
    <3>2. i \in Nat /\ j \in Nat /\ k \in Nat
      BY <2>2 DEF Places
    <3>3. QED
      BY <3>1, <3>2, SourceIs DEF Source
  <2>5. CASE Entry(o)
    <3>1. Undisturbed(Kind(o), o.side)
      BY <1>a, <2>2, <2>5 DEF o
    <3>2. pos'[Opposite(o.side)] = 0
      BY <2>2, <3>1, OppositeIs DEF Undisturbed
    <3>3. ~ (pc' = "enqueue" /\ Entry(picked'))
      BY <1>a, <2>2, <2>5 DEF o
    <3>4. ASSUME NEW i \in Places', Entry(queue'[i])
          PROVE  Undisturbed(Kind(queue[i]), queue[i].side)'
      <4>1. Source(gone, k, i) = k /\ queue'[i].side = o.side
        BY <1>a, <2>2, <2>3, <2>5, <3>4 DEF o
      <4>2. CASE filled
        BY <2>1, <2>3, <3>2, <4>1, <4>2 DEF Undisturbed, Kind, Ran
      <4>3. CASE ~filled
        <5>1. pos' = pos /\ Kind(queue'[i]) = Kind(o)
          BY <2>1, <2>3, <4>1, <4>3 DEF Ran, o
        <5>2. QED
          BY <3>1, <4>1, <5>1 DEF Undisturbed
      <4>4. QED
        BY <4>2, <4>3
    <3>5. QED
      BY <2>2, <2>4, <3>2, <3>3, <3>4, OppositeIs
  <2>6. CASE ~Entry(o)
    <3>1. \A d \in Sides : pos[d] = 0 => pos'[d] = 0
      BY <1>b, <2>2, <2>6
    <3>2. \A act : \A side \in Sides : Undisturbed(act, side) => Undisturbed(act, side)'
      BY <3>1, OppositeIs DEF Undisturbed
    <3>3. ASSUME NEW i \in Places', Entry(queue'[i])
          PROVE  Undisturbed(Kind(queue[i]), queue[i].side)'
      <4>1. PICK s \in Places : s = Source(gone, k, i)
        BY <2>3
      <4>2. Entry(queue[s]) /\ s # k /\ Kind(queue'[i]) = Kind(queue[s])
            /\ queue'[i].side = queue[s].side
        BY <2>3, <2>6, <3>3, <4>1 DEF o
      <4>3. Undisturbed(Kind(queue[s]), queue[s].side)
        BY <1>a, <4>2
      <4>4. QED
        BY <1>b, <3>1, <4>2, <4>3, OppositeIs DEF Undisturbed
    <3>4. ASSUME pc = "enqueue", Entry(picked)
          PROVE  /\ \A i \in Places' : ~Entry(queue'[i])
                 /\ Undisturbed(picked.act, picked.side)'
      <4>1. picked.side \in Sides
        BY <3>4 DEF TypeOK, Signals
      <4>2. QED
        BY <1>a, <2>2, <2>3, <3>1, <3>4, <4>1, OppositeIs DEF Undisturbed
    <3>5. \E side \in Sides : pos'[side] = 0
      BY <1>a, <3>1
    <3>6. QED
      BY <2>2, <2>4, <3>3, <3>4, <3>5
  <2>7. QED
    BY <2>5, <2>6
<1>7. QED
  BY <1>1, <1>2, <1>3, <1>4, <1>5, <1>6, IdleSteps DEF Next, Strategy, Worker, World

\* In signal mode every step keeps the sizes and sides that were read true.
LEMMA SignalStep ==
    ASSUME TypeOK, SizeInv, SureInv, SignalInv, [Next]_vars
    PROVE  SignalInv'
<1> SUFFICES ASSUME mode' = "signal", ~blind'
             PROVE  /\ \E side \in Sides : pos'[side] = 0
                    /\ pc' \in {"enqueue", "simulate"} =>
                          /\ size' = pos'[picked'.side]
                          /\ Entry(picked') => pos'[Opposite(picked'.side)] = 0
  BY DEF SignalInv, Entry, Opposite
<1>0. mode = "signal" /\ ~blind /\ (\E side \in Sides : pos[side] = 0)
  <2>1. mode' = mode /\ (blind => blind')
    BY HistoryKept
  <2>2. QED
    BY <2>1 DEF SignalInv
<1>1. CASE Idly \/ Dropped
  BY <1>0, <1>1 DEF Idly, Dropped, SignalInv, Entry
<1>2. CASE Tick
  BY <1>0, <1>2, TickIs
<1>3. CASE Recheck /\ pc' = "enqueue"
  <2>1. /\ UNCHANGED pos /\ picked' = picked /\ picked \in Signals
        /\ size' = pos[picked.side]
        /\ picked.act = "open" => \A d \in Sides : pos[d] = 0
        /\ picked.act # "open" => pos[picked.side] > 0
    BY <1>3, RecheckIs, ReadAgainIs
  <2>2. picked.side \in Sides /\ pos \in [Sides -> Nat]
    BY <2>1 DEF Signals, TypeOK
  <2>3. pos[Opposite(picked.side)] = 0
    BY <1>0, <2>1, <2>2, OppositeIs
  <2>4. QED
    BY <1>0, <2>1, <2>3
<1>4. CASE Enqueue
  <2>1. /\ UNCHANGED pos /\ pc = "enqueue"
        /\ \/ pc' = "tick"
           \/ UNCHANGED <<picked, size>>
    BY <1>4 DEF Enqueue, Drop
  <2>2. QED
    BY <1>0, <2>1 DEF SignalInv
<1>5. CASE Simulate
  <2>1. /\ pc = "simulate" /\ pc' = "tick" /\ picked \in Signals /\ picked.side \in Sides
        /\ size \in Nat /\ pos \in [Sides -> Nat]
        /\ pos' = [pos EXCEPT ![picked.side] = IF Entry(Order) THEN size + 1
                                               ELSE size - Order.amount]
    BY <1>5 DEF Simulate, Drop, TypeOK, Signals
  <2>2. size = pos[picked.side] /\ (Entry(picked) => pos[Opposite(picked.side)] = 0)
    BY <1>0, <2>1 DEF SignalInv
  <2>3. CASE Entry(picked)
    BY <2>1, <2>2, <2>3, OppositeIs
  <2>4. CASE ~Entry(picked)
    <3>1. Order.amount \in 0..size /\ ~Entry(Order)
      BY <2>1, <2>4, OrderIs
    <3>2. \A d \in Sides : pos[d] = 0 => pos'[d] = 0
      BY <2>1, <2>2, <3>1
    <3>3. QED
      BY <1>0, <2>1, <3>2
  <2>5. QED
    BY <2>3, <2>4
<1>6. CASE Execute
  <2>1. PICK k \in InHand, filled \in BOOLEAN, gone \in BOOLEAN : Ran(k, filled, gone)
    BY <1>6, ExecuteIs
  <2>2. UNCHANGED <<pos, pc, picked, size>>
    BY <1>0, <2>1 DEF Ran
  <2>3. QED
    BY <1>0, <2>2 DEF SignalInv
<1>7. QED
  BY <1>1, <1>2, <1>3, <1>4, <1>5, <1>6, IdleSteps DEF Next, Strategy, Worker, World

-----------------------------------------------------------------------------
(* Exits.                                                                  *)

\* Every step keeps entries and exits in order, when the strategy does not add.
LEMMA OrderlyStep ==
    ASSUME "add" \notin Acts, TypeOK, SizeInv, SureInv, WorkerInv, OrderlyInv, NoneLate,
           [Next]_vars
    PROVE  OrderlyInv' /\ NoneLate'
<1> DEFINE Ordered(i, j) ==
              i < j /\ Prompt(i) /\ Prompt(j) /\ queue[i].side = queue[j].side =>
                 /\ Entry(queue[i]) /\ ~Entry(queue[j]) => pos[queue[i].side] > 0
                 /\ ~Entry(queue[i]) /\ Entry(queue[j]) => pos[queue[i].side] = 0
           Ahead(i) ==
              Prompt(i) /\ queue[i].side = picked.side =>
                 /\ Entry(queue[i]) /\ ~Entry(picked) => pos[picked.side] > 0
                 /\ ~Entry(queue[i]) /\ Entry(picked) => pos[picked.side] = 0
<1> SUFFICES ASSUME ~outOfTurn', ~blind'
             PROVE  /\ mode = "live" =>
                          /\ \A i, j \in Places' : Ordered(i, j)'
                          /\ pc' = "enqueue" => \A i \in Places' : Ahead(i)'
                    /\ \A i \in Places' : queue'[i].late => ~Prompt(i)'
  BY HistoryKept DEF OrderlyInv, NoneLate, Prompt, Entry
<1>0. /\ mode = "live" =>
            /\ \A i, j \in Places : Ordered(i, j)
            /\ pc = "enqueue" => \A i \in Places : Ahead(i)
      /\ \A i \in Places : queue[i].late => ~Prompt(i)
  BY HistoryKept DEF OrderlyInv, NoneLate
<1>a. pos \in [Sides -> Nat] /\ Len(queue) \in Nat /\ \A i \in Places : queue[i].side \in Sides
  BY PlacesHoldOrders DEF TypeOK
<1>1. CASE Idly \/ Dropped
  <2>1. /\ UNCHANGED pos /\ (UNCHANGED queue \/ Relabelled)
        /\ pc' = "enqueue" =>
              /\ pc = "enqueue" /\ (Entry(picked') <=> Entry(picked))
              /\ picked'.side = picked.side
    BY <1>1 DEF Idly, Dropped, Entry
  <2>2. \A i \in Places' :
           /\ i \in Places /\ (Entry(queue'[i]) <=> Entry(queue[i]))
           /\ queue'[i].side = queue[i].side /\ queue'[i].late = queue[i].late
           /\ (Prompt(i)' => Prompt(i))
    BY <2>1, RowsKept DEF Prompt
  <2>3. QED
    BY <1>0, <2>1, <2>2
<1>2. CASE Tick
  <2>1. UNCHANGED <<pos, queue>> /\ pc' = "recheck"
    BY <1>2, TickIs
  <2>2. QED
    BY <1>0, <2>1 DEF Places, Prompt
<1>3. CASE Recheck /\ pc' = "enqueue"
  <2>1. /\ UNCHANGED <<pos, queue>> /\ picked' = picked /\ picked \in Signals
        /\ picked.act = "open" => \A d \in Sides : pos[d] = 0
        /\ picked.act # "open" => pos[picked.side] > 0
    BY <1>3, RecheckIs, ReadAgainIs
  <2>2. picked.side \in Sides /\ (Entry(picked) <=> picked.act = "open")
    BY <2>1 DEF Signals, Entry
  <2>3. \A i \in Places : Ahead(i)
    BY <1>a, <2>1, <2>2
  <2>4. QED
    BY <1>0, <2>1, <2>3 DEF Places, Prompt
<1>4. CASE Enqueue
  <2>1. /\ pc = "enqueue" /\ UNCHANGED pos
        /\ queue' = Append(queue, Order) \/ queue' = queue
        /\ mode = "live" => pc' = "tick"
        /\ picked \in Signals /\ size \in Nat
    BY <1>4 DEF Enqueue, Drop, TypeOK
  <2>2. /\ Order \in Orders /\ Order.side = picked.side /\ ~Order.late
        /\ Entry(Order) <=> Entry(picked)
    BY <2>1, OrderIs
  <2>3. CASE queue' = Append(queue, Order)
    <3>1. /\ Places' = 1..(Len(queue) + 1)
          /\ queue'[Len(queue) + 1] = Order
          /\ \A i \in Places : queue'[i] = queue[i] /\ (Prompt(i)' <=> Prompt(i))
          /\ \A i \in Places' : i \in Places \/ i = Len(queue) + 1
      BY <2>2, <2>3 DEF TypeOK, Places, Prompt
    <3>2. \A i, j \in Places' : i < j => i \in Places /\ (j \in Places \/ j = Len(queue) + 1)
      BY <1>a, <3>1 DEF Places
    <3>3. \A i \in Places' : queue'[i].late => ~Prompt(i)'
      BY <1>0, <2>2, <3>1
    <3>4. ASSUME mode = "live", NEW i \in Places', NEW j \in Places' PROVE Ordered(i, j)'
      <4>1. CASE i < j /\ i \in Places /\ j \in Places
        <5>1. Ordered(i, j)
          BY <1>0, <3>4, <4>1
        <5>2. QED
          BY <2>1, <3>1, <4>1, <5>1
      <4>2. CASE i < j /\ i \in Places /\ j = Len(queue) + 1
        <5>1. Ahead(i)
          BY <1>0, <2>1, <3>4, <4>2
        <5>2. queue'[i] = queue[i] /\ (Prompt(i)' <=> Prompt(i)) /\ queue'[j] = Order
          BY <3>1, <4>2
        <5>3. QED
          BY <2>1, <2>2, <5>1, <5>2
      <4>3. QED
        BY <3>2, <4>1, <4>2
    <3>5. QED
      BY <2>1, <3>3, <3>4
  <2>4. CASE queue' = queue
    BY <1>0, <2>1, <2>4 DEF Places, Prompt
  <2>5. QED
    BY <2>1, <2>3, <2>4
<1>5. CASE Simulate
  <2>1. mode # "live" /\ UNCHANGED queue
    BY <1>5 DEF Simulate, TypeOK
  <2>2. QED
    BY <1>0, <2>1 DEF Places, Prompt
<1>6. CASE Execute
  <2>1. PICK k \in InHand, filled \in BOOLEAN, gone \in BOOLEAN : Ran(k, filled, gone)
    BY <1>6, ExecuteIs
  <2> DEFINE o == queue[k]
             From(i) == Source(gone, k, i)
  <2>2. /\ k \in Places /\ k \in Nat /\ o.side \in Sides
        /\ pos' \in [Sides -> Nat]
        /\ \A d \in Sides : d # o.side => pos'[d] = pos[d]
        /\ UNCHANGED <<mode, pc, picked>>
        /\ filled => mode = "live" /\ Prompt(k)
    BY <2>1 DEF Ran, InHand, Places, Prompt
  \* The row in hand is not among those that stay and were never set aside ...
  <2>3. ASSUME NEW i \in Places', Prompt(i)'
        PROVE  /\ From(i) \in Places /\ From(i) # k /\ Prompt(From(i))
               /\ Entry(queue'[i]) <=> Entry(queue[From(i)])
               /\ queue'[i].side = queue[From(i)].side
               /\ queue'[i].late => \/ queue[From(i)].late
                                    \/ /\ filled /\ pos[o.side] = 0 /\ Entry(o)
                                       /\ queue[From(i)].side = o.side
                                       /\ ~Entry(queue[From(i)])
    <3>1. /\ From(i) \in Places
          /\ queue'[i].act = queue[From(i)].act /\ queue'[i].side = queue[From(i)].side
          /\ From(i) # k => queue'[i].past = queue[From(i)].past
          /\ From(i) = k => queue'[i].past # "none"
          /\ queue'[i].late => \/ queue[From(i)].late
                               \/ /\ filled /\ pos[o.side] = 0 /\ Entry(o)
                                  /\ queue[From(i)].side = o.side
                                  /\ ~Entry(queue[From(i)])
      BY <2>1 DEF Ran
    <3> HIDE DEF From, o
    <3>2. QED
      BY <2>3, <3>1 DEF Prompt, Entry
  \* ... which are all younger.
  <2>4. ASSUME NEW i \in Places', Prompt(i)' PROVE k < From(i)
    <3>1. From(i) \in Places /\ From(i) # k /\ Prompt(From(i))
      BY <2>3, <2>4
    <3>2. ~(From(i) < k)
      BY <2>1, <3>1 DEF WorkerInv, Prompt
    <3>3. QED
      BY <1>a, <2>2, <3>1, <3>2 DEF Places
  <2>5. ASSUME NEW i \in Places', NEW j \in Places', i < j PROVE From(i) < From(j)
    BY <2>2, <2>5, SourceIs DEF Places
  <2> HIDE DEF From
  <2>6. ASSUME NEW i \in Places', queue'[i].late, Prompt(i)' PROVE FALSE
    <3>1. ~queue[From(i)].late
      BY <1>0, <2>3, <2>6
    <3>2. /\ filled /\ pos[o.side] = 0 /\ Entry(o)
          /\ queue[From(i)].side = o.side /\ ~Entry(queue[From(i)])
      BY <2>3, <2>6, <3>1
    <3>3. Ordered(k, From(i)) /\ k < From(i) /\ Prompt(k) /\ Prompt(From(i))
      BY <1>0, <2>2, <2>3, <2>4, <2>6, <3>2
    <3>4. QED
      BY <1>a, <2>2, <3>2, <3>3
  <2>7. CASE mode = "live" /\ ~filled
    <3>1. pos' = pos
      BY <2>1, <2>7 DEF Ran
    <3>2. ASSUME NEW i \in Places', NEW j \in Places' PROVE Ordered(i, j)'
      <4> SUFFICES ASSUME i < j, Prompt(i)', Prompt(j)', queue'[i].side = queue'[j].side
                   PROVE  Ordered(i, j)'
        OBVIOUS
      <4>1. Ordered(From(i), From(j)) /\ From(i) < From(j)
        BY <1>0, <2>3, <2>5, <2>7
      <4>2. QED
        BY <2>3, <3>1, <4>1
    <3>3. ASSUME pc = "enqueue", NEW i \in Places' PROVE Ahead(i)'
      <4> SUFFICES ASSUME Prompt(i)' PROVE Ahead(i)'
        OBVIOUS
      <4>1. Ahead(From(i))
        BY <1>0, <2>3, <2>7, <3>3
      <4>2. QED
        BY <2>2, <2>3, <3>1, <4>1
    <3>4. QED
      BY <2>2, <2>6, <3>2, <3>3
  <2>8. CASE mode = "live" /\ filled /\ Entry(o)
    <3>1. pos'[o.side] = pos[o.side] + 1 /\ pos'[o.side] > 0
      BY <1>a, <2>1, <2>2, <2>8 DEF Ran
    \* Behind an entry, exits of its side find the side held.
    <3>2. ASSUME NEW i \in Places', Prompt(i)', queue'[i].side = o.side, ~Entry(queue'[i])
          PROVE  pos[o.side] > 0
      <4>1. Ordered(k, From(i)) /\ k < From(i) /\ Prompt(k)
        BY <1>0, <2>2, <2>3, <2>4, <2>8, <3>2
      <4>2. QED
        BY <2>3, <2>8, <3>2, <4>1
    <3>3. ASSUME NEW i \in Places', NEW j \in Places' PROVE Ordered(i, j)'
      <4> SUFFICES ASSUME i < j, Prompt(i)', Prompt(j)', queue'[i].side = queue'[j].side
                   PROVE  Ordered(i, j)'
        OBVIOUS
      <4>1. Ordered(From(i), From(j)) /\ From(i) < From(j)
        BY <1>0, <2>3, <2>5, <2>8
      <4>a. /\ Prompt(From(i)) /\ Prompt(From(j)) /\ queue'[i].side \in Sides
            /\ Entry(queue'[i]) <=> Entry(queue[From(i)])
            /\ Entry(queue'[j]) <=> Entry(queue[From(j)])
            /\ queue[From(i)].side = queue'[i].side /\ queue[From(j)].side = queue'[i].side
        BY <1>a, <2>3
      <4>2. CASE queue'[i].side # o.side
        <5>1. pos'[queue'[i].side] = pos[queue'[i].side]
          BY <2>2, <4>a, <4>2
        <5>2. QED
          BY <4>1, <4>a, <5>1
      <4>3. CASE queue'[i].side = o.side
        <5>1. ~(~Entry(queue'[i]) /\ Entry(queue'[j]))
          <6> SUFFICES ASSUME ~Entry(queue'[i]), Entry(queue'[j]) PROVE FALSE
            OBVIOUS
          <6>1. pos[o.side] > 0
            BY <3>2, <4>3
          <6>2. pos[o.side] = 0
            BY <4>1, <4>a, <4>3
          <6>3. QED
            BY <6>1, <6>2
        <5>2. QED
          BY <3>1, <4>3, <5>1
      <4>4. QED
        BY <4>2, <4>3
    <3>4. ASSUME pc = "enqueue", NEW i \in Places' PROVE Ahead(i)'
      <4> SUFFICES ASSUME Prompt(i)', queue'[i].side = picked'.side PROVE Ahead(i)'
        OBVIOUS
      <4>1. Ahead(From(i))
        BY <1>0, <2>3, <2>8, <3>4
      <4>a. /\ picked' = picked /\ picked.side \in Sides /\ Prompt(From(i))
            /\ queue[From(i)].side = picked.side /\ queue'[i].side = picked.side
            /\ Entry(queue'[i]) <=> Entry(queue[From(i)])
        BY <1>a, <2>2, <2>3
      <4>2. CASE picked.side # o.side
        <5>1. pos'[picked.side] = pos[picked.side]
          BY <2>2, <4>a, <4>2
        <5>2. QED
          BY <4>1, <4>a, <5>1
      <4>3. CASE picked.side = o.side
        <5>1. ~(~Entry(queue'[i]) /\ Entry(picked))
          <6> SUFFICES ASSUME ~Entry(queue'[i]), Entry(picked) PROVE FALSE
            OBVIOUS
          <6>1. pos[o.side] > 0
            BY <3>2, <4>a, <4>3
          <6>2. pos[o.side] = 0
            BY <4>1, <4>a, <4>3
          <6>3. QED
            BY <6>1, <6>2
        <5>2. QED
          BY <2>2, <3>1, <4>3, <5>1
      <4>4. QED
        BY <4>2, <4>3
    <3>5. QED
      BY <2>2, <2>6, <3>3, <3>4
  <2>9. CASE mode = "live" /\ filled /\ ~Entry(o)
    <3>1. \A d \in Sides : pos[d] = 0 => pos'[d] = 0
      BY <1>a, <2>1, <2>2, <2>9 DEF Ran
    \* Behind an exit, entries of its side wait for a flat side.
    <3>2. ASSUME NEW i \in Places', Prompt(i)', queue'[i].side = o.side, Entry(queue'[i])
          PROVE  pos[o.side] = 0
      <4>1. Ordered(k, From(i)) /\ k < From(i) /\ Prompt(k)
        BY <1>0, <2>2, <2>3, <2>4, <2>9, <3>2
      <4>2. QED
        BY <2>3, <2>9, <3>2, <4>1
    <3>3. ASSUME NEW i \in Places', NEW j \in Places' PROVE Ordered(i, j)'
      <4> SUFFICES ASSUME i < j, Prompt(i)', Prompt(j)', queue'[i].side = queue'[j].side
                   PROVE  Ordered(i, j)'
        OBVIOUS
      <4>1. Ordered(From(i), From(j)) /\ From(i) < From(j) /\ queue'[i].side \in Sides
        BY <1>0, <1>a, <2>3, <2>5, <2>9
      <4>2. CASE queue'[i].side # o.side
        BY <1>a, <2>2, <2>3, <4>1, <4>2
      <4>3. CASE queue'[i].side = o.side
        <5>0. /\ Prompt(From(i)) /\ Prompt(From(j))
              /\ Entry(queue'[i]) <=> Entry(queue[From(i)])
              /\ Entry(queue'[j]) <=> Entry(queue[From(j)])
              /\ queue[From(i)].side = o.side /\ queue[From(j)].side = o.side
          BY <2>3, <4>3
        <5>1. ~(Entry(queue'[i]) /\ ~Entry(queue'[j]))
          <6> SUFFICES ASSUME Entry(queue'[i]), ~Entry(queue'[j]) PROVE FALSE
            OBVIOUS
          <6>1. pos[o.side] = 0
            BY <3>2, <4>3
          <6>2. pos[o.side] > 0
            BY <4>1, <5>0
          <6>3. QED
            BY <6>1, <6>2
        <5>2. QED
          BY <2>3, <3>1, <4>1, <4>3, <5>1
      <4>4. QED
        BY <4>2, <4>3
    <3>4. ASSUME pc = "enqueue", NEW i \in Places' PROVE Ahead(i)'
      <4> SUFFICES ASSUME Prompt(i)', queue'[i].side = picked'.side PROVE Ahead(i)'
        OBVIOUS
      <4>1. Ahead(From(i))
        BY <1>0, <2>3, <2>9, <3>4
      <4>2. picked.side \in Sides
        BY <1>a, <2>2, <2>3
      <4>3. CASE picked.side # o.side
        BY <1>a, <2>2, <2>3, <4>1, <4>2, <4>3
      <4>4. CASE picked.side = o.side
        <5>1. ~(Entry(queue'[i]) /\ ~Entry(picked))
          BY <1>a, <2>2, <2>3, <3>2, <4>1, <4>4
        <5>2. QED
          BY <2>2, <2>3, <3>1, <4>1, <4>2, <4>4, <5>1
      <4>5. QED
        BY <4>3, <4>4
    <3>5. QED
      BY <2>2, <2>6, <3>3, <3>4
  <2>10. QED
    BY <2>6, <2>7, <2>8, <2>9
<1>7. QED
  BY <1>1, <1>2, <1>3, <1>4, <1>5, <1>6, IdleSteps DEF Next, Strategy, Worker, World

-----------------------------------------------------------------------------
(* The properties.                                                         *)

\* The inductive invariant of the gate: types, sizes, reservations, the worker's row,
\* and what a decision and the positions have to do with each other until its order
\* executes, on condition of the history's exceptions.
THEOREM GateInvariance == Spec => []GateInv
<1>1. GateInv /\ [Next]_vars => GateInv'
  BY TypesStep, ReservedStep, WorkerStep, SureStep, LiveStep, SignalStep DEF GateInv
<1>2. QED
  BY <1>1, InitGateInv, PTL DEF Spec

\* The reservation of a signal blocks a second order of the same candle although
\* the query behind it blocks nothing: each process orders every entry or close once.
THEOREM OrdersOnce == Spec => []OncePerCandle
<1>1. GateInv => OncePerCandle
  BY DEF GateInv, ReservedInv
<1>2. QED
  BY <1>1, GateInvariance, PTL

\* Whatever the queue, its requeued rows and failing readings do between a decision
\* and its execution, an entry decided with no other one queued, and with one of the
\* tick's readings in order, opens on a flat account (unless its fill is booked already).
THEOREM EntersFlatAlways == Spec => []EntersFlat
<1>1. GateInv => EntersFlat
  <2> SUFFICES ASSUME GateInv, ~overlap, ~blind, mode = "live", NEW i \in 1..Len(queue),
                      queue[i].act = "open", queue[i].past # "booked", NEW side \in Sides
               PROVE  pos[side] = 0
    BY DEF EntersFlat
  <2>1. i \in Places /\ Entry(queue[i]) /\ queue[i].side \in Sides
    BY PlacesHoldOrders DEF GateInv, TypeOK, Places, Entry
  <2>2. Undisturbed("open", queue[i].side)
    BY <2>1 DEF GateInv, LiveInv, Clean
  <2>3. QED
    BY <2>1, <2>2, OppositeIs DEF Undisturbed
<1>2. QED
  BY <1>1, GateInvariance, PTL

\* Nor are the two sides ever held together.
THEOREM OneDirectionAlways == Spec => []OneDirection
<1>1. GateInv => OneDirection
  BY DEF GateInv, TypeOK, LiveInv, SignalInv, OneDirection, Clean
<1>2. QED
  BY <1>1, GateInvariance, PTL

\* A strategy that does not add never has an exit waiting for a position that was
\* opened after the exit was decided, as long as neither the exit nor any order
\* filled before was set aside: of the rows of one side that never were, the queue
\* holds entries before exits only while the side is held, and exits before entries
\* only while it is flat.  (An add that is queued behind a close opens the position
\* again, and exits queued behind the add are late for it.)
THEOREM ExitsAreTimelyAlways ==
    ASSUME "add" \notin Acts
    PROVE  Spec => []ExitsAreTimely
<1>1. GateInv /\ ExitInv /\ [Next]_vars => ExitInv'
  BY OrderlyStep DEF GateInv, ExitInv
<1>2. ExitInv => ExitsAreTimely
  BY DEF ExitInv, NoneLate, ExitsAreTimely, Places, Prompt
<1>3. QED
  BY <1>1, <1>2, GateInvariance, InitGateInv, PTL DEF Spec

=============================================================================
