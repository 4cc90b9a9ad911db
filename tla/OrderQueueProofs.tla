-------------------------- MODULE OrderQueueProofs --------------------------
(***************************************************************************)
(* Proofs about OrderQueue for any number of rows, worker processes,       *)
(* attempts and faults.                                                    *)
(***************************************************************************)
EXTENDS OrderQueue, TLAPS

\* The steps that write a result, whether or not the worker sees them succeed.
SaysSent(w) == MarkSent(w) \/ MarkSentFails(w)
SaysFailed(w) == MarkFailed(w) \/ MarkFailedFails(w)

\* Initially nothing is queued, claimed or placed.
LEMMA InitClaimInv == Init => ClaimInv
<1> SUFFICES ASSUME Init PROVE ClaimInv
    OBVIOUS
<1> USE LimitsAssumption DEF Init, PCs, Statuses, Modes
<1>1. TypeOK
  BY DEF TypeOK, Attempts
<1>2. AttemptsBounded /\ ClaimsHeld /\ ClaimsSpent /\ OneOrderPerClaim /\ SentMeansPlaced /\ DeletesNamed
  BY DEF AttemptsBounded, ClaimsHeld, ClaimsSpent, OneOrderPerClaim, SentMeansPlaced,
     DeletesNamed, InHand, Attempts
<1>3. QED
  BY <1>1, <1>2 DEF ClaimInv

\* Every step keeps the types.
LEMMA StepTypeOK == ClaimInv /\ [Next]_vars => TypeOK'
<1> SUFFICES ASSUME ClaimInv, [Next]_vars PROVE TypeOK'
    OBVIOUS
<1>0. TypeOK
  BY DEF ClaimInv
<1>1. ASSUME NEW o \in Orders, Enqueue(o) \/ DeleteCheck(o) \/ DeleteCommit(o) \/ Age(o)
      PROVE TypeOK'
  BY <1>0, <1>1 DEF TypeOK, Statuses, Enqueue, DeleteCheck, DeleteCommit, Age, table, thread
<1>2. ASSUME NEW w \in Workers, RequeueStale(w)
      PROVE TypeOK'
  <2>1. status' \in [Orders -> Statuses]
    BY <1>0, <1>2 DEF RequeueStale, TypeOK, Statuses
  <2>2. aged' \in [Orders -> BOOLEAN]
    <3>1. aged' = [o \in Orders |-> aged[o] /\ ~Stale(o)]
      BY <1>2 DEF RequeueStale
    <3>2. \A o \in Orders : (aged[o] /\ ~Stale(o)) \in BOOLEAN
      BY DEF Stale
    <3>3. QED
      BY <3>1, <3>2, Zenon
  <2>3. /\ pc' \in [Workers -> PCs]
        /\ UNCHANGED <<mode, attempts, batch, current, ticket, placed, booked, deleting, faults>>
    BY <1>0, <1>2 DEF RequeueStale, TypeOK, PCs
  <2>4. QED
    BY <1>0, <2>1, <2>2, <2>3 DEF TypeOK
<1>3. ASSUME NEW w \in Workers, Select(w) \/ SelectFails(w)
      PROVE TypeOK'
  <2>1. CASE Select(w)
    <3>1. FirstRows(Claimable) \subseteq Orders
      BY DEF FirstRows, Claimable
    <3>2. batch' \in [Workers -> SUBSET Orders] /\ pc' \in [Workers -> PCs]
      BY <1>0, <2>1, <3>1 DEF Select, TypeOK, PCs
    <3>3. UNCHANGED <<mode, status, attempts, aged, current, ticket, placed, booked, deleting, faults>>
      BY <2>1 DEF Select, table
    <3>4. QED
      BY <1>0, <3>2, <3>3 DEF TypeOK
  <2>2. CASE SelectFails(w)
    BY <1>0, <2>2, LimitsAssumption DEF TypeOK, PCs, SelectFails, table
  <2>3. QED
    BY <1>3, <2>1, <2>2
<1>4. ASSUME NEW w \in Workers, NEW o \in Orders, Claim(w, o) \/ ClaimMisses(w, o) \/ ClaimFails(w, o)
      PROVE TypeOK'
  <2> USE <1>0, LimitsAssumption DEF TypeOK, PCs, Statuses, table
  <2>1. CASE Claim(w, o)
    BY <2>1 DEF Claim, TakeRow
  <2>2. CASE ClaimMisses(w, o)
    BY <2>2 DEF ClaimMisses, LeaveRow
  <2>3. CASE ClaimFails(w, o)
    <3>1. CASE UNCHANGED table
      BY <2>3, <3>1 DEF ClaimFails, LeaveRow
    <3>2. CASE TakeRow(o)
      BY <2>3, <3>2 DEF ClaimFails, LeaveRow, TakeRow
    <3>3. QED
      BY <2>3, <3>1, <3>2 DEF ClaimFails
  <2>4. QED
    BY <1>4, <2>1, <2>2, <2>3
<1>5. ASSUME NEW w \in Workers, Refuse(w) \/ Crash(w) \/ Restart(w) \/ MarkSentFails(w) \/ MarkFailedFails(w)
      PROVE TypeOK'
  <2> USE <1>0, LimitsAssumption DEF TypeOK, PCs, table
  <2>1. CASE Refuse(w) \/ Restart(w)
    BY <2>1 DEF Refuse, Restart
  <2>2. CASE Crash(w)
    BY <2>2 DEF Crash
  <2>3. CASE MarkSentFails(w)
    <3>1. status' \in [Orders -> Statuses]
      BY <2>3 DEF MarkSentFails, Mark, Statuses
    <3>2. QED
      BY <2>3, <3>1 DEF MarkSentFails
  <2>4. CASE MarkFailedFails(w)
    <3>1. status' \in [Orders -> Statuses]
      BY <2>4 DEF MarkFailedFails, Mark, Statuses
    <3>2. QED
      BY <2>4, <3>1 DEF MarkFailedFails
  <2>5. QED
    BY <1>5, <2>1, <2>2, <2>3, <2>4
<1>6. ASSUME NEW w \in Workers, Place(w) \/ RecordFill(w)
      PROVE TypeOK'
  <2>1. current[w] \in Orders /\ ticket[w] \in Attempts
    BY <1>0, <1>6, LimitsAssumption
       DEF Place, RecordFill, ClaimInv, ClaimsHeld, InHand, AttemptsBounded, Attempts, TypeOK
  <2>2. CASE Place(w)
    BY <1>0, <2>1, <2>2 DEF Place, TypeOK, PCs, table
  <2>3. CASE RecordFill(w)
    BY <1>0, <2>1, <2>3 DEF RecordFill, LeaveRow, TypeOK, PCs, table
  <2>4. QED
    BY <1>6, <2>2, <2>3
<1>7. ASSUME NEW w \in Workers, MarkSent(w) \/ MarkFailed(w) \/ RecordFillFails(w)
      PROVE TypeOK'
  <2> USE <1>0, LimitsAssumption DEF TypeOK, PCs, Statuses, LeaveRow, table
  <2>1. CASE MarkSent(w)
    <3>1. status' \in [Orders -> Statuses]
      BY <2>1 DEF MarkSent, Mark
    <3>2. CASE mode[current[w]] = "signal"
      <4>0. batch' = [batch EXCEPT ![w] = batch[w] \ {current[w]}]
        BY <2>1, <3>2 DEF MarkSent
      <4>1. batch' \in [Workers -> SUBSET Orders]
        BY <4>0
      <4>2. pc' \in [Workers -> PCs] /\ current' \in [Workers -> Orders \cup {NoOrder}]
        BY <2>1, <3>2 DEF MarkSent
      <4>3. QED
        BY <2>1, <3>1, <4>1, <4>2 DEF MarkSent
    <3>3. CASE mode[current[w]] # "signal"
      BY <2>1, <3>1, <3>3 DEF MarkSent
    <3>4. QED
      BY <3>2, <3>3
  <2>2. CASE MarkFailed(w)
    BY <2>2 DEF MarkFailed, Mark
  <2>3. CASE RecordFillFails(w)
    BY <2>3 DEF RecordFillFails
  <2>4. QED
    BY <1>7, <2>1, <2>2, <2>3
<1>8. CASE UNCHANGED vars
  BY <1>0, <1>8 DEF TypeOK, vars
<1>9. QED
  BY <1>1, <1>2, <1>3, <1>4, <1>5, <1>6, <1>7, <1>8 DEF Next, Work, Fault

-----------------------------------------------------------------------------
(* A row comes into a worker's hand by Claim alone, and the attempts       *)
(* column never decreases.                                                 *)

\* Every other step leaves a worker with the row and the claim it had, or
\* with nothing.
LEMMA HandsOnlyByClaim ==
    ASSUME TypeOK, [Next]_vars, NEW v \in Workers, InHand(v)'
    PROVE  \/ InHand(v) /\ current'[v] = current[v] /\ ticket'[v] = ticket[v]
           \/ \E o \in Orders : Claim(v, o)
<1> DEFINE Kept == InHand(v) /\ current'[v] = current[v] /\ ticket'[v] = ticket[v]
<1> USE DEF TypeOK, InHand
<1>1. ASSUME NEW o \in Orders, Enqueue(o) \/ DeleteCheck(o) \/ DeleteCommit(o) \/ Age(o)
      PROVE Kept
  BY <1>1 DEF Enqueue, DeleteCheck, DeleteCommit, Age, thread
<1>2. ASSUME NEW w \in Workers, RequeueStale(w) \/ Select(w) \/ SelectFails(w)
      PROVE Kept
  BY <1>2 DEF RequeueStale, Select, SelectFails
<1>3. ASSUME NEW w \in Workers, NEW o \in Orders, ClaimMisses(w, o) \/ ClaimFails(w, o)
      PROVE Kept
  BY <1>3 DEF ClaimMisses, ClaimFails, LeaveRow
<1>4. ASSUME NEW w \in Workers, NEW o \in Orders, Claim(w, o)
      PROVE Kept \/ v = w
  BY <1>4 DEF Claim
<1>5. ASSUME NEW w \in Workers, Refuse(w) \/ Place(w) \/ MarkSentFails(w)
      PROVE Kept
  BY <1>5 DEF Refuse, Place, MarkSentFails
<1>6. ASSUME NEW w \in Workers, Crash(w) \/ Restart(w) \/ MarkFailedFails(w)
      PROVE Kept
  BY <1>6 DEF Crash, Restart, MarkFailedFails
<1>7. ASSUME NEW w \in Workers, RecordFill(w) \/ RecordFillFails(w) \/ MarkFailed(w)
      PROVE Kept
  BY <1>7 DEF RecordFill, RecordFillFails, MarkFailed, LeaveRow
<1>8. ASSUME NEW w \in Workers, MarkSent(w)
      PROVE Kept
  BY <1>8 DEF MarkSent, LeaveRow
<1>9. CASE UNCHANGED vars
  BY <1>9 DEF vars
<1>10. QED
  BY <1>1, <1>2, <1>3, <1>4, <1>5, <1>6, <1>7, <1>8, <1>9 DEF Next, Work, Fault

\* attempts stays a count.
LEMMA StepAttemptsNat ==
    ASSUME TypeOK, [Next]_vars
    PROVE  attempts' \in [Orders -> Nat]
<1> USE DEF TypeOK
<1>1. CASE UNCHANGED attempts
  BY <1>1
<1>2. ASSUME NEW o \in Orders, TakeRow(o)
      PROVE attempts' \in [Orders -> Nat]
  BY <1>2 DEF TakeRow
<1>3. QED
  BY <1>1, <1>2
     DEF Next, Work, Fault, Enqueue, DeleteCheck, DeleteCommit, Age, RequeueStale, Select, SelectFails,
         Claim, ClaimMisses, ClaimFails, Refuse, Place, MarkSent, MarkSentFails, MarkFailed, RecordFill,
         RecordFillFails, MarkFailedFails, Crash, Restart, vars, table

\* The attempts column counts: no step lowers it, and a row that becomes
\* pending, or stays so, may be claimed again.
LEMMA AttemptsGrow ==
    ASSUME TypeOK, AttemptsBounded, [Next]_vars
    PROVE  /\ AttemptsBounded'
           /\ \A o \in Orders : attempts'[o] >= attempts[o]
<1> DEFINE Good == AttemptsBounded' /\ \A p \in Orders : attempts'[p] >= attempts[p]
<1> USE LimitsAssumption DEF TypeOK, AttemptsBounded
<1>1. CASE UNCHANGED table
  BY <1>1 DEF table
<1>2. ASSUME NEW o \in Orders, Enqueue(o)
      PROVE Good
  BY <1>2 DEF Enqueue
<1>3. ASSUME NEW o \in Orders, DeleteCommit(o) \/ Age(o)
      PROVE Good
  BY <1>3 DEF DeleteCommit, Age
<1>4. ASSUME NEW w \in Workers, RequeueStale(w)
      PROVE Good
  BY <1>4 DEF RequeueStale, Stale
<1>5. ASSUME NEW o \in Orders, status[o] = "pending", TakeRow(o)
      PROVE Good
  BY <1>5 DEF TakeRow
<1>6. ASSUME NEW w \in Workers, SaysSent(w) \/ SaysFailed(w)
      PROVE Good
  BY <1>6 DEF SaysSent, SaysFailed, MarkSent, MarkSentFails, MarkFailed,
     MarkFailedFails, Mark
<1>7. QED
  BY <1>1, <1>2, <1>3, <1>4, <1>5, <1>6
     DEF Next, Work, Fault, DeleteCheck, Select, SelectFails, Claim, ClaimMisses, ClaimFails, Refuse,
         Place, RecordFill, RecordFillFails, SaysSent, SaysFailed, Crash, Restart, vars, table

\* Claims stay held by one worker each.
LEMMA StepClaimsHeld ==
    ASSUME TypeOK, AttemptsBounded, ClaimsHeld, [Next]_vars
    PROVE  ClaimsHeld'
<1>1. ASSUME NEW v \in Workers, InHand(v)'
      PROVE current'[v] \in Orders /\ ticket'[v] \in 1..attempts'[current'[v]]
  <2>1. CASE InHand(v) /\ current'[v] = current[v] /\ ticket'[v] = ticket[v]
    <3>1. current[v] \in Orders /\ ticket[v] \in 1..attempts[current[v]]
      BY <2>1 DEF ClaimsHeld
    <3>2. attempts'[current[v]] >= attempts[current[v]] /\ attempts[current[v]] \in Nat
      BY <3>1, AttemptsGrow DEF TypeOK
    <3>3. attempts'[current[v]] \in Nat
      BY <3>1, StepAttemptsNat
    <3>4. QED
      BY <2>1, <3>1, <3>2, <3>3
  <2>2. ASSUME NEW o \in Orders, Claim(v, o)
        PROVE current'[v] \in Orders /\ ticket'[v] \in 1..attempts'[current'[v]]
    <3>1. current'[v] = o /\ ticket'[v] = attempts[o] + 1 /\ attempts'[o] = attempts[o] + 1
      BY <2>2 DEF Claim, TakeRow, TypeOK
    <3>2. attempts[o] \in Nat
      BY DEF TypeOK
    <3>3. QED
      BY <3>1, <3>2
  <2>3. QED
    BY <1>1, <2>1, <2>2, HandsOnlyByClaim
<1>2. ASSUME NEW v \in Workers, NEW w \in Workers, NEW o \in Orders, v # w,
             InHand(v)', InHand(w)', current'[v] = current'[w], Claim(v, o)
      PROVE ticket'[v] # ticket'[w]
  <2>1. InHand(w) /\ current[w] = o /\ ticket'[w] = ticket[w] /\ ticket'[v] = attempts[o] + 1
    BY <1>2 DEF Claim, InHand, TypeOK
  <2>2. ticket[w] \in 1..attempts[o] /\ attempts[o] \in Nat
    BY <2>1 DEF ClaimsHeld, TypeOK
  <2>3. QED
    BY <2>1, <2>2
<1>3. ASSUME NEW v \in Workers, NEW w \in Workers, v # w, InHand(v)', InHand(w)', current'[v] = current'[w]
      PROVE ticket'[v] # ticket'[w]
  <2>1. CASE \E o \in Orders : Claim(v, o) \/ Claim(w, o)
    BY <1>3, <2>1, <1>2
  <2>2. CASE ~ \E o \in Orders : Claim(v, o) \/ Claim(w, o)
    <3>1. /\ InHand(v) /\ current'[v] = current[v] /\ ticket'[v] = ticket[v]
          /\ InHand(w) /\ current'[w] = current[w] /\ ticket'[w] = ticket[w]
      BY <1>3, <2>2, HandsOnlyByClaim
    <3>2. QED
      BY <1>3, <3>1 DEF ClaimsHeld
  <2>3. QED
    BY <2>1, <2>2
<1>4. QED
  BY <1>1, <1>3 DEF ClaimsHeld, InHand

-----------------------------------------------------------------------------
(* What claims pay for.                                                    *)

\* Only Place and RecordFill touch the histories of the outside.
LEMMA HistoriesFrame ==
    [Next]_vars => \/ UNCHANGED <<placed, booked>>
                   \/ \E w \in Workers : Place(w) \/ RecordFill(w)
BY DEF Next, Work, Fault, Enqueue, DeleteCheck, DeleteCommit, Age, RequeueStale, Select,
   SelectFails,
       Claim, ClaimMisses, ClaimFails, Refuse, MarkSent, MarkSentFails, MarkFailed,
       RecordFillFails, MarkFailedFails, Crash, Restart, vars

\* A placement and a booking use the claim of the row in hand, which is one
\* of the row's claims so far.
LEMMA TicketInRange ==
    ASSUME ClaimInv, NEW w \in Workers, InHand(w)
    PROVE  current[w] \in Orders /\ ticket[w] \in Attempts /\ ticket[w] <= attempts[current[w]]
<1>1. current[w] \in Orders /\ ticket[w] \in 1..attempts[current[w]]
  BY DEF ClaimInv, ClaimsHeld
<1>2. attempts[current[w]] \in Nat /\ attempts[current[w]] <= MaxAttempts
  BY <1>1 DEF ClaimInv, TypeOK, AttemptsBounded
<1>3. QED
  BY <1>1, <1>2, LimitsAssumption DEF Attempts

\* What Place and RecordFill do to the claim of the row in hand.
LEMMA PlaceEffect ==
    ASSUME ClaimInv, NEW w \in Workers, Place(w)
    PROVE  /\ placed[current[w]][ticket[w]] = 0 /\ booked[current[w]][ticket[w]] = 0
           /\ placed' = [placed EXCEPT ![current[w]][ticket[w]] = 1]
           /\ UNCHANGED <<booked, table, current, ticket>>
<1>1. InHand(w) /\ placed[current[w]][ticket[w]] = 0
  BY DEF Place, InHand, ClaimInv, ClaimsSpent
<1>2. current[w] \in Orders /\ ticket[w] \in Attempts
  BY <1>1, TicketInRange
<1>3. booked[current[w]][ticket[w]] <= 0 /\ booked[current[w]][ticket[w]] \in Nat
  BY <1>1, <1>2 DEF ClaimInv, OneOrderPerClaim, TypeOK
<1>4. QED
  BY <1>1, <1>3 DEF Place

\* A fill is booked once, under the claim that placed it.
LEMMA RecordFillEffect ==
    ASSUME ClaimInv, NEW w \in Workers, RecordFill(w)
    PROVE  /\ placed[current[w]][ticket[w]] = 1
           /\ booked' = [booked EXCEPT ![current[w]][ticket[w]] = 1]
           /\ UNCHANGED <<placed, table, ticket>>
           /\ ~InHand(w)'
<1>1. placed[current[w]][ticket[w]] = 1 /\ booked[current[w]][ticket[w]] = 0
  BY DEF RecordFill, ClaimInv, ClaimsSpent
<1>2. ~InHand(w)'
  BY DEF RecordFill, LeaveRow, InHand, ClaimInv, TypeOK
<1>3. QED
  BY <1>1, <1>2 DEF RecordFill

\* One placement per claim, one booking per placement.
LEMMA StepOneOrderPerClaim ==
    ASSUME ClaimInv, [Next]_vars
    PROVE  OneOrderPerClaim'
<1> SUFFICES ASSUME NEW o \in Orders, NEW t \in Attempts
             PROVE  /\ placed'[o][t] <= 1
                    /\ booked'[o][t] <= placed'[o][t]
                    /\ t > attempts'[o] => placed'[o][t] = 0
    BY DEF OneOrderPerClaim
<1>1. /\ placed[o][t] \in Nat /\ placed[o][t] <= 1
      /\ booked[o][t] \in Nat /\ booked[o][t] <= placed[o][t]
      /\ t > attempts[o] => placed[o][t] = 0
  BY DEF ClaimInv, TypeOK, OneOrderPerClaim
<1>2. t \in Nat /\ attempts[o] \in Nat /\ attempts'[o] \in Nat /\ attempts'[o] >= attempts[o]
  BY AttemptsGrow, StepAttemptsNat DEF ClaimInv, TypeOK, Attempts
<1>3. CASE UNCHANGED <<placed, booked>>
  BY <1>1, <1>2, <1>3
<1>4. ASSUME NEW w \in Workers, Place(w)
      PROVE  /\ placed'[o][t] <= 1
             /\ booked'[o][t] <= placed'[o][t]
             /\ t > attempts'[o] => placed'[o][t] = 0
  <2>1. InHand(w)
    BY <1>4 DEF Place, InHand
  <2>2. current[w] \in Orders /\ ticket[w] \in Attempts /\ ticket[w] <= attempts[current[w]]
    BY <2>1, TicketInRange
  <2>3. placed' = [placed EXCEPT ![current[w]][ticket[w]] = 1] /\ booked' = booked /\ attempts' = attempts
    BY <1>4, PlaceEffect DEF table
  <2>4. placed'[o][t] = IF o = current[w] /\ t = ticket[w] THEN 1 ELSE placed[o][t]
    BY <2>2, <2>3 DEF ClaimInv, TypeOK
  <2>5. QED
    BY <1>1, <1>2, <2>2, <2>3, <2>4
<1>5. ASSUME NEW w \in Workers, RecordFill(w)
      PROVE  /\ placed'[o][t] <= 1
             /\ booked'[o][t] <= placed'[o][t]
             /\ t > attempts'[o] => placed'[o][t] = 0
  <2>1. InHand(w)
    BY <1>5 DEF RecordFill, InHand
  <2>2. current[w] \in Orders /\ ticket[w] \in Attempts
    BY <2>1, TicketInRange
  <2>3. /\ booked' = [booked EXCEPT ![current[w]][ticket[w]] = 1]
        /\ placed' = placed /\ attempts' = attempts /\ placed[current[w]][ticket[w]] = 1
    BY <1>5, RecordFillEffect DEF table
  <2>4. booked'[o][t] = IF o = current[w] /\ t = ticket[w] THEN 1 ELSE booked[o][t]
    BY <2>2, <2>3 DEF ClaimInv, TypeOK
  <2>5. QED
    BY <1>1, <1>2, <2>3, <2>4
<1>6. QED
  BY <1>3, <1>4, <1>5, HistoriesFrame

\* A step of the worker itself is the only way into a later phase of its row.
LEMMA PhaseFrame ==
    ASSUME TypeOK, [Next]_vars, NEW v \in Workers
    PROVE  /\ pc'[v] = "dispatch" => pc[v] = "dispatch" \/ \E o \in Orders : Claim(v, o)
           /\ pc'[v] \in {"placed", "record"} => pc[v] \in {"placed", "record"} \/ Place(v)
<1> DEFINE Good == /\ pc'[v] = "dispatch" => pc[v] = "dispatch" \/ \E o \in Orders : Claim(v, o)
                   /\ pc'[v] \in {"placed", "record"} => pc[v] \in {"placed", "record"} \/ Place(v)
<1> USE DEF TypeOK
<1>1. CASE UNCHANGED pc
  BY <1>1
<1>2. ASSUME NEW w \in Workers, RequeueStale(w) \/ Select(w) \/ SelectFails(w) \/ Crash(w) \/ Restart(w)
      PROVE Good
  BY <1>2 DEF RequeueStale, Select, SelectFails, Crash, Restart
<1>3. ASSUME NEW w \in Workers, NEW o \in Orders, Claim(w, o)
      PROVE Good
  BY <1>3 DEF Claim
<1>4. ASSUME NEW w \in Workers, NEW o \in Orders, ClaimMisses(w, o) \/ ClaimFails(w, o)
      PROVE Good
  BY <1>4 DEF ClaimMisses, ClaimFails, LeaveRow
<1>5. ASSUME NEW w \in Workers, Refuse(w) \/ MarkSentFails(w) \/ MarkFailedFails(w)
      PROVE Good
  BY <1>5 DEF Refuse, MarkSentFails, MarkFailedFails
<1>6. ASSUME NEW w \in Workers, Place(w)
      PROVE Good
  BY <1>6 DEF Place
<1>7. ASSUME NEW w \in Workers, RecordFill(w) \/ RecordFillFails(w) \/ MarkFailed(w) \/ MarkSent(w)
      PROVE Good
  BY <1>7 DEF RecordFill, RecordFillFails, MarkFailed, MarkSent, LeaveRow
<1>8. QED
  BY <1>1, <1>2, <1>3, <1>4, <1>5, <1>6, <1>7
     DEF Next, Work, Fault, Enqueue, DeleteCheck, DeleteCommit, Age, thread, vars

\* The holder of a claim keeps knowing what was done under it.
LEMMA StepClaimsSpent ==
    ASSUME ClaimInv, [Next]_vars
    PROVE  ClaimsSpent'
<1> SUFFICES ASSUME NEW v \in Workers
             PROVE  /\ pc'[v] = "dispatch" => placed'[current'[v]][ticket'[v]] = 0
                    /\ pc'[v] \in {"placed", "record"} => /\ placed'[current'[v]][ticket'[v]] = 1
                                                          /\ booked'[current'[v]][ticket'[v]] = 0
    BY DEF ClaimsSpent
<1> DEFINE Good == /\ pc'[v] = "dispatch" => placed'[current'[v]][ticket'[v]] = 0
                   /\ pc'[v] \in {"placed", "record"} => /\ placed'[current'[v]][ticket'[v]] = 1
                                                         /\ booked'[current'[v]][ticket'[v]] = 0
<1>1. TypeOK /\ AttemptsBounded /\ ClaimsHeld /\ ClaimsSpent /\ OneOrderPerClaim
  BY DEF ClaimInv
<1>2. ASSUME NEW o \in Orders, Claim(v, o)
      PROVE Good
  <2>1. /\ pc'[v] = "dispatch" /\ current'[v] = o /\ ticket'[v] = attempts[o] + 1
        /\ placed' = placed
    BY <1>1, <1>2 DEF Claim, TypeOK
  <2>2. attempts[o] \in Nat /\ attempts[o] < MaxAttempts
    BY <1>1, <1>2 DEF Claim, TypeOK, AttemptsBounded
  <2>3. attempts[o] + 1 \in Attempts /\ attempts[o] + 1 > attempts[o]
    BY <2>2, LimitsAssumption DEF Attempts
  <2>4. placed[o][attempts[o] + 1] = 0
    BY <1>1, <2>3 DEF OneOrderPerClaim
  <2>5. QED
    BY <2>1, <2>4
<1>3. ASSUME Place(v)
      PROVE Good
  <2>1. InHand(v)
    BY <1>3 DEF Place, InHand
  <2>2. current[v] \in Orders /\ ticket[v] \in Attempts
    BY <2>1, TicketInRange
  <2>3. /\ booked[current[v]][ticket[v]] = 0
        /\ placed' = [placed EXCEPT ![current[v]][ticket[v]] = 1]
        /\ booked' = booked /\ current' = current /\ ticket' = ticket
    BY <1>3, PlaceEffect
  <2>4. placed'[current[v]][ticket[v]] = 1
    BY <1>1, <2>2, <2>3 DEF TypeOK
  <2>5. pc'[v] # "dispatch"
    BY <1>1, <1>3 DEF Place, TypeOK
  <2>6. QED
    BY <2>3, <2>4, <2>5
<1>4. CASE ~ (Place(v) \/ \E o \in Orders : Claim(v, o)) /\ InHand(v)'
  <2>1. InHand(v) /\ current'[v] = current[v] /\ ticket'[v] = ticket[v]
    BY <1>1, <1>4, HandsOnlyByClaim
  <2>2. /\ pc'[v] = "dispatch" => pc[v] = "dispatch"
        /\ pc'[v] \in {"placed", "record"} => pc[v] \in {"placed", "record"}
    BY <1>1, <1>4, PhaseFrame
  <2>3. current[v] \in Orders /\ ticket[v] \in Attempts
    BY <2>1, TicketInRange
  <2>4. ASSUME NEW w \in Workers, Place(w) \/ RecordFill(w)
        PROVE  /\ placed'[current[v]][ticket[v]] = placed[current[v]][ticket[v]]
               /\ booked'[current[v]][ticket[v]] = booked[current[v]][ticket[v]]
    <3>1. InHand(w)
      BY <2>4 DEF Place, RecordFill, InHand
    <3>2. v # w
      <4>1. CASE Place(w)
        BY <1>4, <4>1
      <4>2. CASE RecordFill(w)
        BY <1>4, <4>2, RecordFillEffect
      <4>3. QED
        BY <2>4, <4>1, <4>2
    <3>3. ~ (current[v] = current[w] /\ ticket[v] = ticket[w])
      BY <1>1, <2>1, <3>1, <3>2 DEF ClaimsHeld
    <3>4. current[w] \in Orders /\ ticket[w] \in Attempts
      BY <3>1, TicketInRange
    <3>5. CASE Place(w)
      BY <1>1, <2>3, <3>3, <3>4, <3>5, PlaceEffect DEF TypeOK
    <3>6. CASE RecordFill(w)
      BY <1>1, <2>3, <3>3, <3>4, <3>6, RecordFillEffect DEF TypeOK
    <3>7. QED
      BY <2>4, <3>5, <3>6
  <2>5. /\ placed'[current[v]][ticket[v]] = placed[current[v]][ticket[v]]
        /\ booked'[current[v]][ticket[v]] = booked[current[v]][ticket[v]]
    BY <2>4, HistoriesFrame
  <2>6. QED
    BY <1>1, <2>1, <2>2, <2>5 DEF ClaimsSpent
<1>5. CASE ~InHand(v)'
  BY <1>5 DEF InHand
<1>6. QED
  BY <1>2, <1>3, <1>4, <1>5

\* What may change a row's status, and how.
LEMMA StatusFrame ==
    ASSUME TypeOK, [Next]_vars, NEW o \in Orders, status'[o] # status[o]
    PROVE  \/ status[o] = "absent" /\ status'[o] = "pending"
           \/ status[o] = "pending" /\ status'[o] = "processing" /\ ~aged'[o]
           \/ Stale(o) /\ status'[o] = "pending"
           \/ status'[o] = "deleted"
           \/ \E w \in Workers : SaysSent(w) /\ current[w] = o /\ status'[o] = "sent"
           \/ \E w \in Workers : SaysFailed(w) /\ current[w] = o /\ status'[o] = "failed"
<1> DEFINE Good == \/ status[o] = "absent" /\ status'[o] = "pending"
                   \/ status[o] = "pending" /\ status'[o] = "processing" /\ ~aged'[o]
                   \/ Stale(o) /\ status'[o] = "pending"
                   \/ status'[o] = "deleted"
                   \/ \E w \in Workers : SaysSent(w) /\ current[w] = o /\ status'[o] = "sent"
                   \/ \E w \in Workers : SaysFailed(w) /\ current[w] = o /\ status'[o] = "failed"
<1> USE DEF TypeOK
<1>1. CASE UNCHANGED status
  BY <1>1
<1>2. ASSUME NEW p \in Orders, Enqueue(p) \/ DeleteCommit(p)
      PROVE Good
  BY <1>2 DEF Enqueue, DeleteCommit
<1>3. ASSUME NEW w \in Workers, RequeueStale(w)
      PROVE Good
  BY <1>3 DEF RequeueStale
<1>4. ASSUME NEW p \in Orders, status[p] = "pending", TakeRow(p)
      PROVE Good
  BY <1>4 DEF TakeRow
<1>5. ASSUME NEW w \in Workers, SaysSent(w)
      PROVE Good
  BY <1>5 DEF SaysSent, MarkSent, MarkSentFails, Mark
<1>6. ASSUME NEW w \in Workers, SaysFailed(w)
      PROVE Good
  BY <1>6 DEF SaysFailed, MarkFailed, MarkFailedFails, Mark
<1>7. QED
  BY <1>1, <1>2, <1>3, <1>4, <1>5, <1>6
     DEF Next, Work, Fault, DeleteCheck, Age, Select, SelectFails, Claim, ClaimMisses, ClaimFails, Refuse,
         Place, RecordFill, RecordFillFails, SaysSent, SaysFailed, Crash, Restart, vars, table

\* A placement is never taken back.
LEMMA PlacedGrows ==
    ASSUME ClaimInv, [Next]_vars, NEW o \in Orders, NEW t \in Attempts, placed[o][t] = 1
    PROVE  placed'[o][t] = 1
<1>1. CASE UNCHANGED placed
  BY <1>1
<1>2. ASSUME NEW w \in Workers, Place(w)
      PROVE placed'[o][t] = 1
  <2>1. InHand(w)
    BY <1>2 DEF Place, InHand
  <2>2. current[w] \in Orders /\ ticket[w] \in Attempts
    BY <2>1, TicketInRange
  <2>3. /\ placed[current[w]][ticket[w]] = 0
        /\ placed' = [placed EXCEPT ![current[w]][ticket[w]] = 1]
    BY <1>2, PlaceEffect
  <2>4. placed'[o][t] = IF o = current[w] /\ t = ticket[w] THEN 1 ELSE placed[o][t]
    BY <2>2, <2>3 DEF ClaimInv, TypeOK
  <2>5. QED
    BY <2>4
<1>3. QED
  BY <1>1, <1>2, HistoriesFrame, RecordFillEffect

\* A row becomes sent only by the worker whose order was accepted.
LEMMA StepSentMeansPlaced ==
    ASSUME ClaimInv, [Next]_vars
    PROVE  SentMeansPlaced'
<1> SUFFICES ASSUME NEW o \in Orders, status'[o] = "sent"
             PROVE  \E t \in Attempts : placed'[o][t] = 1
    BY DEF SentMeansPlaced
<1>1. CASE status[o] = "sent"
  <2>1. PICK t \in Attempts : placed[o][t] = 1
    BY <1>1 DEF ClaimInv, SentMeansPlaced
  <2>2. QED
    BY <2>1, PlacedGrows
<1>2. CASE status[o] # "sent"
  <2>1. PICK w \in Workers : SaysSent(w) /\ current[w] = o
    BY <1>2, StatusFrame DEF ClaimInv
  <2>2. InHand(w) /\ placed[o][ticket[w]] = 1
    BY <2>1 DEF SaysSent, MarkSent, MarkSentFails, InHand, ClaimInv, ClaimsSpent
  <2>3. ticket[w] \in Attempts
    BY <2>2, TicketInRange
  <2>4. placed'[o][ticket[w]] = 1
    BY <2>2, <2>3, PlacedGrows
  <2>5. QED
    BY <2>3, <2>4
<1>3. QED
  BY <1>1, <1>2

\* A delete request starts from a row that exists; no row becomes absent again.
LEMMA StepDeletesNamed ==
    ASSUME ClaimInv, [Next]_vars
    PROVE  DeletesNamed'
<1> SUFFICES ASSUME NEW o \in Orders, deleting'[o], status'[o] = "absent"
             PROVE  FALSE
    BY DEF DeletesNamed
<1>1. status[o] = "absent"
  BY StatusFrame DEF ClaimInv
<1>2. ~deleting[o]
  BY <1>1 DEF ClaimInv, DeletesNamed
<1>3. deleting' # deleting
  BY <1>2
<1>4. PICK p \in Orders : DeleteCheck(p) \/ DeleteCommit(p)
  BY <1>3 DEF Next, Work, Fault, Enqueue, Age, RequeueStale, Select, SelectFails, Claim,
     ClaimMisses,
              ClaimFails, Refuse, Place, MarkSent, MarkSentFails, MarkFailed, RecordFill,
              RecordFillFails, MarkFailedFails, Crash, Restart, vars
<1>5. QED
  BY <1>1, <1>2, <1>4 DEF DeleteCheck, DeleteCommit, ClaimInv, TypeOK

\* ClaimInv is inductive, however long dispatches take.
LEMMA StepClaimInv == ClaimInv /\ [Next]_vars => ClaimInv'
<1> SUFFICES ASSUME ClaimInv, [Next]_vars PROVE ClaimInv'
    OBVIOUS
<1>1. TypeOK'
  BY StepTypeOK
<1>2. AttemptsBounded' /\ ClaimsHeld'
  BY AttemptsGrow, StepClaimsHeld DEF ClaimInv
<1>3. ClaimsSpent' /\ OneOrderPerClaim' /\ SentMeansPlaced' /\ DeletesNamed'
  BY StepClaimsSpent, StepOneOrderPerClaim, StepSentMeansPlaced, StepDeletesNamed
<1>4. QED
  BY <1>1, <1>2, <1>3 DEF ClaimInv

\* The claim invariant holds of every behaviour, slow dispatches included.
THEOREM ClaimsAreSafe == Spec => []ClaimInv
BY InitClaimInv, StepClaimInv, PTL DEF Spec

\* Type correctness.
THEOREM TypeCorrect == Spec => []TypeOK
<1>1. ClaimInv => TypeOK
  BY DEF ClaimInv
<1>2. QED
  BY <1>1, ClaimsAreSafe, PTL

\* No row is claimed more than max_attempts times, by any number of processes
\* crashing at any point.
THEOREM RetriesAreBounded == Spec => []AttemptsBounded
<1>1. ClaimInv => AttemptsBounded
  BY DEF ClaimInv
<1>2. QED
  BY <1>1, ClaimsAreSafe, PTL

\* One claim pays for at most one placement and one booking.
THEOREM ClaimsPayOnce == Spec => []OneOrderPerClaim
<1>1. ClaimInv => OneOrderPerClaim
  BY DEF ClaimInv
<1>2. QED
  BY <1>1, ClaimsAreSafe, PTL

-----------------------------------------------------------------------------
(* Timely dispatches.                                                      *)

\* A worker that records a fill or reports a failure leaves that phase only with
\* its row.
LEMMA PhaseOrder ==
    ASSUME TypeOK, [Next]_vars, NEW v \in Workers, pc[v] \in {"record", "fail"}, InHand(v)'
    PROVE  pc'[v] = pc[v]
<1> USE DEF TypeOK, InHand
<1>1. CASE UNCHANGED pc
  BY <1>1
<1>2. ASSUME NEW w \in Workers, RequeueStale(w) \/ Select(w) \/ SelectFails(w) \/ Crash(w) \/ Restart(w)
      PROVE pc'[v] = pc[v]
  BY <1>2 DEF RequeueStale, Select, SelectFails, Crash, Restart
<1>3. ASSUME NEW w \in Workers, NEW o \in Orders, Claim(w, o) \/ ClaimMisses(w, o) \/ ClaimFails(w, o)
      PROVE pc'[v] = pc[v]
  BY <1>3 DEF Claim, ClaimMisses, ClaimFails, LeaveRow, AtRow
<1>4. ASSUME NEW w \in Workers, Refuse(w) \/ Place(w) \/ MarkSentFails(w) \/ MarkFailedFails(w)
      PROVE pc'[v] = pc[v]
  BY <1>4 DEF Refuse, Place, MarkSentFails, MarkFailedFails
<1>5. ASSUME NEW w \in Workers, RecordFill(w) \/ RecordFillFails(w) \/ MarkFailed(w) \/ MarkSent(w)
      PROVE pc'[v] = pc[v]
  BY <1>5 DEF RecordFill, RecordFillFails, MarkFailed, MarkSent, LeaveRow
<1>6. QED
  BY <1>1, <1>2, <1>3, <1>4, <1>5
     DEF Next, Work, Fault, Enqueue, DeleteCheck, DeleteCommit, Age, thread, vars

\* A fresh row that a worker has in hand does not age.
LEMMA AgedFrame ==
    ASSUME SlowDispatch = FALSE, TypeOK, [Next]_vars, NEW v \in Workers, NEW o \in Orders,
           Working(v, o), ~aged[o]
    PROVE  ~aged'[o]
<1> USE DEF TypeOK
<1>1. CASE UNCHANGED aged
  BY <1>1
<1>2. ASSUME NEW p \in Orders, Age(p)
      PROVE ~aged'[o]
  BY <1>2 DEF Age
<1>3. ASSUME NEW w \in Workers, RequeueStale(w)
      PROVE ~aged'[o]
  BY <1>3 DEF RequeueStale
<1>4. ASSUME NEW p \in Orders, TakeRow(p)
      PROVE ~aged'[o]
  BY <1>4 DEF TakeRow
<1>5. QED
  BY <1>1, <1>2, <1>3, <1>4
     DEF Next, Work, Fault, Enqueue, DeleteCheck, DeleteCommit, Select, SelectFails,
         Claim, ClaimMisses, ClaimFails, Refuse, Place, MarkSent, MarkSentFails, MarkFailed, RecordFill,
         RecordFillFails, MarkFailedFails, Crash, Restart, vars, table

\* Failures are counted, and a row's kind does not change.
LEMMA FaultsGrow ==
    ASSUME TypeOK, [Next]_vars
    PROVE  mode' = mode /\ faults' >= faults
<1>1. mode' = mode /\ (faults' = faults \/ faults' = faults + 1)
  BY DEF Next, Work, Fault, Enqueue, DeleteCheck, DeleteCommit, Age, RequeueStale,
     Select, SelectFails,
         Claim, ClaimMisses, ClaimFails, Refuse, Place, MarkSent, MarkSentFails, MarkFailed, RecordFill,
         RecordFillFails, MarkFailedFails, Crash, Restart, vars
<1>2. QED
  BY <1>1, LimitsAssumption DEF TypeOK

\* Rows in hand stay fresh, and so out of every other worker's reach.
LEMMA StepFreshInHand ==
    ASSUME SlowDispatch = FALSE, TimelyInv, [Next]_vars
    PROVE  FreshInHand'
<1> SUFFICES ASSUME NEW v \in Workers, InHand(v)'
             PROVE  /\ \/ status'[current'[v]] \in {"processing", "deleted"}
                       \/ status'[current'[v]] = "sent" /\ (pc'[v] = "record" \/ Unaware(v)')
                    /\ status'[current'[v]] = "processing" => ~aged'[current'[v]]
    BY DEF FreshInHand, InHand, Unaware
<1>1. ClaimInv /\ TypeOK
  BY DEF TimelyInv, ClaimInv
<1>2. ASSUME NEW o \in Orders, Claim(v, o)
      PROVE current'[v] = o /\ status'[o] = "processing" /\ aged'[o] = FALSE
  BY <1>1, <1>2 DEF Claim, TakeRow, TypeOK
<1>3. CASE InHand(v) /\ current'[v] = current[v] /\ ticket'[v] = ticket[v]
  <2> DEFINE o == current[v]
  <2>1. /\ o \in Orders
        /\ \/ status[o] \in {"processing", "deleted"}
           \/ status[o] = "sent" /\ (pc[v] = "record" \/ Unaware(v))
        /\ status[o] = "processing" => ~aged[o]
    BY <1>1, <1>3, TicketInRange DEF TimelyInv, FreshInHand
  <2>2. Working(v, o)
    BY <1>3 DEF Working, InHand
  <2>3. status[o] = "processing" /\ status'[o] = "processing" => ~aged'[o]
    BY <1>1, <2>1, <2>2, AgedFrame
  <2>4. pc[v] = "record" \/ Unaware(v) => pc'[v] = "record" \/ Unaware(v)'
    <3>1. mode' = mode /\ (faults > 0 => faults' > 0)
      BY <1>1, FaultsGrow, StepTypeOK, LimitsAssumption DEF TypeOK
    <3>2. pc[v] \in {"record", "fail"} => pc'[v] = pc[v]
      BY <1>1, <1>3, PhaseOrder
    <3>3. QED
      BY <1>3, <3>1, <3>2 DEF Unaware
  <2>5. CASE status'[o] = status[o]
    BY <1>3, <2>1, <2>3, <2>4, <2>5
  <2>6. CASE status'[o] # status[o]
    <3>1. ~Stale(o) /\ status[o] \notin {"absent", "pending"}
      BY <2>1 DEF Stale
    <3>2. ASSUME NEW w \in Workers, current[w] = o, SaysSent(w) \/ SaysFailed(w)
          PROVE w = v
      <4>1. Working(w, o)
        BY <3>2 DEF Working, SaysSent, SaysFailed, MarkSent, MarkSentFails, MarkFailed,
           MarkFailedFails
      <4>2. QED
        BY <2>1, <2>2, <4>1 DEF TimelyInv, NoDoubleDispatch
    <3>3. ~SaysFailed(v)
      BY <1>1 DEF SaysFailed, MarkFailed, MarkFailedFails, LeaveRow, InHand, TypeOK
    <3>4. MarkSent(v) => pc'[v] = "record"
      BY <1>1 DEF MarkSent, LeaveRow, InHand, TypeOK
    <3>5. ASSUME MarkSentFails(v)
          PROVE  pc'[v] = "record" \/ Unaware(v)'
      <4>1. pc'[v] = IF mode[o] = "exchange" THEN "record" ELSE "fail"
        BY <1>1, <3>5 DEF MarkSentFails, TypeOK
      <4>2. mode' = mode /\ faults' > 0
        BY <1>1, <3>5, LimitsAssumption DEF MarkSentFails, TypeOK
      <4>3. QED
        BY <1>3, <4>1, <4>2 DEF Unaware
    <3>6. \/ status'[o] = "deleted"
          \/ status'[o] = "sent" /\ (pc'[v] = "record" \/ Unaware(v)')
      BY <1>1, <2>1, <2>6, <3>1, <3>2, <3>3, <3>4, <3>5, StatusFrame DEF SaysSent
    <3>7. QED
      BY <1>3, <3>6
  <2>7. QED
    BY <2>5, <2>6
<1>4. QED
  BY <1>1, <1>2, <1>3, HandsOnlyByClaim

\* A row in hand is not pending, so nobody else can claim it.
LEMMA StepNoDoubleDispatch ==
    ASSUME TimelyInv, [Next]_vars
    PROVE  NoDoubleDispatch'
<1> SUFFICES ASSUME NEW v \in Workers, NEW w \in Workers, NEW o \in Orders, v # w,
                    InHand(v)', InHand(w)', current'[v] = o, current'[w] = o
             PROVE  FALSE
    BY DEF NoDoubleDispatch, Working, InHand
<1>1. TypeOK
  BY DEF TimelyInv, ClaimInv
<1>2. ASSUME NEW x \in Workers, NEW y \in Workers, x # y, InHand(y)', current'[y] = o, Claim(x, o)
      PROVE FALSE
  <2>1. InHand(y) /\ current[y] = o
    BY <1>1, <1>2 DEF Claim, InHand, TypeOK
  <2>2. status[o] # "pending"
    BY <2>1 DEF TimelyInv, FreshInHand
  <2>3. QED
    BY <1>2, <2>2 DEF Claim
<1>3. ASSUME NEW x \in Workers, NEW p \in Orders, Claim(x, p), current'[x] = o
      PROVE p = o
  BY <1>1, <1>3 DEF Claim, TypeOK
<1>4. ~ \E p \in Orders : Claim(v, p) \/ Claim(w, p)
  BY <1>2, <1>3
<1>5. InHand(v) /\ current[v] = o /\ InHand(w) /\ current[w] = o
  BY <1>1, <1>4, HandsOnlyByClaim
<1>6. QED
  BY <1>5 DEF TimelyInv, NoDoubleDispatch, Working, InHand

\* TimelyInv is inductive when no dispatch outlasts the stale limit.
LEMMA TimelyInvariant ==
    ASSUME SlowDispatch = FALSE
    PROVE  Spec => []TimelyInv
<1>1. Init => TimelyInv
  <2> SUFFICES ASSUME Init PROVE TimelyInv
      OBVIOUS
  <2>1. FreshInHand /\ NoDoubleDispatch
    BY DEF Init, FreshInHand, NoDoubleDispatch, InHand, Working
  <2>2. QED
    BY <2>1, InitClaimInv DEF TimelyInv
<1>2. TimelyInv /\ [Next]_vars => TimelyInv'
  BY StepClaimInv, StepFreshInHand, StepNoDoubleDispatch DEF TimelyInv
<1>3. QED
  BY <1>1, <1>2, PTL DEF Spec

\* Two processes never have the same row in hand.
THEOREM DispatchIsExclusive ==
    ASSUME SlowDispatch = FALSE
    PROVE  Spec => []NoDoubleDispatch
<1>1. TimelyInv => NoDoubleDispatch
  BY DEF TimelyInv
<1>2. QED
  BY <1>1, TimelyInvariant, PTL

\* The statuses a row in hand may have when its holder writes a result.
LEMMA MarkedRow ==
    ASSUME TimelyInv, NEW w \in Workers, SaysSent(w) \/ SaysFailed(w)
    PROVE  /\ InHand(w) /\ current[w] \in Orders
           /\ SaysSent(w) => status[current[w]] \in {"processing", "deleted"}
           /\ SaysFailed(w) => \/ status[current[w]] \in {"processing", "deleted"}
                               \/ status[current[w]] = "sent" /\ Unaware(w)
<1>1. /\ InHand(w)
      /\ SaysSent(w) => pc[w] = "placed"
      /\ SaysFailed(w) => pc[w] = "fail"
  BY DEF SaysSent, SaysFailed, MarkSent, MarkSentFails, MarkFailed, MarkFailedFails, InHand
<1>2. current[w] \in Orders
  BY <1>1, TicketInRange DEF TimelyInv
<1>3. \/ status[current[w]] \in {"processing", "deleted"}
      \/ status[current[w]] = "sent" /\ (pc[w] = "record" \/ Unaware(w))
  BY <1>1 DEF TimelyInv, FreshInHand
<1>4. SaysSent(w) => status[current[w]] \in {"processing", "deleted"}
  BY <1>1, <1>3 DEF Unaware
<1>5. SaysFailed(w) => \/ status[current[w]] \in {"processing", "deleted"}
                       \/ status[current[w]] = "sent" /\ Unaware(w)
  BY <1>1, <1>3
<1>6. QED
  BY <1>1, <1>2, <1>4, <1>5

\* A result is not overwritten, but for a "sent" its own writer is in doubt of.
THEOREM ResultsAreFinal ==
    ASSUME SlowDispatch = FALSE
    PROVE  Spec => FinalIsFinal
<1> DEFINE Stays(o) == \/ status'[o] \in {status[o], "deleted"}
                       \/ /\ InDoubt(o) /\ mode[o] # "exchange" /\ faults > 0
                          /\ status'[o] = "failed"
<1>1. TimelyInv /\ [Next]_vars => [\A o \in Orders : status[o] \in Final => Stays(o)]_vars
  <2> SUFFICES ASSUME TimelyInv, [Next]_vars, NEW o \in Orders, status[o] \in Final,
                      status'[o] # status[o], status'[o] # "deleted"
               PROVE  /\ InDoubt(o) /\ mode[o] # "exchange" /\ faults > 0
                      /\ status'[o] = "failed"
      OBVIOUS
  <2>1. status[o] \in {"sent", "failed"} /\ TypeOK
    BY DEF Final, TimelyInv, ClaimInv
  <2>2. ~Stale(o)
    BY <2>1 DEF Stale
  <2>3. PICK w \in Workers : /\ current[w] = o
                             /\ \/ SaysSent(w) /\ status'[o] = "sent"
                                \/ SaysFailed(w) /\ status'[o] = "failed"
    BY <2>1, <2>2, StatusFrame
  <2>4. SaysFailed(w) /\ status'[o] = "failed" /\ status[o] = "sent" /\ Unaware(w)
    BY <2>1, <2>3, MarkedRow
  <2>5. QED
    BY <2>3, <2>4 DEF Unaware, InDoubt
<1>2. QED
  BY <1>1, TimelyInvariant, PTL DEF Spec, FinalIsFinal

-----------------------------------------------------------------------------
(* The queue implements the abstract life cycle of a row.                  *)

Doubted == {o \in Orders : InDoubt(o)}

\* Only worker w moves.
OthersRest(w) == \A v \in Workers \ {w} : pc'[v] = pc[v] /\ current'[v] = current[v]

\* While no row becomes sent or stops being so, a worker that is not about to
\* report a failure leaves the doubts as they are.
LEMMA NoDoubt ==
    ASSUME NEW w \in Workers, OthersRest(w), pc[w] # "fail", pc'[w] # "fail",
           \A o \in Orders : status'[o] = "sent" <=> status[o] = "sent"
    PROVE  Doubted' = Doubted
<1>1. ASSUME NEW o \in Orders
      PROVE  InDoubt(o)' <=> InDoubt(o)
  <2>1. \A v \in Workers : pc'[v] = "fail" /\ current'[v] = o <=> pc[v] = "fail" /\ current[v] = o
    BY DEF OthersRest
  <2>2. QED
    BY <2>1 DEF InDoubt
<1>2. QED
  BY <1>1 DEF Doubted

\* A worker that moves with row p in hand, which nobody else has, decides about
\* the doubt of p and of no other row.
LEMMA OwnDoubt ==
    ASSUME TimelyInv, NEW w \in Workers, NEW p \in Orders, OthersRest(w),
           InHand(w), current[w] = p, pc'[w] = "fail" => current'[w] = p,
           \A o \in Orders \ {p} : status'[o] = status[o]
    PROVE  /\ \A o \in Orders \ {p} : InDoubt(o)' <=> InDoubt(o)
           /\ InDoubt(p) <=> status[p] = "sent" /\ pc[w] = "fail"
           /\ InDoubt(p)' <=> status'[p] = "sent" /\ pc'[w] = "fail"
<1>1. ASSUME NEW v \in Workers \ {w}
      PROVE  ~ (pc[v] = "fail" /\ current[v] = p)
  BY DEF TimelyInv, NoDoubleDispatch, Working, InHand
<1>2. InDoubt(p) <=> status[p] = "sent" /\ pc[w] = "fail"
  BY <1>1 DEF InDoubt
<1>3. InDoubt(p)' <=> status'[p] = "sent" /\ pc'[w] = "fail"
  BY <1>1 DEF InDoubt, OthersRest
<1>4. ASSUME NEW o \in Orders \ {p}
      PROVE  InDoubt(o)' <=> InDoubt(o)
  <2>1. \A v \in Workers : pc'[v] = "fail" /\ current'[v] = o <=> pc[v] = "fail" /\ current[v] = o
    BY DEF OthersRest
  <2>2. QED
    BY <2>1 DEF InDoubt
<1>5. QED
  BY <1>2, <1>3, <1>4

\* A step of the worker that leaves every status as it is raises no doubt, and
\* ends at most the doubt of the row it had in hand.
LEMMA QuietStep ==
    ASSUME TimelyInv, NEW w \in Workers, OthersRest(w), UNCHANGED <<status, attempts>>,
           pc[w] # "fail" /\ pc'[w] = "fail" =>
               InHand(w) /\ current'[w] = current[w] /\ status[current[w]] # "sent",
           pc'[w] = "fail" => current'[w] = current[w]
    PROVE  \/ UNCHANGED <<status, attempts>> /\ Doubted' = Doubted
           \/ \E o \in Orders : Lifecycle!Forget(o)
<1>1. CASE pc[w] # "fail" /\ pc'[w] # "fail"
  BY <1>1, NoDoubt
<1>2. CASE pc[w] = "fail" \/ pc'[w] = "fail"
  <2>0. InHand(w) /\ current[w] \in Orders
    BY <1>2, TicketInRange DEF InHand, TimelyInv
  <2>1. PICK p \in Orders : p = current[w]
    BY <2>0
  <2>2. /\ \A o \in Orders \ {p} : InDoubt(o)' <=> InDoubt(o)
        /\ InDoubt(p) <=> status[p] = "sent" /\ pc[w] = "fail"
        /\ InDoubt(p)' <=> status'[p] = "sent" /\ pc'[w] = "fail"
    BY <2>0, <2>1, OwnDoubt
  <2>3. CASE InDoubt(p)' <=> InDoubt(p)
    BY <2>1, <2>2, <2>3 DEF Doubted
  <2>4. CASE InDoubt(p) /\ ~InDoubt(p)'
    <3>1. Doubted' = Doubted \ {p} /\ p \in Doubted
      BY <2>1, <2>2, <2>4 DEF Doubted
    <3>2. QED
      BY <2>1, <3>1 DEF Lifecycle!Forget, Doubted
  <2>5. ~ (InDoubt(p)' /\ ~InDoubt(p))
    BY <2>1, <2>2
  <2>6. QED
    BY <2>3, <2>4, <2>5
<1>3. QED
  BY <1>1, <1>2

\* A result written over a row being processed settles it, over a "sent" in doubt
\* retracts it, and over a deleted row changes nothing.
LEMMA MarkStep ==
    ASSUME TimelyInv, [Next]_vars, NEW w \in Workers, NEW final \in {"sent", "failed"},
           final = "sent" => SaysSent(w), final = "failed" => SaysFailed(w),
           Mark(current[w], final), UNCHANGED attempts
    PROVE  \/ UNCHANGED <<status, attempts>> /\ Doubted' = Doubted
           \/ \E o \in Orders : \/ Lifecycle!Settle(o, final) \/ Lifecycle!Retract(o)
                                \/ Lifecycle!Forget(o)
<1>0. current[w] \in Orders
  BY MarkedRow
<1>p. PICK p \in Orders : p = current[w]
  BY <1>0
<1>1. /\ TypeOK /\ InHand(w)
      /\ final = "sent" => pc[w] = "placed" /\ status[p] \in {"processing", "deleted"}
      /\ final = "failed" => pc[w] = "fail" /\ status[p] \in {"processing", "deleted", "sent"}
  BY <1>p, MarkedRow
     DEF SaysSent, SaysFailed, MarkSent, MarkSentFails, MarkFailed, MarkFailedFails,
     TimelyInv, ClaimInv
<1>2. /\ OthersRest(w)
      /\ pc'[w] = "fail" => current'[w] = p /\ final = "sent"
  BY <1>p, <1>1 DEF OthersRest, SaysSent, SaysFailed, MarkSent, MarkSentFails,
     MarkFailed, MarkFailedFails, LeaveRow, TypeOK
<1>3. /\ status'[p] = IF status[p] = "deleted" THEN "deleted" ELSE final
      /\ \A o \in Orders \ {p} : status'[o] = status[o]
      /\ status' = [status EXCEPT ![p] = status'[p]]
  BY <1>p, <1>1 DEF Mark, TypeOK
<1>4. /\ \A o \in Orders \ {p} : InDoubt(o)' <=> InDoubt(o)
      /\ InDoubt(p) <=> status[p] = "sent" /\ pc[w] = "fail"
      /\ InDoubt(p)' <=> status'[p] = "sent" /\ pc'[w] = "fail"
  BY <1>p, <1>1, <1>2, <1>3, OwnDoubt
<1>5. CASE status[p] = "deleted"
  <2>1. status' = status
    BY <1>1, <1>3, <1>5 DEF TypeOK
  <2>2. Doubted' = Doubted
    BY <1>4, <1>5, <2>1 DEF Doubted
  <2>3. QED
    BY <2>1, <2>2
<1>6. CASE status[p] = "processing"
  <2>1. \/ Doubted' = Doubted
        \/ final = "sent" /\ Doubted' = Doubted \cup {p}
    BY <1>1, <1>2, <1>4, <1>6 DEF Doubted
  <2>2. status' = [status EXCEPT ![p] = final]
    BY <1>3, <1>6
  <2>3. Lifecycle!Settle(p, final)
    BY <1>6, <2>1, <2>2 DEF Lifecycle!Settle, Doubted
  <2>4. QED
    BY <1>1, <2>3
<1>7. CASE status[p] = "sent"
  <2>1. final = "failed" /\ status' = [status EXCEPT ![p] = "failed"]
    BY <1>1, <1>3, <1>7
  <2>2. p \in Doubted /\ Doubted' = Doubted \ {p}
    BY <1>1, <1>3, <1>4, <1>7, <2>1 DEF Doubted
  <2>3. Lifecycle!Retract(p)
    BY <2>1, <2>2 DEF Lifecycle!Retract, Doubted
  <2>4. QED
    BY <1>1, <2>3
<1>8. QED
  BY <1>1, <1>5, <1>6, <1>7

\* Every step of the queue is a step of some row, of a set of rows given
\* back, or none at all.
LEMMA StepImplements ==
    ASSUME TimelyInv, [Next]_vars
    PROVE  [Lifecycle!Next]_(Lifecycle!vars)
<1> USE DEF Lifecycle!vars, Lifecycle!Next
<1>0. TypeOK /\ AttemptsBounded /\ DeletesNamed /\ ClaimInv
  BY DEF TimelyInv, ClaimInv
<1>a. UNCHANGED <<status, attempts>> /\ Doubted' = Doubted => UNCHANGED Lifecycle!vars
  BY DEF Doubted
<1>1. CASE UNCHANGED <<table, pc, current>>
  <2>1. Doubted' = Doubted
    BY <1>1 DEF Doubted, InDoubt, table
  <2>2. QED
    BY <1>1, <1>a, <2>1 DEF table
<1>2. ASSUME NEW o \in Orders, Enqueue(o)
      PROVE Lifecycle!Queue(o)
  <2>1. \A p \in Orders : InDoubt(p)' <=> InDoubt(p)
    BY <1>0, <1>2 DEF Enqueue, thread, InDoubt, TypeOK
  <2>2. Doubted' = Doubted
    BY <2>1 DEF Doubted
  <2>3. QED
    BY <1>2, <2>2 DEF Enqueue, Lifecycle!Queue, Doubted
<1>3. ASSUME NEW o \in Orders, DeleteCommit(o)
      PROVE Lifecycle!Remove(o)
  <2>1. \A p \in Orders : InDoubt(p)' <=> InDoubt(p) /\ p # o
    BY <1>0, <1>3 DEF DeleteCommit, thread, InDoubt, TypeOK
  <2>2. Doubted' = Doubted \ {o}
    BY <2>1 DEF Doubted
  <2>3. QED
    BY <1>0, <1>3, <2>2 DEF DeleteCommit, DeletesNamed, Lifecycle!Remove, Doubted
<1>4. ASSUME NEW w \in Workers, RequeueStale(w)
      PROVE Lifecycle!GiveBack
  <2> DEFINE S == {o \in Orders : Stale(o)}
  <2>1. S \in SUBSET {o \in Orders : status[o] = "processing" /\ attempts[o] < MaxAttempts}
    BY DEF Stale
  <2>2. status' = [o \in Orders |-> IF o \in S THEN "pending" ELSE status[o]]
    BY <1>4 DEF RequeueStale
  <2>3. UNCHANGED attempts
    BY <1>4 DEF RequeueStale
  <2>4. /\ OthersRest(w) /\ pc[w] # "fail" /\ pc'[w] # "fail"
    BY <1>0, <1>4 DEF RequeueStale, OthersRest, TypeOK
  <2>5. \A o \in Orders : status'[o] = "sent" <=> status[o] = "sent"
    BY <2>1, <2>2
  <2>6. Doubted' = Doubted
    BY <2>4, <2>5, NoDoubt
  <2>7. QED
    BY <2>1, <2>2, <2>3, <2>6 DEF Lifecycle!GiveBack, Doubted
<1>5. ASSUME NEW w \in Workers, NEW o \in Orders, Claim(w, o) \/ ClaimFails(w, o),
             status[o] = "pending", TakeRow(o)
      PROVE Lifecycle!Start(o)
  <2>1. OthersRest(w) /\ pc[w] # "fail" /\ pc'[w] # "fail"
    BY <1>0, <1>5 DEF Claim, ClaimFails, LeaveRow, AtRow, OthersRest, TypeOK
  <2>2. \A p \in Orders : status'[p] = "sent" <=> status[p] = "sent"
    BY <1>0, <1>5 DEF TakeRow, TypeOK
  <2>3. Doubted' = Doubted
    BY <2>1, <2>2, NoDoubt
  <2>4. QED
    BY <1>0, <1>5, <2>3 DEF TakeRow, AttemptsBounded, Lifecycle!Start, Doubted
<1>6. ASSUME NEW w \in Workers, MarkSent(w) \/ MarkFailed(w)
      PROVE [Lifecycle!Next]_(Lifecycle!vars)
  <2>1. CASE MarkSent(w)
    BY <1>a, <2>1, MarkStep DEF MarkSent, SaysSent
  <2>2. CASE MarkFailed(w)
    BY <1>a, <2>2, MarkStep DEF MarkFailed, SaysFailed
  <2>3. QED
    BY <1>6, <2>1, <2>2
<1>7. ASSUME NEW w \in Workers, MarkSentFails(w) \/ MarkFailedFails(w)
      PROVE [Lifecycle!Next]_(Lifecycle!vars)
  <2>1. UNCHANGED attempts
    BY <1>7 DEF MarkSentFails, MarkFailedFails
  <2>2. CASE UNCHANGED status
    <3>1. /\ OthersRest(w) /\ (pc'[w] = "fail" => current'[w] = current[w])
          /\ pc'[w] = "fail" => InHand(w) /\ pc[w] = "placed"
      BY <1>0, <1>7 DEF MarkSentFails, MarkFailedFails, OthersRest, InHand, TypeOK
    <3>2. pc'[w] = "fail" => status[current[w]] # "sent"
      BY <3>1 DEF TimelyInv, FreshInHand, Unaware
    <3>3. QED
      BY <1>a, <2>1, <2>2, <3>1, <3>2, QuietStep
  <2>3. CASE MarkSentFails(w) /\ Mark(current[w], "sent")
    BY <1>a, <2>1, <2>3, MarkStep DEF SaysSent
  <2>4. CASE MarkFailedFails(w) /\ Mark(current[w], "failed")
    BY <1>a, <2>1, <2>4, MarkStep DEF SaysFailed
  <2>5. QED
    BY <1>7, <2>2, <2>3, <2>4 DEF MarkSentFails, MarkFailedFails
<1>8. ASSUME NEW w \in Workers, Refuse(w) \/ Place(w)
      PROVE [Lifecycle!Next]_(Lifecycle!vars)
  <2>1. /\ OthersRest(w) /\ current'[w] = current[w] /\ UNCHANGED <<status, attempts>>
        /\ InHand(w) /\ pc[w] = "dispatch"
    BY <1>0, <1>8 DEF Refuse, Place, OthersRest, InHand, TypeOK, table
  <2>2. status[current[w]] # "sent"
    BY <2>1 DEF TimelyInv, FreshInHand, Unaware
  <2>3. QED
    BY <1>a, <2>1, <2>2, QuietStep
<1>9. ASSUME NEW w \in Workers, NEW o \in Orders,
             \/ Crash(w) \/ Restart(w) \/ Select(w) \/ SelectFails(w) \/ RecordFill(w)
             \/ RecordFillFails(w) \/ ClaimMisses(w, o)
             \/ ClaimFails(w, o) /\ UNCHANGED table
      PROVE [Lifecycle!Next]_(Lifecycle!vars)
  <2>1. UNCHANGED <<status, attempts>>
    BY <1>9 DEF Crash, Restart, Select, SelectFails, RecordFill, RecordFillFails,
       ClaimMisses, table
  <2>2. CASE Crash(w) \/ Restart(w) \/ Select(w) \/ SelectFails(w)
    <3>1. OthersRest(w) /\ pc'[w] # "fail"
      BY <1>0, <2>2 DEF Crash, Restart, Select, SelectFails, OthersRest, TypeOK
    <3>2. QED
      BY <1>a, <2>1, <3>1, QuietStep
  <2>3. CASE RecordFill(w) \/ RecordFillFails(w) \/ ClaimMisses(w, o) \/ ClaimFails(w, o)
    <3>1. OthersRest(w) /\ pc'[w] # "fail"
      BY <1>0, <2>3 DEF RecordFill, RecordFillFails, ClaimMisses, ClaimFails, LeaveRow,
         OthersRest, TypeOK
    <3>2. QED
      BY <1>a, <2>1, <3>1, QuietStep
  <2>4. QED
    BY <1>9, <2>2, <2>3
<1>10. ASSUME NEW w \in Workers, NEW o \in Orders, Claim(w, o) \/ ClaimFails(w, o)
       PROVE [Lifecycle!Next]_(Lifecycle!vars)
  BY <1>5, <1>9, <1>10 DEF Claim, ClaimFails
<1>11. ASSUME NEW w \in Workers, Work(w) \/ Fault(w) \/ Restart(w)
       PROVE [Lifecycle!Next]_(Lifecycle!vars)
  <2>1. CASE \E o \in Orders : Claim(w, o) \/ ClaimMisses(w, o) \/ ClaimFails(w, o)
    BY <1>9, <1>10, <2>1
  <2>2. CASE Crash(w) \/ Restart(w) \/ Select(w) \/ SelectFails(w) \/ RecordFill(w) \/ RecordFillFails(w)
    <3>1. CASE Orders = {}
      <4>1. Doubted' = Doubted /\ UNCHANGED <<status, attempts>>
        BY <2>2, <3>1 DEF Doubted, Crash, Restart, Select, SelectFails, RecordFill,
           RecordFillFails, table
      <4>2. QED
        BY <1>a, <4>1
    <3>2. CASE Orders # {}
      BY <1>9, <2>2, <3>2
    <3>3. QED
      BY <3>1, <3>2
  <2>3. CASE RequeueStale(w)
    BY <1>4, <2>3
  <2>4. QED
    BY <1>6, <1>7, <1>8, <1>11, <2>1, <2>2, <2>3 DEF Work, Fault
<1>12. CASE UNCHANGED vars
  BY <1>1, <1>12 DEF vars, table
<1>13. ASSUME NEW o \in Orders, DeleteCheck(o) \/ Age(o)
       PROVE [Lifecycle!Next]_(Lifecycle!vars)
  <2>1. UNCHANGED <<status, attempts, pc, current>>
    BY <1>13 DEF DeleteCheck, Age, table, thread
  <2>2. Doubted' = Doubted
    BY <2>1 DEF Doubted, InDoubt
  <2>3. QED
    BY <1>a, <2>1, <2>2
<1>14. QED
  BY <1>2, <1>3, <1>11, <1>12, <1>13 DEF Next

\* Timely worker processes, whatever fails, implement one bounded-retry queue.
THEOREM Implements ==
    ASSUME SlowDispatch = FALSE
    PROVE  Spec => ImplementsLifecycle
<1>1. Init => Lifecycle!Init
  BY DEF Init, Lifecycle!Init, InDoubt
<1>2. TimelyInv /\ [Next]_vars => [Lifecycle!Next]_(Lifecycle!vars)
  BY StepImplements
<1>3. QED
  BY <1>1, <1>2, TimelyInvariant, PTL DEF Spec, ImplementsLifecycle, Lifecycle!Spec
=============================================================================
