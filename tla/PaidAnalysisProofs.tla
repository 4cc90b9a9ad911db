------------------------- MODULE PaidAnalysisProofs -------------------------
(***************************************************************************)
(* Proofs about paid analyses for any numbers of clicks, monitors,         *)
(* positions, credits and faults.                                          *)
(***************************************************************************)
EXTENDS PaidAnalysis, TLAPS, SequenceTheorems, WellFoundedInduction

(* Requests *)

TaskSteps == {"idle", "charge", "submit", "run", "finalize", "refund", "mark", "tidy",
              "leave", "done"}

TaskTypeOK ==
    /\ step \in [Requests -> TaskSteps] /\ mode \in [Requests -> {"wait", "submit"}]
    /\ guard \in Requests \cup {Nobody}
    /\ task \in [Requests -> {"none", "processing", "completed", "failed"}]
    /\ stored \in [Requests -> BOOLEAN] /\ failed \in [Requests -> {"no", "error", "raise"}]
    /\ paid \in [Requests -> {0, 1}] /\ answered \in [Requests -> BOOLEAN]
    /\ taskFaults \in Nat
    /\ loosened \subseteq Requests /\ spoilt \subseteq Requests

\* Whoever is inside holds the entry, or lost it to a removal.
GuardInv == \A r \in Requests : Inside(r) => guard = r \/ r \in loosened

\* When a request, spoilt or not, has paid.
PaidInv ==
    \A r \in Requests :
        /\ step[r] \in {"idle", "charge"} => paid[r] = 0
        /\ step[r] \in {"submit", "run", "finalize", "refund", "tidy"} => paid[r] = 1

\* What has become of an unspoilt request at each step.
Progress(r) ==
    /\ step[r] \in {"idle", "charge", "submit"} => task[r] = "none" /\ failed[r] = "no"
    /\ step[r] \in {"submit", "finalize", "tidy", "mark"} => mode[r] = "submit"
    /\ step[r] \notin {"leave", "done"} => ~answered[r]
    /\ step[r] = "run" =>
          failed[r] = "no" /\ task[r] = IF mode[r] = "submit" THEN "processing" ELSE "none"
    /\ step[r] = "finalize" => task[r] = "processing" /\ failed[r] # "raise"
    /\ step[r] = "refund" /\ mode[r] = "wait" => task[r] = "none"
    /\ step[r] = "refund" /\ mode[r] = "submit" =>
          \/ failed[r] = "error" /\ task[r] = "failed"
          \/ failed[r] = "raise" /\ task[r] = "processing"
    /\ step[r] = "mark" => paid[r] = 0 /\ task[r] = "processing"
    /\ step[r] = "tidy" => task[r] = "completed"
    /\ step[r] \in {"leave", "done"} =>
          (paid[r] = 1 <=> Served(r)) /\ task[r] # "processing"
ProgressInv == \A r \in Requests \ spoilt : Progress(r)

TaskInv == TaskTypeOK /\ GuardInv /\ PaidInv /\ ProgressInv

(* Monitors *)

MonitorSteps == {"idle", "check", "charge", "analyse"}
Places(s) == 1..Len(s)
Distinct(s) == \A i, j \in Places(s) : s[i] = s[j] => i = j
Mine == run["loop"].of

MonitorTypeOK ==
    /\ due \in Seq(Monitors) /\ batch \in Seq(Monitors)
    /\ run \in [Runners -> [of : Monitors \cup {NoMonitor}, step : MonitorSteps,
                            spent : 0..Positions]]
    /\ credits \in 0..MaxCredits
    /\ monitorFaults \in Nat
    /\ billed \in [Monitors -> Nat] /\ interrupted \subseteq Monitors
    /\ short \subseteq Runners

RunInv ==
    \A k \in Runners :
        /\ run[k].step = "idle" <=> run[k].of = NoMonitor
        /\ run[k].step \in {"idle", "check"} => run[k].spent = 0
        /\ run[k].step = "charge" =>
              /\ run[k].spent < Positions
              /\ credits + run[k].spent >= Positions \/ k \in short
        /\ run[k].step = "analyse" => run[k].spent = Positions \/ k \in short

\* The loop has each monitor once, in its hands or among the rows of its look.
LookInv == Distinct(due) /\ Distinct(batch) /\ Mine \notin ToSet(batch)

\* A monitor that was charged for and is still due is the one in hand.
BilledInv ==
    \A m \in Monitors : m \notin interrupted /\ billed[m] > 0 =>
        /\ billed[m] = 1
        /\ m \notin ToSet(batch)
        /\ Mine = m => run["loop"].spent > 0
        /\ m \in ToSet(due) => Mine = m

MonitorInv == MonitorTypeOK /\ RunInv /\ LookInv /\ BilledInv

IInv == TaskInv /\ MonitorInv

-----------------------------------------------------------------------------
(* The sequences of the monitors *)

\* The elements of a sequence and the set of them.
LEMMA ElementsOf ==
    ASSUME NEW S, NEW s \in Seq(S)
    PROVE  /\ ToSet(s) = {s[i] : i \in Places(s)}
           /\ \A i \in Places(s) : s[i] \in S /\ s[i] \in ToSet(s)
           /\ \A x \in ToSet(s) : \E i \in Places(s) : s[i] = x
           /\ Len(s) \in Nat
<1>1. DOMAIN s = Places(s) /\ Len(s) \in Nat
  BY DEF Places
<1>2. \A i \in Places(s) : s[i] \in S
  BY ElementOfSeq DEF Places
<1>3. QED
  BY <1>1, <1>2 DEF ToSet

\* What is left of a sequence when one place of it is removed.
LEMMA RemovedAt ==
    ASSUME NEW S, NEW s \in Seq(S), NEW p \in Places(s)
    PROVE  /\ RemoveAt(s, p) \in Seq(S)
           /\ Len(RemoveAt(s, p)) = Len(s) - 1
           /\ \A i \in 1..(Len(s) - 1) :
                 RemoveAt(s, p)[i] = IF i < p THEN s[i] ELSE s[i + 1]
<1> DEFINE a == SubSeq(s, 1, p - 1)
           b == SubSeq(s, p + 1, Len(s))
<1>1. Len(s) \in Nat /\ p \in Nat /\ 1 <= p /\ p <= Len(s)
  BY DEF Places
<1>2. \A i \in 1..Len(s) : s[i] \in S
  BY ElementsOf DEF Places
<1>3. a \in Seq(S) /\ Len(a) = p - 1 /\ \A i \in 1..(p - 1) : a[i] = s[i]
  <2>1. \A i \in 1..(p - 1) : s[i] \in S
    BY <1>1, <1>2
  <2>2. /\ a \in Seq(S)
        /\ Len(a) = IF 1 <= p - 1 THEN p - 1 - 1 + 1 ELSE 0
        /\ \A i \in 1..(p - 1 - 1 + 1) : a[i] = s[1 + i - 1]
    BY <1>1, <2>1, SubSeqProperties
  <2> HIDE DEF a
  <2>3. QED
    BY <1>1, <2>2
<1>4. b \in Seq(S) /\ Len(b) = Len(s) - p /\ \A i \in 1..(Len(s) - p) : b[i] = s[p + i]
  <2>1. \A i \in (p + 1)..Len(s) : s[i] \in S
    BY <1>1, <1>2
  <2>2. /\ b \in Seq(S)
        /\ Len(b) = IF p + 1 <= Len(s) THEN Len(s) - (p + 1) + 1 ELSE 0
        /\ \A i \in 1..(Len(s) - (p + 1) + 1) : b[i] = s[(p + 1) + i - 1]
    BY <1>1, <2>1, SubSeqProperties
  <2> HIDE DEF b
  <2>3. QED
    BY <1>1, <2>2
<1>5. RemoveAt(s, p) = a \o b
  BY DEF RemoveAt
<1> HIDE DEF a, b
<1>6. /\ a \o b \in Seq(S) /\ Len(a \o b) = Len(a) + Len(b)
      /\ \A i \in 1..(Len(a) + Len(b)) :
            (a \o b)[i] = IF i <= Len(a) THEN a[i] ELSE b[i - Len(a)]
  BY <1>3, <1>4, ConcatProperties
<1>7. ASSUME NEW i \in 1..(Len(s) - 1)
      PROVE  (a \o b)[i] = IF i < p THEN s[i] ELSE s[i + 1]
  <2>1. i \in 1..(Len(a) + Len(b)) /\ i \in Nat
    BY <1>1, <1>3, <1>4
  <2>2. CASE i < p
    <3>1. i \in 1..(p - 1) /\ i <= Len(a)
      BY <1>1, <1>3, <2>1, <2>2
    <3>2. QED
      BY <1>3, <1>6, <2>1, <2>2, <3>1
  <2>3. CASE ~(i < p)
    <3>1. i - (p - 1) \in 1..(Len(s) - p) /\ ~(i <= Len(a)) /\ p + (i - (p - 1)) = i + 1
      BY <1>1, <1>3, <2>1, <2>3
    <3>2. (a \o b)[i] = b[i - (p - 1)]
      BY <1>3, <1>6, <2>1, <3>1
    <3>3. QED
      BY <1>4, <2>3, <3>1, <3>2
  <2>4. QED
    BY <2>2, <2>3
<1>8. QED
  BY <1>1, <1>3, <1>4, <1>5, <1>6, <1>7

\* Removing a monitor removes it, and no other.
LEMMA WithoutIs ==
    ASSUME NEW S, NEW s \in Seq(S), Distinct(s), NEW m
    PROVE  /\ Without(s, m) \in Seq(S) /\ Distinct(Without(s, m))
           /\ ToSet(Without(s, m)) = ToSet(s) \ {m}
<1>1. CASE m \notin ToSet(s)
  BY <1>1 DEF Without
<1>2. CASE m \in ToSet(s)
  <2> DEFINE p == CHOOSE i \in DOMAIN s : s[i] = m
             r == RemoveAt(s, p)
             new(i) == IF i < p THEN i ELSE i + 1
  <2>1. \E i \in DOMAIN s : s[i] = m
    BY <1>2 DEF ToSet
  <2>2. p \in Places(s) /\ s[p] = m
    BY <2>1 DEF Places
  <2>3. Without(s, m) = r
    BY <1>2 DEF Without
  <2> HIDE DEF p
  <2>4. /\ r \in Seq(S) /\ Len(r) = Len(s) - 1
        /\ \A i \in 1..(Len(s) - 1) : r[i] = s[new(i)]
    BY <2>2, RemovedAt
  <2>5. Places(r) = 1..(Len(s) - 1) /\ Len(s) \in Nat /\ p \in Nat /\ 1 <= p /\ p <= Len(s)
    BY <2>2, <2>4 DEF Places
  <2> HIDE DEF r
  <2>6. \A i \in Places(r) : new(i) \in Places(s) /\ new(i) # p
    BY <2>5 DEF Places
  <2>7. \A i, j \in Places(r) : new(i) = new(j) => i = j
    BY <2>5
  <2>8. \A q \in Places(s) : q # p => \E i \in Places(r) : new(i) = q
    <3> SUFFICES ASSUME NEW q \in Places(s), q # p PROVE \E i \in Places(r) : new(i) = q
      OBVIOUS
    <3>1. CASE q < p
      <4>1. q \in Places(r) /\ new(q) = q
        BY <2>5, <3>1 DEF Places
      <4>2. QED BY <4>1
    <3>2. CASE q > p
      <4>1. q - 1 \in Places(r) /\ new(q - 1) = q
        BY <2>5, <3>2 DEF Places
      <4>2. QED BY <4>1
    <3>3. QED
      BY <2>5, <3>1, <3>2 DEF Places
  <2> HIDE DEF new
  <2>9. Distinct(r)
    BY <2>4, <2>5, <2>6, <2>7 DEF Distinct
  <2>10. ToSet(r) = {s[new(i)] : i \in Places(r)}
    <3>1. ToSet(r) = {r[i] : i \in Places(r)}
      BY <2>4, ElementsOf
    <3>2. \A i \in Places(r) : r[i] = s[new(i)]
      BY <2>4, <2>5
    <3>3. QED
      BY <3>1, <3>2
  <2>11. ToSet(s) = {s[i] : i \in Places(s)}
    BY ElementsOf
  <2>12. ToSet(r) = ToSet(s) \ {m}
    BY <2>2, <2>6, <2>8, <2>10, <2>11 DEF Distinct
  <2>13. QED
    BY <2>3, <2>4, <2>9, <2>12
<1>3. QED
  BY <1>1, <1>2

\* Induction over the numbers, from their being well founded.
LEMMA Induction ==
    ASSUME NEW T, T \subseteq Nat, 0 \in T, \A n \in T : n + 1 \in T
    PROVE  T = Nat
<1> SUFFICES ASSUME T # Nat PROVE FALSE
  OBVIOUS
<1> DEFINE R == {p \in Nat \X Nat : p[1] < p[2]}
<1>1. IsWellFoundedOn(R, Nat)
  BY NatLessThanWellFounded DEF OpToRel
<1>2. \A x, y \in Nat : <<y, x>> \in R <=> y < x
  OBVIOUS
<1> HIDE DEF R
<1>3. PICK n \in Nat \ T : \A y \in Nat \ T : ~ (<<y, n>> \in R)
  BY <1>1, WFMin
<1>4. n # 0 /\ n - 1 \in Nat /\ n - 1 < n
  BY <1>3
<1>5. n - 1 \in T
  BY <1>2, <1>3, <1>4
<1>6. QED
  BY <1>4, <1>5

\* The equation of the recursive function inside Active.
Next1(f, s, i) == IF s[i] \in paused THEN f[i - 1] ELSE Append(f[i - 1], s[i])
IsActive(f, s, n) == f = [i \in 0..n |-> IF i = 0 THEN <<>> ELSE Next1(f, s, i)]

\* The recursive function inside Active exists.
LEMMA ActiveExists == ASSUME NEW s PROVE \A n \in Nat : \E f : IsActive(f, s, n)
<1> DEFINE T == {n \in Nat : \E f : IsActive(f, s, n)}
<1>1. 0 \in T
  <2>1. IsActive([i \in 0..0 |-> <<>>], s, 0)
    BY DEF IsActive
  <2>2. QED BY <2>1
<1>2. ASSUME NEW n \in T PROVE n + 1 \in T
  <2>1. PICK f : IsActive(f, s, n)
    OBVIOUS
  <2> DEFINE g == [i \in 0..(n + 1) |-> IF i = n + 1 THEN Next1(f, s, n + 1) ELSE f[i]]
  <2>2. ASSUME NEW i \in 0..(n + 1)
        PROVE  g[i] = IF i = 0 THEN <<>> ELSE Next1(g, s, i)
    <3>1. g[i] = IF i = 0 THEN <<>> ELSE Next1(f, s, i)
      BY <2>1 DEF IsActive
    <3>2. i # 0 => g[i - 1] = f[i - 1]
      OBVIOUS
    <3>3. QED
      BY <3>1, <3>2 DEF Next1
  <2>3. g = [i \in 0..(n + 1) |-> g[i]]
    OBVIOUS
  <2> HIDE DEF g
  <2>4. g = [i \in 0..(n + 1) |-> IF i = 0 THEN <<>> ELSE Next1(g, s, i)]
    BY <2>2, <2>3
  <2>5. IsActive(g, s, n + 1)
    BY <2>4 DEF IsActive
  <2>6. QED
    BY <2>5
<1> HIDE DEF T
<1>3. T \subseteq Nat
  BY DEF T
<1>4. T = Nat
  BY <1>1, <1>2, <1>3, Induction
<1>5. QED
  BY <1>4 DEF T

\* The active monitors of a sequence without repetitions are some of it, without
\* repetitions.
LEMMA ActiveIs ==
    ASSUME NEW S, NEW s \in Seq(S), Distinct(s)
    PROVE  Active(s) \in Seq(S) /\ Distinct(Active(s)) /\ ToSet(Active(s)) \subseteq ToSet(s)
<1> DEFINE f == CHOOSE g : IsActive(g, s, Len(s))
           Good(r, n) == /\ r \in Seq(S) /\ Distinct(r)
                         /\ \A i \in Places(r) : \E j \in 1..n : r[i] = s[j]
           T == {n \in Nat : n <= Len(s) => Good(f[n], n)}
<1>1. Len(s) \in Nat /\ \A i \in 1..Len(s) : s[i] \in S
  BY ElementsOf DEF Places
<1>2. IsActive(f, s, Len(s))
  BY <1>1, ActiveExists
<1>3. Active(s) = f[Len(s)]
  BY DEF Active, IsActive, Next1
<1> HIDE DEF f
<1>4. 0 \in T
  <2>1. f[0] = <<>>
    BY <1>1, <1>2 DEF IsActive
  <2>2. <<>> \in Seq(S) /\ Places(<<>>) = {}
    BY DEF Places
  <2>3. QED
    BY <2>1, <2>2 DEF Distinct
<1>5. ASSUME NEW n \in T PROVE n + 1 \in T
  <2> SUFFICES ASSUME n + 1 <= Len(s) PROVE Good(f[n + 1], n + 1)
    OBVIOUS
  <2>1. n \in Nat /\ n + 1 \in 1..Len(s) /\ n + 1 \in 0..Len(s) /\ n + 1 # 0 /\ (n + 1) - 1 = n
    BY <1>1
  <2>2. f[n + 1] = Next1(f, s, n + 1)
    BY <1>2, <2>1 DEF IsActive
  <2>3. Good(f[n], n)
    BY <1>1, <2>1
  <2> DEFINE r == f[n]
  <2>4. CASE s[n + 1] \in paused
    <3>1. f[n + 1] = r
      BY <2>1, <2>2, <2>4 DEF Next1
    <3>2. \A j \in 1..n : j \in 1..(n + 1)
      BY <2>1
    <3>3. QED
      BY <2>3, <3>1, <3>2
  <2>5. CASE s[n + 1] \notin paused
    <3> DEFINE q == Append(r, s[n + 1])
    <3>1. f[n + 1] = q
      BY <2>1, <2>2, <2>5 DEF Next1
    <3>2. s[n + 1] \in S /\ r \in Seq(S)
      BY <1>1, <2>1, <2>3
    <3> HIDE DEF r
    <3>3. /\ q \in Seq(S) /\ Len(q) = Len(r) + 1 /\ Len(r) \in Nat
          /\ \A i \in 1..Len(r) : q[i] = r[i]
          /\ q[Len(r) + 1] = s[n + 1]
      BY <3>2, AppendProperties
    <3> HIDE DEF q
    <3>4. ASSUME NEW i \in Places(q) PROVE i \in Places(r) \/ i = Len(r) + 1
      BY <3>3 DEF Places
    <3>5. ASSUME NEW i \in Places(r)
          PROVE  q[i] = r[i] /\ \E j \in 1..n : r[i] = s[j]
      BY <2>3, <3>3 DEF Places, r
    <3>6. \A j \in 1..n : j \in 1..(n + 1) /\ j \in Places(s) /\ j # n + 1
      BY <1>1, <2>1 DEF Places
    <3>7. n + 1 \in Places(s)
      BY <2>1 DEF Places
    <3>8. \A i \in Places(r) : r[i] # s[n + 1]
      BY <3>5, <3>6, <3>7 DEF Distinct
    <3>9. \A i \in Places(q) : \E j \in 1..(n + 1) : q[i] = s[j]
      BY <2>1, <3>3, <3>4, <3>5, <3>6
    <3>10. Distinct(r)
      BY <2>3 DEF r
    <3>11. Distinct(q)
      BY <3>3, <3>4, <3>5, <3>8, <3>10 DEF Distinct
    <3>12. QED
      BY <3>1, <3>3, <3>9, <3>11
  <2>6. QED
    BY <2>4, <2>5
<1> HIDE DEF T
<1>6. T \subseteq Nat
  BY DEF T
<1>7. T = Nat
  BY <1>4, <1>5, <1>6, Induction
<1>8. Good(f[Len(s)], Len(s))
  BY <1>1, <1>7 DEF T
<1> DEFINE r == f[Len(s)]
<1>9. \A x \in ToSet(r) : \E i \in Places(r) : r[i] = x
  BY <1>8, ElementsOf
<1>10. \A j \in 1..Len(s) : s[j] \in ToSet(s)
  BY ElementsOf DEF Places
<1>11. ToSet(r) \subseteq ToSet(s)
  BY <1>8, <1>9, <1>10
<1>12. QED
  BY <1>3, <1>8, <1>11

\* A beginning of such a sequence.
LEMMA FirstIs ==
    ASSUME NEW S, NEW s \in Seq(S), Distinct(s)
    PROVE  First(s) \in Seq(S) /\ Distinct(First(s)) /\ ToSet(First(s)) \subseteq ToSet(s)
<1> DEFINE n == IF Len(s) < LookLimit THEN Len(s) ELSE LookLimit
           r == SubSeq(s, 1, n)
<1>1. n \in Nat /\ n <= Len(s) /\ Len(s) \in Nat
  BY PaidAssumption
<1>2. First(s) = r
  BY DEF First
<1> HIDE DEF n
<1>3. \A i \in 1..n : s[i] \in S /\ i \in Places(s) /\ s[i] \in ToSet(s)
  BY <1>1, ElementsOf DEF Places
<1>4. /\ r \in Seq(S) /\ Len(r) = IF 1 <= n THEN n - 1 + 1 ELSE 0
      /\ \A i \in 1..(n - 1 + 1) : r[i] = s[1 + i - 1]
  BY <1>1, <1>3, SubSeqProperties
<1> HIDE DEF r
<1>5. Places(r) = 1..n /\ \A i \in 1..n : r[i] = s[i]
  BY <1>1, <1>4 DEF Places
<1>6. Distinct(r)
  BY <1>3, <1>5 DEF Distinct
<1>7. ToSet(r) \subseteq ToSet(s)
  <2>1. \A x \in ToSet(r) : \E i \in Places(r) : r[i] = x
    BY <1>4, ElementsOf
  <2>2. QED
    BY <1>3, <1>5, <2>1
<1>8. QED
  BY <1>2, <1>4, <1>6, <1>7

\* A look takes monitors that are due, each once.
LEMMA SelectedIs ==
    ASSUME due \in Seq(Monitors), Distinct(due)
    PROVE  /\ Selected \in Seq(Monitors) /\ Distinct(Selected)
           /\ ToSet(Selected) \subseteq ToSet(due)
<1>1. /\ Active(due) \in Seq(Monitors) /\ Distinct(Active(due))
      /\ ToSet(Active(due)) \subseteq ToSet(due)
  BY ActiveIs
<1>2. QED
  BY <1>1, FirstIs DEF Selected

\* The loop takes the first monitor out of its rows.
LEMMA TailIs ==
    ASSUME NEW S, NEW s \in Seq(S), Distinct(s), s # <<>>
    PROVE  /\ Head(s) \in S /\ Tail(s) \in Seq(S) /\ Distinct(Tail(s))
           /\ ToSet(Tail(s)) = ToSet(s) \ {Head(s)}
           /\ Head(s) \in ToSet(s)
<1>1. /\ Len(s) \in Nat /\ Len(s) > 0 /\ Head(s) = s[1] /\ Tail(s) \in Seq(S)
      /\ Len(Tail(s)) = Len(s) - 1
      /\ \A i \in 1..(Len(s) - 1) : Tail(s)[i] = s[i + 1]
  BY HeadTailProperties, EmptySeq
<1> DEFINE r == Tail(s)
<1> HIDE DEF r
<1>2. Places(r) = 1..(Len(s) - 1) /\ 1 \in Places(s)
  BY <1>1 DEF Places, r
<1>3. \A i \in Places(r) : i + 1 \in Places(s) /\ i + 1 # 1 /\ r[i] = s[i + 1]
  BY <1>1, <1>2 DEF Places, r
<1>4. \A i \in Places(s) \ {1} : i - 1 \in Places(r) /\ (i - 1) + 1 = i
  <2>1. Places(s) = 1..Len(s)
    BY DEF Places
  <2>2. QED
    BY <1>1, <1>2, <2>1
<1>5. ToSet(s) = {s[i] : i \in Places(s)} /\ s[1] \in S
  BY <1>2, ElementsOf
<1>6. ToSet(r) = {r[i] : i \in Places(r)}
  BY <1>1, ElementsOf DEF r
<1>7. \A i, j \in Places(r) : i + 1 = j + 1 => i = j
  BY <1>1, <1>2
<1>8. Distinct(r)
  BY <1>3, <1>7 DEF Distinct
<1>9. ToSet(r) \subseteq ToSet(s) \ {s[1]}
  BY <1>2, <1>3, <1>5, <1>6 DEF Distinct
<1>10. ToSet(s) \ {s[1]} \subseteq ToSet(r)
  BY <1>3, <1>4, <1>5, <1>6
<1>11. QED
  BY <1>1, <1>2, <1>5, <1>8, <1>9, <1>10 DEF r

\* A monitor that becomes due is the last one.
LEMMA AppendedIs ==
    ASSUME NEW S, NEW s \in Seq(S), Distinct(s), NEW m \in S, m \notin ToSet(s)
    PROVE  /\ Append(s, m) \in Seq(S) /\ Distinct(Append(s, m))
           /\ ToSet(Append(s, m)) = ToSet(s) \cup {m}
<1> DEFINE r == Append(s, m)
           n == Len(s) + 1
<1>1. /\ r \in Seq(S) /\ Len(r) = n /\ Len(s) \in Nat
      /\ \A i \in 1..Len(s) : r[i] = s[i]
      /\ r[n] = m
  BY AppendProperties
<1> HIDE DEF r
<1>2. Places(r) = Places(s) \cup {n} /\ n \notin Places(s) /\ \A i \in Places(s) : r[i] = s[i]
  BY <1>1 DEF Places
<1>3. ToSet(r) = {r[i] : i \in Places(r)} /\ ToSet(s) = {s[i] : i \in Places(s)}
  BY <1>1, ElementsOf
<1> HIDE DEF n
<1>4. Distinct(r)
  BY <1>1, <1>2, <1>3 DEF Distinct
<1>5. ToSet(r) = ToSet(s) \cup {m}
  BY <1>1, <1>2, <1>3
<1>6. QED
  BY <1>1, <1>4, <1>5 DEF r

-----------------------------------------------------------------------------
(* Requests *)

\* The types are kept.
LEMMA TaskTypesStep == TaskInv /\ [TaskNext]_taskVars => TaskTypeOK'
<1> SUFFICES ASSUME TaskInv, [TaskNext]_taskVars PROVE TaskTypeOK'
  OBVIOUS
<1>1. ASSUME NEW r \in Requests, Click(r) PROVE TaskTypeOK'
  BY <1>1 DEF Click, Forward, TaskInv, TaskTypeOK, TaskSteps, Nobody
<1>2. ASSUME NEW r \in Requests, Charge(r) PROVE TaskTypeOK'
  BY <1>2 DEF Charge, Forward, TaskInv, TaskTypeOK, PaidInv, TaskSteps, Nobody
<1>3. ASSUME NEW r \in Requests, Submit(r) PROVE TaskTypeOK'
  BY <1>3 DEF Submit, Forward, TaskFault, Spoils, Smooth, TaskInv, TaskTypeOK,
     TaskSteps, Nobody
<1>4. ASSUME NEW r \in Requests, Run(r) PROVE TaskTypeOK'
  <2>1. stored' \in [Requests -> BOOLEAN]
    BY <1>4 DEF Run, TaskInv, TaskTypeOK
  <2>2. (mode[r] = "wait") \in BOOLEAN
    OBVIOUS
  <2>3. answered' \in [Requests -> BOOLEAN]
    BY <1>4, <2>2 DEF Run, TaskInv, TaskTypeOK
  <2>4. step' \in [Requests -> TaskSteps] /\ failed' \in [Requests -> {"no", "error", "raise"}]
        /\ taskFaults' \in Nat
    BY <1>4 DEF Run, Forward, TaskFault, TaskInv, TaskTypeOK, TaskSteps
  <2>5. UNCHANGED <<mode, guard, task, paid, loosened, spoilt>>
    BY <1>4 DEF Run
  <2>6. QED
    BY <2>1, <2>3, <2>4, <2>5 DEF TaskInv, TaskTypeOK
<1>5. ASSUME NEW r \in Requests, Finalize(r) PROVE TaskTypeOK'
  BY <1>5 DEF Finalize, Forward, TaskFault, Spoils, Smooth, TaskInv, TaskTypeOK,
     TaskSteps, Nobody
<1>6. ASSUME NEW r \in Requests, Refund(r) PROVE TaskTypeOK'
  BY <1>6 DEF Refund, Forward, TaskFault, Spoils, Smooth, TaskInv, TaskTypeOK, PaidInv,
     TaskSteps, Nobody
<1>7. ASSUME NEW r \in Requests, Mark(r) PROVE TaskTypeOK'
  BY <1>7 DEF Mark, Forward, TaskFault, Spoils, Smooth, TaskInv, TaskTypeOK, TaskSteps,
     Nobody
<1>8. ASSUME NEW r \in Requests, Tidy(r) PROVE TaskTypeOK'
  <2>1. stored' \in [Requests -> BOOLEAN]
    BY <1>8 DEF Tidy, TaskInv, TaskTypeOK
  <2>2. step' \in [Requests -> TaskSteps] /\ taskFaults' \in Nat
    BY <1>8 DEF Tidy, Forward, TaskFault, TaskInv, TaskTypeOK, TaskSteps
  <2>3. UNCHANGED <<mode, guard, task, failed, paid, answered, loosened, spoilt>>
    BY <1>8 DEF Tidy
  <2>4. QED
    BY <2>1, <2>2, <2>3 DEF TaskInv, TaskTypeOK
<1>9. ASSUME NEW r \in Requests, Leave(r) PROVE TaskTypeOK'
  BY <1>9 DEF Leave, Forward, TaskInv, TaskTypeOK, TaskSteps, Nobody
<1>10. CASE Expire
  BY <1>10 DEF Expire, TaskInv, TaskTypeOK, TaskSteps, Nobody
<1>11. CASE Restart
  BY <1>11 DEF Restart, TaskFault, TaskInv, TaskTypeOK, TaskSteps, Nobody
<1>12. CASE UNCHANGED taskVars
  BY <1>12 DEF taskVars, TaskInv, TaskTypeOK, TaskSteps, Nobody
<1>13. QED
  BY <1>1, <1>2, <1>3, <1>4, <1>5, <1>6, <1>7, <1>8, <1>9, <1>10, <1>11, <1>12 DEF TaskNext

\* The entry is the one inside, or removed from it.
LEMMA GuardStep == TaskInv /\ [TaskNext]_taskVars => GuardInv'
<1> SUFFICES ASSUME TaskInv, [TaskNext]_taskVars PROVE GuardInv'
  OBVIOUS
<1>1. ASSUME NEW r \in Requests, Click(r) PROVE GuardInv'
  <2>1. CASE guard = Nobody
    <3>1. guard' = r /\ loosened' = loosened /\ \A s \in Requests \ {r} : step'[s] = step[s]
      BY <1>1, <2>1 DEF Click, Forward, TaskInv, TaskTypeOK
    <3>2. QED
      BY <2>1, <3>1 DEF TaskInv, GuardInv, Inside, Requests, Nobody
  <2>2. CASE guard # Nobody
    <3>1. guard' = guard /\ loosened' = loosened
      BY <1>1, <2>2 DEF Click
    <3>2. step' = [step EXCEPT ![r] = "leave"]
      BY <1>1, <2>2 DEF Click, Forward
    <3>3. \A s \in Requests : Inside(s)' => Inside(s)
      BY <3>2 DEF TaskInv, TaskTypeOK, Inside
    <3>4. QED
      BY <3>1, <3>3 DEF TaskInv, GuardInv
  <2>3. QED
    BY <2>1, <2>2
<1>2. ASSUME NEW r \in Requests, Charge(r) PROVE GuardInv'
  BY <1>2 DEF Charge, Forward, TaskInv, TaskTypeOK, TaskSteps, GuardInv, Inside, Nobody
<1>3. ASSUME NEW r \in Requests, Submit(r) PROVE GuardInv'
  BY <1>3 DEF Submit, Forward, TaskFault, Spoils, Smooth, TaskInv, TaskTypeOK,
     TaskSteps, GuardInv, Inside, Nobody
<1>4. ASSUME NEW r \in Requests, Run(r) PROVE GuardInv'
  BY <1>4 DEF Run, Forward, TaskFault, TaskInv, TaskTypeOK, TaskSteps, GuardInv, Inside,
     Nobody
<1>5. ASSUME NEW r \in Requests, Finalize(r) PROVE GuardInv'
  BY <1>5 DEF Finalize, Forward, TaskFault, Spoils, Smooth, TaskInv, TaskTypeOK,
     TaskSteps, GuardInv, Inside, Nobody
<1>6. ASSUME NEW r \in Requests, Refund(r) PROVE GuardInv'
  BY <1>6 DEF Refund, Forward, TaskFault, Spoils, Smooth, TaskInv, TaskTypeOK,
     TaskSteps, GuardInv, Inside, Nobody
<1>7. ASSUME NEW r \in Requests, Mark(r) PROVE GuardInv'
  BY <1>7 DEF Mark, Forward, TaskFault, Spoils, Smooth, TaskInv, TaskTypeOK, TaskSteps,
     GuardInv, Inside, Nobody
<1>8. ASSUME NEW r \in Requests, Tidy(r) PROVE GuardInv'
  BY <1>8 DEF Tidy, Forward, TaskFault, TaskInv, TaskTypeOK, TaskSteps, GuardInv,
     Inside, Nobody
<1>9. ASSUME NEW r \in Requests, Leave(r) PROVE GuardInv'
  BY <1>9 DEF Leave, Forward, TaskInv, TaskTypeOK, TaskSteps, GuardInv, Inside, Nobody
<1>10. CASE Expire
  BY <1>10 DEF Expire, TaskInv, TaskTypeOK, TaskSteps, GuardInv, Inside, Nobody
<1>11. CASE Restart
  BY <1>11 DEF Restart, TaskFault, TaskInv, TaskTypeOK, TaskSteps, GuardInv, Inside, Nobody
<1>12. CASE UNCHANGED taskVars
  BY <1>12 DEF taskVars, TaskInv, TaskTypeOK, TaskSteps, GuardInv, Inside, Nobody
<1>13. QED
  BY <1>1, <1>2, <1>3, <1>4, <1>5, <1>6, <1>7, <1>8, <1>9, <1>10, <1>11, <1>12 DEF TaskNext

\* Charges and refunds come at their steps.
LEMMA PaidStep == TaskInv /\ [TaskNext]_taskVars => PaidInv'
<1> SUFFICES ASSUME TaskInv, [TaskNext]_taskVars PROVE PaidInv'
  OBVIOUS
<1>1. ASSUME NEW r \in Requests, Click(r) PROVE PaidInv'
  BY <1>1 DEF Click, Forward, TaskInv, TaskTypeOK, TaskSteps, PaidInv
<1>2. ASSUME NEW r \in Requests, Charge(r) PROVE PaidInv'
  BY <1>2 DEF Charge, Forward, TaskInv, TaskTypeOK, TaskSteps, PaidInv
<1>3. ASSUME NEW r \in Requests, Submit(r) PROVE PaidInv'
  BY <1>3 DEF Submit, Forward, TaskFault, Spoils, Smooth, TaskInv, TaskTypeOK,
     TaskSteps, PaidInv
<1>4. ASSUME NEW r \in Requests, Run(r) PROVE PaidInv'
  BY <1>4 DEF Run, Forward, TaskFault, TaskInv, TaskTypeOK, TaskSteps, PaidInv
<1>5. ASSUME NEW r \in Requests, Finalize(r) PROVE PaidInv'
  BY <1>5 DEF Finalize, Forward, TaskFault, Spoils, Smooth, TaskInv, TaskTypeOK,
     TaskSteps, PaidInv
<1>6. ASSUME NEW r \in Requests, Refund(r) PROVE PaidInv'
  BY <1>6 DEF Refund, Forward, TaskFault, Spoils, Smooth, TaskInv, TaskTypeOK,
     TaskSteps, PaidInv
<1>7. ASSUME NEW r \in Requests, Mark(r) PROVE PaidInv'
  BY <1>7 DEF Mark, Forward, TaskFault, Spoils, Smooth, TaskInv, TaskTypeOK, TaskSteps,
     PaidInv
<1>8. ASSUME NEW r \in Requests, Tidy(r) PROVE PaidInv'
  BY <1>8 DEF Tidy, Forward, TaskFault, TaskInv, TaskTypeOK, TaskSteps, PaidInv
<1>9. ASSUME NEW r \in Requests, Leave(r) PROVE PaidInv'
  BY <1>9 DEF Leave, Forward, TaskInv, TaskTypeOK, TaskSteps, PaidInv
<1>10. CASE Expire
  BY <1>10 DEF Expire, TaskInv, TaskTypeOK, TaskSteps, PaidInv
<1>11. CASE Restart
  BY <1>11 DEF Restart, TaskFault, TaskInv, TaskTypeOK, TaskSteps, PaidInv
<1>12. CASE UNCHANGED taskVars
  BY <1>12 DEF taskVars, TaskInv, TaskTypeOK, TaskSteps, PaidInv
<1>13. QED
  BY <1>1, <1>2, <1>3, <1>4, <1>5, <1>6, <1>7, <1>8, <1>9, <1>10, <1>11, <1>12 DEF TaskNext

\* An unspoilt request makes progress as it should.
LEMMA ProgressStep == TaskInv /\ [TaskNext]_taskVars => ProgressInv'
<1> SUFFICES ASSUME TaskInv, [TaskNext]_taskVars PROVE ProgressInv'
  OBVIOUS
<1>1. ASSUME NEW r \in Requests, Click(r) PROVE ProgressInv'
  BY <1>1 DEF Click, Forward, TaskInv, TaskTypeOK, TaskSteps, PaidInv, ProgressInv,
     Progress, Served
<1>2. ASSUME NEW r \in Requests, Charge(r) PROVE ProgressInv'
  BY <1>2 DEF Charge, Forward, TaskInv, TaskTypeOK, TaskSteps, PaidInv, ProgressInv,
     Progress, Served
<1>3. ASSUME NEW r \in Requests, Submit(r) PROVE ProgressInv'
  BY <1>3 DEF Submit, Forward, TaskFault, Spoils, Smooth, TaskInv, TaskTypeOK,
     TaskSteps, PaidInv, ProgressInv, Progress, Served
<1>4. ASSUME NEW r \in Requests, Run(r) PROVE ProgressInv'
  <2>1. /\ mode' = mode /\ task' = task /\ paid' = paid /\ spoilt' = spoilt
        /\ step[r] = "run"
    BY <1>4 DEF Run
  <2>2. \A s \in Requests \ {r} : step'[s] = step[s] /\ answered'[s] = answered[s] /\ failed'[s] = failed[s]
    BY <1>4 DEF Run, Forward, TaskInv, TaskTypeOK
  <2>3. \/ /\ answered'[r] = (mode[r] = "wait")
           /\ step'[r] = IF mode[r] = "submit" THEN "finalize" ELSE "leave"
           /\ failed'[r] = failed[r]
        \/ /\ answered'[r] = answered[r] /\ failed'[r] = "error"
           /\ step'[r] = IF mode[r] = "submit" THEN "finalize" ELSE "refund"
        \/ answered'[r] = answered[r] /\ failed'[r] = "raise" /\ step'[r] = "refund"
    BY <1>4 DEF Run, Forward, TaskInv, TaskTypeOK
  <2>4. ASSUME NEW s \in Requests \ spoilt, s # r PROVE Progress(s)'
    <3>1. Progress(s) /\ mode'[s] = mode[s] /\ task'[s] = task[s] /\ paid'[s] = paid[s]
      BY <2>1, <2>4 DEF TaskInv, ProgressInv
    <3>2. step'[s] = step[s] /\ answered'[s] = answered[s] /\ failed'[s] = failed[s]
      BY <2>2, <2>4
    <3>3. QED
      BY <3>1, <3>2 DEF Progress, Served
  <2>5. ASSUME r \notin spoilt PROVE Progress(r)'
    <3>1. /\ failed[r] = "no" /\ ~answered[r] /\ paid[r] = 1
          /\ task[r] = IF mode[r] = "submit" THEN "processing" ELSE "none"
      BY <2>1, <2>5 DEF TaskInv, PaidInv, ProgressInv, Progress
    <3>2. mode[r] \in {"wait", "submit"}
      BY DEF TaskInv, TaskTypeOK
    <3>3. mode'[r] = mode[r] /\ task'[r] = task[r] /\ paid'[r] = paid[r]
      BY <2>1
    <3>4. CASE mode[r] = "wait"
      BY <2>3, <3>1, <3>3, <3>4 DEF Progress, Served
    <3>5. CASE mode[r] = "submit"
      BY <2>3, <3>1, <3>3, <3>5 DEF Progress, Served
    <3>6. QED
      BY <3>2, <3>4, <3>5
  <2>6. QED
    BY <2>1, <2>4, <2>5 DEF ProgressInv
<1>5. ASSUME NEW r \in Requests, Finalize(r) PROVE ProgressInv'
  BY <1>5 DEF Finalize, Forward, TaskFault, Spoils, Smooth, TaskInv, TaskTypeOK,
     TaskSteps, PaidInv, ProgressInv, Progress, Served
<1>6. ASSUME NEW r \in Requests, Refund(r) PROVE ProgressInv'
  BY <1>6 DEF Refund, Forward, TaskFault, Spoils, Smooth, TaskInv, TaskTypeOK,
     TaskSteps, PaidInv, ProgressInv, Progress, Served
<1>7. ASSUME NEW r \in Requests, Mark(r) PROVE ProgressInv'
  BY <1>7 DEF Mark, Forward, TaskFault, Spoils, Smooth, TaskInv, TaskTypeOK, TaskSteps,
     PaidInv, ProgressInv, Progress, Served
<1>8. ASSUME NEW r \in Requests, Tidy(r) PROVE ProgressInv'
  BY <1>8 DEF Tidy, Forward, TaskFault, TaskInv, TaskTypeOK, TaskSteps, PaidInv,
     ProgressInv, Progress, Served
<1>9. ASSUME NEW r \in Requests, Leave(r) PROVE ProgressInv'
  BY <1>9 DEF Leave, Forward, TaskInv, TaskTypeOK, TaskSteps, PaidInv, ProgressInv,
     Progress, Served
<1>10. CASE Expire
  BY <1>10
     DEF Expire, TaskInv, TaskTypeOK, TaskSteps, PaidInv, ProgressInv, Progress, Served
<1>11. CASE Restart
  BY <1>11 DEF Restart, TaskFault, TaskInv, TaskTypeOK, TaskSteps, PaidInv, ProgressInv,
     Progress, Served
<1>12. CASE UNCHANGED taskVars
  BY <1>12 DEF taskVars, TaskInv, TaskTypeOK, TaskSteps, PaidInv, ProgressInv, Progress,
     Served
<1>13. QED
  BY <1>1, <1>2, <1>3, <1>4, <1>5, <1>6, <1>7, <1>8, <1>9, <1>10, <1>11, <1>12 DEF TaskNext

-----------------------------------------------------------------------------
(* Monitors *)

RunRecords == [of : Monitors \cup {NoMonitor}, step : MonitorSteps, spent : 0..Positions]

NoRunIs(r) == r.of = NoMonitor /\ r.step = "idle" /\ r.spent = 0

\* What a run's check does.
LEMMA CheckIs ==
    ASSUME MonitorInv, NEW k \in Runners, Check(k)
    PROVE  /\ run' \in [Runners -> RunRecords]
           /\ \A j \in Runners \ {k} : run'[j] = run[j]
           /\ run[k].step = "check" /\ run[k].spent = 0
           /\ \/ /\ run'[k].of = run[k].of /\ run'[k].step = "charge" /\ run'[k].spent = 0
                 /\ credits >= Positions /\ short' = short
              \/ NoRunIs(run'[k]) /\ short' = short \ {k}
           /\ monitorFaults' \in Nat
           /\ UNCHANGED <<due, batch, credits, billed, interrupted>>
<1>1. run[k].step = "check" /\ run \in [Runners -> RunRecords]
  BY DEF Check, MonitorInv, MonitorTypeOK, RunRecords
<1>2. run[k].spent = 0 /\ run[k] \in RunRecords /\ monitorFaults \in Nat
  BY <1>1 DEF MonitorInv, MonitorTypeOK, RunInv
<1>3. UNCHANGED <<due, batch, credits, billed, interrupted>>
  BY DEF Check
<1>4. CASE run' = [run EXCEPT ![k].step = "charge"] /\ Enough /\ UNCHANGED <<refused, short, monitorFaults>>
  BY <1>1, <1>2, <1>3, <1>4 DEF Enough, RunRecords, MonitorSteps
<1>5. CASE Skips(k) /\ (UNCHANGED monitorFaults \/ MonitorFault)
  <2>1. run' = [run EXCEPT ![k] = NoRun] /\ short' = short \ {k} /\ monitorFaults' \in Nat
    BY <1>2, <1>5 DEF Skips, Ends, MonitorFault
  <2>2. NoRun \in RunRecords /\ NoRunIs(NoRun)
    BY PaidAssumption DEF NoRun, RunRecords, MonitorSteps, NoRunIs
  <2>3. QED
    BY <1>1, <1>2, <1>3, <2>1, <2>2
<1>6. QED
  BY <1>4, <1>5 DEF Check

\* What a run's charge does: it is paid, or not and the run goes on.
LEMMA BillIs ==
    ASSUME MonitorInv, NEW k \in Runners, Bill(k)
    PROVE  /\ run' \in [Runners -> RunRecords]
           /\ \A j \in Runners \ {k} : run'[j] = run[j]
           /\ run[k].step = "charge" /\ run'[k].of = run[k].of
           /\ monitorFaults' \in Nat
           /\ UNCHANGED <<due, batch, interrupted>>
           /\ \/ /\ credits > 0 /\ credits' = credits - 1
                 /\ run'[k].spent = run[k].spent + 1
                 /\ run'[k].step = IF run[k].spent + 1 = Positions THEN "analyse" ELSE "charge"
                 /\ billed' = IF k = "loop" /\ run[k].spent = 0
                              THEN [billed EXCEPT ![run[k].of] = @ + 1] ELSE billed
                 /\ short' = short \cup {j \in Runners \ {k} : run[j].step = "charge"}
              \/ /\ credits' = credits /\ billed' = billed
                 /\ run'[k].spent = run[k].spent /\ run'[k].step = "analyse"
                 /\ (credits = 0 /\ short' = short) \/ short' = short \cup {k}
<1>1. run[k].step = "charge" /\ run \in [Runners -> RunRecords]
  BY DEF Bill, MonitorInv, MonitorTypeOK, RunRecords
<1>2. /\ run[k] \in RunRecords /\ monitorFaults \in Nat
      /\ run[k].spent \in Nat /\ run[k].spent < Positions /\ Positions \in Nat
  BY <1>1, PaidAssumption DEF MonitorInv, MonitorTypeOK, RunInv, RunRecords
<1>3. UNCHANGED <<due, batch, interrupted>>
  BY DEF Bill
<1>4. CASE /\ credits > 0 /\ credits' = credits - 1
           /\ run' = [run EXCEPT ![k].spent = @ + 1,
                        ![k].step = IF run[k].spent + 1 = Positions THEN "analyse" ELSE "charge"]
           /\ billed' = IF k = "loop" /\ run[k].spent = 0 THEN [billed EXCEPT ![run[k].of] = @ + 1]
                        ELSE billed
           /\ Overdraws(k) /\ UNCHANGED monitorFaults
  <2>1. run[k].spent + 1 \in 0..Positions
    BY <1>2
  <2>2. /\ run'[k].of = run[k].of /\ run'[k].spent = run[k].spent + 1
        /\ run'[k].step = IF run[k].spent + 1 = Positions THEN "analyse" ELSE "charge"
        /\ \A j \in Runners \ {k} : run'[j] = run[j]
    BY <1>1, <1>2, <1>4 DEF RunRecords
  <2>3. run' \in [Runners -> RunRecords]
    BY <1>1, <1>2, <1>4, <2>1 DEF RunRecords, MonitorSteps
  <2>4. QED
    BY <1>1, <1>2, <1>3, <1>4, <2>2, <2>3 DEF Overdraws
<1>5. CASE /\ run' = [run EXCEPT ![k].step = "analyse"] /\ credits' = credits /\ billed' = billed
           /\ monitorFaults' \in Nat
           /\ (credits = 0 /\ short' = short) \/ short' = short \cup {k}
  <2>1. /\ run'[k].of = run[k].of /\ run'[k].spent = run[k].spent /\ run'[k].step = "analyse"
        /\ \A j \in Runners \ {k} : run'[j] = run[j]
        /\ run' \in [Runners -> RunRecords]
    BY <1>1, <1>2, <1>5 DEF RunRecords, MonitorSteps
  <2>2. QED
    BY <1>1, <1>3, <1>5, <2>1
<1>6. QED
  BY <1>2, <1>4, <1>5 DEF Bill, MonitorFault

\* A runner without a run is not taken for a monitor.
LEMMA MonitorsOnly == \A s \in Seq(Monitors) : NoMonitor \notin ToSet(s)
  BY ElementsOf, PaidAssumption

\* No rows.
LEMMA EmptyIs == <<>> \in Seq(Monitors) /\ Distinct(<<>>) /\ ToSet(<<>>) = {}
<1>1. Places(<<>>) = {} /\ <<>> \in Seq(Monitors)
  BY DEF Places
<1>2. QED
  BY <1>1, ElementsOf DEF Distinct

\* The types are kept.
LEMMA MonitorTypesStep == MonitorInv /\ [MonitorNext]_monitorVars => MonitorTypeOK'
<1> SUFFICES ASSUME MonitorInv, [MonitorNext]_monitorVars PROVE MonitorTypeOK'
  OBVIOUS
<1> USE PaidAssumption
<1>1. ASSUME NEW m \in Monitors, Tick(m) PROVE MonitorTypeOK'
  BY <1>1, AppendedIs
     DEF Tick, MonitorInv, MonitorTypeOK, RunInv, Runners, MonitorSteps, LookInv
<1>2. ASSUME NEW m \in Monitors, Reconfigure(m) PROVE MonitorTypeOK'
  BY <1>2, WithoutIs
     DEF Reconfigure, Edit, Reschedules, history, MonitorInv, MonitorTypeOK, RunInv,
     Runners, MonitorSteps, LookInv
<1>3. ASSUME NEW m \in Monitors, Pause(m) PROVE MonitorTypeOK'
  BY <1>3 DEF Pause, Edit, history, MonitorInv, MonitorTypeOK, RunInv, Runners,
     MonitorSteps, LookInv
<1>4. ASSUME NEW m \in Monitors, Watch(m) PROVE MonitorTypeOK'
  BY <1>4 DEF Watch, Edit, history, MonitorInv, MonitorTypeOK, RunInv, Runners,
     MonitorSteps, LookInv
<1>5. ASSUME NEW m \in Monitors, RunNow(m) PROVE MonitorTypeOK'
  BY <1>5 DEF RunNow, Starts, NoRun, history, MonitorInv, MonitorTypeOK, RunInv,
     Runners, MonitorSteps, LookInv
<1>6. CASE Look
  BY <1>6, SelectedIs
     DEF Look, history, MonitorInv, MonitorTypeOK, RunInv, Runners, MonitorSteps,
     LookInv
<1>7. CASE Take
  BY <1>7, TailIs
     DEF Take, Starts, NoRun, history, MonitorInv, MonitorTypeOK, RunInv, Runners,
     MonitorSteps, LookInv
<1>8. ASSUME NEW k \in Runners, Check(k) PROVE MonitorTypeOK'
  <2>1. short' \subseteq Runners
    BY <1>8, CheckIs DEF MonitorInv, MonitorTypeOK
  <2>2. QED
    BY <1>8, <2>1, CheckIs DEF MonitorInv, MonitorTypeOK, RunRecords
<1>9. ASSUME NEW k \in Runners, Bill(k) PROVE MonitorTypeOK'
  <2>1. run[k].of \in Monitors
    BY <1>9, BillIs DEF MonitorInv, MonitorTypeOK, RunInv
  <2>2. billed' \in [Monitors -> Nat]
    <3>1. billed \in [Monitors -> Nat] /\ billed[run[k].of] + 1 \in Nat
      BY <2>1 DEF MonitorInv, MonitorTypeOK
    <3>2. billed' = billed \/ billed' = [billed EXCEPT ![run[k].of] = @ + 1]
      BY <1>9, BillIs
    <3>3. QED
      BY <2>1, <3>1, <3>2
  <2>3. credits' \in 0..MaxCredits /\ short' \subseteq Runners
    BY <1>9, BillIs DEF MonitorInv, MonitorTypeOK
  <2>4. QED
    BY <1>9, <2>2, <2>3, BillIs DEF MonitorInv, MonitorTypeOK, RunRecords
<1>10. ASSUME NEW k \in Runners, Schedule(k) PROVE MonitorTypeOK'
  BY <1>10, WithoutIs
     DEF Schedule, Reschedules, Ends, Interrupts, MonitorFault, NoRun, MonitorInv,
     MonitorTypeOK, RunInv, Runners, MonitorSteps, LookInv
<1>11. CASE Others
  BY <1>11 DEF Others, Overdraws, MonitorInv, MonitorTypeOK, RunInv, Runners,
     MonitorSteps, LookInv
<1>12. CASE Reboot
  BY <1>12 DEF Reboot, MonitorFault, NoRun, MonitorInv, MonitorTypeOK, RunInv, Runners,
     MonitorSteps, LookInv
<1>13. CASE UNCHANGED monitorVars
  BY <1>13
     DEF monitorVars, MonitorInv, MonitorTypeOK, RunInv, Runners, MonitorSteps, LookInv
<1>14. QED
  BY <1>1, <1>2, <1>3, <1>4, <1>5, <1>6, <1>7, <1>8, <1>9, <1>10, <1>11, <1>12, <1>13
     DEF MonitorNext, Works

\* A run charges what it has checked.
LEMMA RunStep == MonitorInv /\ [MonitorNext]_monitorVars => RunInv'
<1> SUFFICES ASSUME MonitorInv, [MonitorNext]_monitorVars PROVE RunInv'
  OBVIOUS
<1> USE PaidAssumption
<1>1. ASSUME NEW m \in Monitors, Tick(m) PROVE RunInv'
  BY <1>1 DEF Tick, MonitorInv, MonitorTypeOK, RunInv, Runners, MonitorSteps, NoMonitor
<1>2. ASSUME NEW m \in Monitors, Reconfigure(m) PROVE RunInv'
  BY <1>2 DEF Reconfigure, Edit, Reschedules, history, MonitorInv, MonitorTypeOK,
     RunInv, Runners, MonitorSteps, NoMonitor
<1>3. ASSUME NEW m \in Monitors, Pause(m) PROVE RunInv'
  BY <1>3 DEF Pause, Edit, history, MonitorInv, MonitorTypeOK, RunInv, Runners,
     MonitorSteps, NoMonitor
<1>4. ASSUME NEW m \in Monitors, Watch(m) PROVE RunInv'
  BY <1>4 DEF Watch, Edit, history, MonitorInv, MonitorTypeOK, RunInv, Runners,
     MonitorSteps, NoMonitor
<1>5. ASSUME NEW m \in Monitors, RunNow(m) PROVE RunInv'
  BY <1>5 DEF RunNow, Starts, NoRun, history, MonitorInv, MonitorTypeOK, RunInv,
     Runners, MonitorSteps, NoMonitor
<1>6. CASE Look
  BY <1>6 DEF Look, history, MonitorInv, MonitorTypeOK, RunInv, Runners, MonitorSteps,
     NoMonitor
<1>7. CASE Take
  BY <1>7, TailIs
     DEF Take, Starts, NoRun, history, MonitorInv, MonitorTypeOK, RunInv, Runners,
     MonitorSteps, NoMonitor
<1>8. ASSUME NEW k \in Runners, Check(k) PROVE RunInv'
  <2>1. ASSUME NEW j \in Runners, j # k
        PROVE  run'[j] = run[j] /\ (j \in short' <=> j \in short) /\ credits' = credits
    BY <1>8, <2>1, CheckIs
  <2>2. /\ \/ run'[k].of = run[k].of /\ run'[k].step = "charge" /\ run'[k].spent = 0
           \/ NoRunIs(run'[k])
        /\ run[k].of # NoMonitor
        /\ run'[k].step = "charge" => credits' >= Positions
    BY <1>8, CheckIs DEF MonitorInv, RunInv, NoRunIs
  <2>3. credits' \in Nat /\ credits \in Nat
    BY <1>8, CheckIs DEF MonitorInv, MonitorTypeOK
  <2>4. QED
    BY <2>1, <2>2, <2>3 DEF MonitorInv, RunInv, NoRunIs
<1>9. ASSUME NEW k \in Runners, Bill(k) PROVE RunInv'
  <2>1. /\ credits \in Nat /\ credits' \in Nat /\ Positions \in Nat \ {0}
        /\ \A j \in Runners : run[j].spent \in Nat /\ run'[j].spent \in Nat
    BY <1>9, BillIs DEF MonitorInv, MonitorTypeOK, RunRecords
  <2>2. ASSUME NEW j \in Runners, j # k
        PROVE  /\ run'[j] = run[j] /\ (j \in short => j \in short')
               /\ credits' = credits \/ (run[j].step = "charge" => j \in short')
    BY <1>9, <2>2, BillIs
  <2>3. /\ run[k].step = "charge" /\ run[k].of # NoMonitor /\ run'[k].of = run[k].of
        /\ run[k].spent < Positions /\ (credits + run[k].spent >= Positions \/ k \in short)
    BY <1>9, BillIs DEF MonitorInv, RunInv
  <2>4. \/ /\ credits' = credits - 1 /\ run'[k].spent = run[k].spent + 1
           /\ run'[k].step = IF run[k].spent + 1 = Positions THEN "analyse" ELSE "charge"
           /\ k \in short => k \in short'
        \/ /\ run'[k].spent = run[k].spent /\ run'[k].step = "analyse"
           /\ credits = 0 \/ k \in short'
           /\ k \in short => k \in short'
    BY <1>9, BillIs
  <2>5. ASSUME NEW j \in Runners, j # k
        PROVE  /\ run'[j].step = "idle" <=> run'[j].of = NoMonitor
               /\ run'[j].step \in {"idle", "check"} => run'[j].spent = 0
               /\ run'[j].step = "charge" =>
                     /\ run'[j].spent < Positions
                     /\ credits' + run'[j].spent >= Positions \/ j \in short'
               /\ run'[j].step = "analyse" => run'[j].spent = Positions \/ j \in short'
    BY <2>1, <2>2, <2>5 DEF MonitorInv, RunInv
  <2>6. /\ run'[k].step = "idle" <=> run'[k].of = NoMonitor
        /\ run'[k].step \in {"idle", "check"} => run'[k].spent = 0
        /\ run'[k].step = "charge" =>
              /\ run'[k].spent < Positions
              /\ credits' + run'[k].spent >= Positions \/ k \in short'
        /\ run'[k].step = "analyse" => run'[k].spent = Positions \/ k \in short'
    BY <2>1, <2>3, <2>4
  <2>7. QED
    BY <2>5, <2>6 DEF RunInv
<1>10. ASSUME NEW k \in Runners, Schedule(k) PROVE RunInv'
  BY <1>10 DEF Schedule, Reschedules, Ends, Interrupts, MonitorFault, NoRun, MonitorInv,
     MonitorTypeOK, RunInv, Runners, MonitorSteps, NoMonitor
<1>11. CASE Others
  BY <1>11 DEF Others, Overdraws, MonitorInv, MonitorTypeOK, RunInv, Runners,
     MonitorSteps, NoMonitor
<1>12. CASE Reboot
  BY <1>12 DEF Reboot, MonitorFault, NoRun, MonitorInv, MonitorTypeOK, RunInv, Runners,
     MonitorSteps, NoMonitor
<1>13. CASE UNCHANGED monitorVars
  BY <1>13 DEF monitorVars, MonitorInv, MonitorTypeOK, RunInv, Runners, MonitorSteps,
     NoMonitor
<1>14. QED
  BY <1>1, <1>2, <1>3, <1>4, <1>5, <1>6, <1>7, <1>8, <1>9, <1>10, <1>11, <1>12, <1>13
     DEF MonitorNext, Works

\* A monitor is due once and looked up once.
LEMMA LookStep == MonitorInv /\ [MonitorNext]_monitorVars => LookInv'
<1> SUFFICES ASSUME MonitorInv, [MonitorNext]_monitorVars PROVE LookInv'
  OBVIOUS
<1> USE PaidAssumption
<1>1. ASSUME NEW m \in Monitors, Tick(m) PROVE LookInv'
  BY <1>1, AppendedIs
     DEF Tick, MonitorInv, MonitorTypeOK, LookInv, RunInv, Runners, Mine, NoMonitor
<1>2. ASSUME NEW m \in Monitors, Reconfigure(m) PROVE LookInv'
  BY <1>2, WithoutIs
     DEF Reconfigure, Edit, Reschedules, history, MonitorInv, MonitorTypeOK, LookInv,
     RunInv, Runners, Mine, NoMonitor
<1>3. ASSUME NEW m \in Monitors, Pause(m) PROVE LookInv'
  BY <1>3 DEF Pause, Edit, history, MonitorInv, MonitorTypeOK, LookInv, RunInv, Runners,
     Mine, NoMonitor
<1>4. ASSUME NEW m \in Monitors, Watch(m) PROVE LookInv'
  BY <1>4 DEF Watch, Edit, history, MonitorInv, MonitorTypeOK, LookInv, RunInv, Runners,
     Mine, NoMonitor
<1>5. ASSUME NEW m \in Monitors, RunNow(m) PROVE LookInv'
  BY <1>5 DEF RunNow, Starts, NoRun, history, MonitorInv, MonitorTypeOK, LookInv,
     RunInv, Runners, Mine, NoMonitor
<1>6. CASE Look
  <2>1. batch' = Selected /\ due' = due /\ run' = run /\ Mine = NoMonitor
    BY <1>6 DEF Look, MonitorInv, RunInv, Mine, Runners
  <2>2. Selected \in Seq(Monitors) /\ Distinct(Selected)
    BY SelectedIs DEF MonitorInv, MonitorTypeOK, LookInv
  <2>3. QED
    BY <2>1, <2>2, MonitorsOnly DEF MonitorInv, LookInv, Mine, Distinct, Places
<1>7. CASE Take
  BY <1>7, TailIs
     DEF Take, Starts, NoRun, history, MonitorInv, MonitorTypeOK, LookInv, RunInv,
     Runners, Mine, NoMonitor
<1>8. ASSUME NEW k \in Runners, Check(k) PROVE LookInv'
  <2>1. due' = due /\ batch' = batch /\ (Mine' = Mine \/ Mine' = NoMonitor)
    BY <1>8, CheckIs DEF Mine, NoRunIs, Runners
  <2>2. NoMonitor \notin ToSet(batch)
    BY MonitorsOnly DEF MonitorInv, MonitorTypeOK
  <2>3. QED
    BY <2>1, <2>2 DEF MonitorInv, LookInv, Distinct, Places
<1>9. ASSUME NEW k \in Runners, Bill(k) PROVE LookInv'
  <2>1. due' = due /\ batch' = batch /\ Mine' = Mine
    BY <1>9, BillIs DEF Mine, Runners
  <2>2. QED
    BY <2>1 DEF MonitorInv, LookInv, Distinct, Places
<1>10. ASSUME NEW k \in Runners, Schedule(k) PROVE LookInv'
  <2>1. batch' = batch /\ (Mine' = Mine \/ Mine' = NoMonitor)
    BY <1>10 DEF Schedule, Ends, NoRun, Mine, Runners, MonitorInv, MonitorTypeOK
  <2>2. due' = due \/ due' = Without(due, run[k].of)
    BY <1>10 DEF Schedule, Reschedules
  <2>3. Distinct(Without(due, run[k].of))
    BY WithoutIs DEF MonitorInv, MonitorTypeOK, LookInv
  <2>4. Distinct(due')
    BY <2>2, <2>3 DEF MonitorInv, LookInv
  <2>5. NoMonitor \notin ToSet(batch)
    BY MonitorsOnly DEF MonitorInv, MonitorTypeOK
  <2>6. QED
    BY <2>1, <2>4, <2>5 DEF MonitorInv, LookInv, Distinct, Places
<1>11. CASE Others
  BY <1>11 DEF Others, Overdraws, MonitorInv, MonitorTypeOK, LookInv, RunInv, Runners,
     Mine, NoMonitor
<1>12. CASE Reboot
  <2>1. due' = due /\ batch' = <<>>
    BY <1>12 DEF Reboot
  <2>2. QED
    BY <2>1, EmptyIs DEF MonitorInv, LookInv, Distinct, Places
<1>13. CASE UNCHANGED monitorVars
  BY <1>13 DEF monitorVars, MonitorInv, MonitorTypeOK, LookInv, RunInv, Runners, Mine,
     NoMonitor
<1>14. QED
  BY <1>1, <1>2, <1>3, <1>4, <1>5, <1>6, <1>7, <1>8, <1>9, <1>10, <1>11, <1>12, <1>13
     DEF MonitorNext, Works

\* A due date is charged once.
LEMMA BilledStep == MonitorInv /\ [MonitorNext]_monitorVars => BilledInv'
<1> SUFFICES ASSUME MonitorInv, [MonitorNext]_monitorVars PROVE BilledInv'
  OBVIOUS
<1> USE PaidAssumption
<1>1. ASSUME NEW m \in Monitors, Tick(m) PROVE BilledInv'
  BY <1>1, AppendedIs
     DEF Tick, MonitorInv, MonitorTypeOK, LookInv, RunInv, BilledInv, Runners, Mine,
     NoMonitor
<1>2. ASSUME NEW m \in Monitors, Reconfigure(m) PROVE BilledInv'
  BY <1>2, WithoutIs
     DEF Reconfigure, Edit, Reschedules, history, MonitorInv, MonitorTypeOK, LookInv,
     RunInv, BilledInv, Runners, Mine, NoMonitor
<1>3. ASSUME NEW m \in Monitors, Pause(m) PROVE BilledInv'
  BY <1>3 DEF Pause, Edit, history, MonitorInv, MonitorTypeOK, LookInv, RunInv,
     BilledInv, Runners, Mine, NoMonitor
<1>4. ASSUME NEW m \in Monitors, Watch(m) PROVE BilledInv'
  BY <1>4 DEF Watch, Edit, history, MonitorInv, MonitorTypeOK, LookInv, RunInv,
     BilledInv, Runners, Mine, NoMonitor
<1>5. ASSUME NEW m \in Monitors, RunNow(m) PROVE BilledInv'
  BY <1>5 DEF RunNow, Starts, NoRun, history, MonitorInv, MonitorTypeOK, LookInv,
     RunInv, BilledInv, Runners, Mine, NoMonitor
<1>6. CASE Look
  BY <1>6, SelectedIs
     DEF Look, history, MonitorInv, MonitorTypeOK, LookInv, RunInv, BilledInv, Runners,
     Mine, NoMonitor
<1>7. CASE Take
  BY <1>7, TailIs
     DEF Take, Starts, NoRun, history, MonitorInv, MonitorTypeOK, LookInv, RunInv,
     BilledInv, Runners, Mine, NoMonitor
<1>8. ASSUME NEW k \in Runners, Check(k) PROVE BilledInv'
  BY <1>8 DEF Check, Skips, Ends, MonitorFault, Enough, NoRun, MonitorInv,
     MonitorTypeOK, LookInv, RunInv, BilledInv, Runners, Mine, NoMonitor
<1>9. ASSUME NEW k \in Runners, Bill(k) PROVE BilledInv'
  <2>1. /\ due' = due /\ batch' = batch /\ interrupted' = interrupted /\ Mine' = Mine
        /\ run["loop"].spent \in Nat /\ run'["loop"].spent >= run["loop"].spent
    BY <1>9, BillIs DEF MonitorInv, MonitorTypeOK, Mine, Runners
  <2>2. CASE billed' = billed
    <3>1. run["loop"].spent > 0 => run'["loop"].spent > 0
      BY <1>9, <2>1, BillIs DEF RunRecords, Runners
    <3>2. ASSUME NEW m \in Monitors, m \notin interrupted, billed[m] > 0
          PROVE  /\ billed'[m] = 1 /\ m \notin ToSet(batch')
                 /\ Mine' = m => run'["loop"].spent > 0
                 /\ m \in ToSet(due') => Mine' = m
      <4>1. /\ billed[m] = 1 /\ m \notin ToSet(batch)
            /\ Mine = m => run["loop"].spent > 0
            /\ m \in ToSet(due) => Mine = m
        BY <3>2 DEF MonitorInv, BilledInv
      <4>2. QED
        BY <2>1, <2>2, <3>1, <4>1
    <3>3. \A m \in Monitors : billed'[m] = billed[m] /\ (m \in interrupted' <=> m \in interrupted)
      BY <2>1, <2>2
    <3>4. QED
      BY <3>2, <3>3 DEF BilledInv
  <2>3. CASE billed' # billed
    <3>1. /\ k = "loop" /\ run["loop"].spent = 0 /\ billed' = [billed EXCEPT ![Mine] = @ + 1]
          /\ run'["loop"].spent = 1
      BY <1>9, <2>3, BillIs DEF Mine
    <3>2. Mine \in Monitors
      BY <1>9, <3>1, BillIs DEF MonitorInv, MonitorTypeOK, RunInv, Mine, Runners
    <3>3. Mine \notin interrupted => billed[Mine] = 0
      BY <3>1, <3>2 DEF MonitorInv, MonitorTypeOK, BilledInv
    <3>4. Mine \notin interrupted => billed'[Mine] = 1
      BY <3>1, <3>2, <3>3 DEF MonitorInv, MonitorTypeOK
    <3>5. \A m \in Monitors : m # Mine => billed'[m] = billed[m]
      BY <3>1, <3>2 DEF MonitorInv, MonitorTypeOK
    <3>6. QED
      BY <2>1, <3>1, <3>4, <3>5 DEF MonitorInv, LookInv, BilledInv
  <2>4. QED
    BY <2>2, <2>3
<1>10. ASSUME NEW k \in Runners, Schedule(k) PROVE BilledInv'
  BY <1>10, WithoutIs
     DEF Schedule, Reschedules, Ends, Interrupts, MonitorFault, NoRun, MonitorInv,
     MonitorTypeOK, LookInv, RunInv, BilledInv, Runners, Mine, NoMonitor
<1>11. CASE Others
  BY <1>11 DEF Others, Overdraws, MonitorInv, MonitorTypeOK, LookInv, RunInv, BilledInv,
     Runners, Mine, NoMonitor
<1>12. CASE Reboot
  <2>1. /\ due' = due /\ ToSet(batch') = {} /\ billed' = billed
        /\ Mine' = NoMonitor
        /\ interrupted' = interrupted \cup {run[k].of : k \in {j \in Runners : run[j].spent > 0}}
    BY <1>12, EmptyIs DEF Reboot, Mine, NoRun, Runners
  <2>2. run["loop"].spent > 0 => Mine \in interrupted'
    BY <2>1 DEF Mine, Runners
  <2>3. ASSUME NEW m \in Monitors, m \notin interrupted', billed'[m] > 0
        PROVE  billed'[m] = 1 /\ m \notin ToSet(batch') /\ Mine' # m /\ m \notin ToSet(due')
    <3>1. m \notin interrupted /\ billed[m] > 0 /\ Mine' # m
      BY <2>1, <2>3, PaidAssumption
    <3>2. billed[m] = 1 /\ (Mine = m => run["loop"].spent > 0) /\ (m \in ToSet(due) => Mine = m)
      BY <3>1 DEF MonitorInv, BilledInv
    <3>3. QED
      BY <2>1, <2>2, <2>3, <3>1, <3>2
  <2>4. QED
    BY <2>3 DEF BilledInv
<1>13. CASE UNCHANGED monitorVars
  BY <1>13 DEF monitorVars, MonitorInv, MonitorTypeOK, LookInv, RunInv, BilledInv,
     Runners, Mine, NoMonitor
<1>14. QED
  BY <1>1, <1>2, <1>3, <1>4, <1>5, <1>6, <1>7, <1>8, <1>9, <1>10, <1>11, <1>12, <1>13
     DEF MonitorNext, Works

-----------------------------------------------------------------------------
(* The theorems *)

\* The invariant holds initially.
LEMMA InitInv == Init => IInv
<1> SUFFICES ASSUME Init PROVE IInv
  OBVIOUS
<1> USE PaidAssumption
<1>1. TaskTypeOK
  BY DEF Init, TaskInit, TaskTypeOK, TaskSteps
<1>2. GuardInv /\ PaidInv /\ ProgressInv
  BY DEF Init, TaskInit, GuardInv, Inside, PaidInv, ProgressInv, Progress
<1>3. MonitorTypeOK /\ RunInv
  BY EmptyIs DEF Init, MonitorInit, MonitorTypeOK, RunInv, NoRun, MonitorSteps
<1>4. LookInv /\ BilledInv
  BY EmptyIs DEF Init, MonitorInit, LookInv, BilledInv
<1>5. QED
  BY <1>1, <1>2, <1>3, <1>4 DEF IInv, TaskInv, MonitorInv

\* The steps of requests keep the invariant.
LEMMA TaskStep == TaskInv /\ [TaskNext]_taskVars => TaskInv'
  BY TaskTypesStep, GuardStep, PaidStep, ProgressStep DEF TaskInv

\* The steps of the monitors keep it.
LEMMA MonitorStep == MonitorInv /\ [MonitorNext]_monitorVars => MonitorInv'
  BY MonitorTypesStep, RunStep, LookStep, BilledStep DEF MonitorInv

\* The inductive invariant of both consumers of credits.
THEOREM Invariance == Spec => []IInv
<1>1. IInv /\ [Next]_vars => IInv'
  <2>1. [Next]_vars => [TaskNext]_taskVars /\ [MonitorNext]_monitorVars
    BY DEF Next, vars
  <2>2. QED
    BY <2>1, TaskStep, MonitorStep DEF IInv
<1>2. QED
  BY <1>1, InitInv, PTL DEF Spec

\* For any number of clicks, two analyses of one symbol run at once only after the
\* entry of one of them was removed under it.
THEOREM GuardHoldsAlways == Spec => []GuardHolds
<1>1. IInv => GuardHolds
  BY DEF IInv, TaskInv, GuardInv, GuardHolds
<1>2. QED
  BY <1>1, Invariance, PTL

\* Without a fault after the charge whoever pays is served and nobody else, and no
\* refund is made twice.
THEOREM PaidIffServedAlways == Spec => []PaidIffServed
<1>1. IInv => PaidIffServed
  BY DEF IInv, TaskInv, TaskTypeOK, ProgressInv, Progress, PaidIffServed
<1>2. QED
  BY <1>1, Invariance, PTL

\* A run that analyses what it has not paid for was overdrawn by others, or a charge
\* of it failed.
THEOREM PaidInFullAlways == Spec => []PaidInFull
<1>1. IInv => PaidInFull
  <2> SUFFICES ASSUME IInv, NEW k \in Runners, run[k].step = "analyse", run[k].spent < Positions
               PROVE  k \in short
    BY DEF PaidInFull
  <2>1. run[k].spent = Positions \/ k \in short
    BY DEF IInv, MonitorInv, RunInv
  <2>2. QED
    BY <2>1, PaidAssumption
<1>2. QED
  BY <1>1, Invariance, PTL

\* A due date is charged by the loop once, unless a run was interrupted after it charged.
THEOREM BilledOnceAlways == Spec => []BilledOnce
<1>1. IInv => BilledOnce
  <2> SUFFICES ASSUME IInv, NEW m \in Monitors, m \notin interrupted PROVE billed[m] <= 1
    BY DEF BilledOnce
  <2>1. billed[m] \in Nat /\ (billed[m] > 0 => billed[m] = 1)
    BY DEF IInv, MonitorInv, MonitorTypeOK, BilledInv
  <2>2. QED
    BY <2>1
<1>2. QED
  BY <1>1, Invariance, PTL
=============================================================================
