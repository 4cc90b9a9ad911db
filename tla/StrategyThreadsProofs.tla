----------------------- MODULE StrategyThreadsProofs ------------------------
(***************************************************************************)
(* Proofs about StrategyThreads for any strategies, threads, requests and  *)
(* faults.                                                                 *)
(***************************************************************************)
EXTENDS StrategyThreads, TLAPS

\* Initially nothing runs.
LEMMA InitRegistryInv == Init => RegistryInv
  BY ThreadsAssumption DEF Init, RegistryInv, TypeOK, NoDeadOwner, PCs, RPCs

\* Starting a strategy keeps the types and gives its slot to a live thread.
LEMMA BeginKeepsRegistry ==
    ASSUME RegistryInv, NEW p \in Procs, NEW s \in Strategies, NEW t \in Threads, Begin(p, s, t)
    PROVE  /\ reg' \in [Procs -> [Strategies -> Threads \cup {NoThread}]]
           /\ pc' \in [Threads -> PCs] /\ sid' \in [Threads -> Strategies]
           /\ proc' \in [Threads -> Procs]
           /\ seen' \in [Threads -> BOOLEAN] /\ beside' \in [Threads -> BOOLEAN]
           /\ told' \in [Threads -> {"never", "stopped", "restarted"}]
           /\ late' \in [Threads -> 0..2]
           /\ NoDeadOwner'
<1> USE DEF Begin, Launch
<1>1. reg' \in [Procs -> [Strategies -> Threads \cup {NoThread}]]
  BY DEF RegistryInv, TypeOK
<1>2. /\ pc' \in [Threads -> PCs] /\ sid' \in [Threads -> Strategies]
      /\ proc' \in [Threads -> Procs] /\ seen' \in [Threads -> BOOLEAN]
      /\ told' \in [Threads -> {"never", "stopped", "restarted"}]
      /\ late' \in [Threads -> 0..2]
  BY DEF RegistryInv, TypeOK, PCs
<1>3. beside' \in [Threads -> BOOLEAN]
  <2>1. (\E u \in LiveOf(s) : proc[u] = p /\ (told[u] # "never" \/ beside[u])) \in BOOLEAN
    OBVIOUS
  <2>2. QED
    BY <2>1, Zenon DEF RegistryInv, TypeOK
<1>4. NoDeadOwner'
  BY <1>1, <1>2 DEF RegistryInv, TypeOK, NoDeadOwner, Live, Registered
<1>5. QED
  BY <1>1, <1>2, <1>3, <1>4

\* A refused start changes nothing that matters.
LEMMA RefusedKeepsRegistry ==
    ASSUME RegistryInv, NEW p \in Procs, NEW s \in Strategies, Refused(p, s)
    PROVE  /\ reg' \in [Procs -> [Strategies -> Threads \cup {NoThread}]]
           /\ NoDeadOwner'
<1>1. reg' \in [Procs -> [Strategies -> Threads \cup {NoThread}]]
  BY DEF RegistryInv, TypeOK, Refused
<1>2. NoDeadOwner'
  BY <1>1 DEF RegistryInv, TypeOK, NoDeadOwner, Refused, Live, Registered, threads
<1>3. QED
  BY <1>1, <1>2

\* The status writes keep their types.
LEMMA TellTypes ==
    ASSUME TypeOK, NEW s \in Strategies, Tell(s)
    PROVE  /\ told' \in [Threads -> {"never", "stopped", "restarted"}]
           /\ late' \in [Threads -> 0..2]
  BY DEF TypeOK, Tell

\* The status column stays what it is.
LEMMA StatusTypes ==
    ASSUME TypeOK, NEW s \in Strategies, NEW st \in {"stopped", "running"}, SetStatus(s, st)
    PROVE  db' \in [Strategies -> {"stopped", "running", "gone"}]
  BY DEF TypeOK, SetStatus

\* A stop tells threads, or fails.
LEMMA StopTypes ==
    ASSUME TypeOK, NEW s \in Strategies, (StopWrites(s) /\ UNCHANGED faults) \/ (UNCHANGED <<db, told, late>> /\ Fault)
    PROVE  /\ db' \in [Strategies -> {"stopped", "running", "gone"}]
           /\ told' \in [Threads -> {"never", "stopped", "restarted"}]
           /\ late' \in [Threads -> 0..2] /\ faults' \in 0..MaxFaults
<1>1. CASE StopWrites(s) /\ UNCHANGED faults
  BY <1>1, TellTypes, StatusTypes DEF StopWrites, TypeOK
<1>2. CASE UNCHANGED <<db, told, late>> /\ Fault
  BY <1>2, ThreadsAssumption DEF TypeOK, Fault
<1>3. QED
  BY <1>1, <1>2

\* Every step keeps the types and the owners of the slots.
LEMMA StepRegistryInv == RegistryInv /\ [Next]_vars => RegistryInv'
<1> SUFFICES ASSUME RegistryInv, [Next]_vars PROVE RegistryInv'
    OBVIOUS
<1> USE ThreadsAssumption DEF RegistryInv
<1>1. ASSUME NEW t \in Threads, InitReady(t) \/ InitFails(t) \/ ReadFails(t) \/ Tick(t)
      PROVE RegistryInv'
  <2>1. /\ pc' \in [Threads -> PCs] /\ UNCHANGED <<db, reg, sid, proc, seen, told, late, beside, requests, booting>>
        /\ faults' \in 0..MaxFaults
    <3>1. CASE ReadFails(t)
      BY <1>1, <3>1 DEF TypeOK, PCs, Goto, Fault, ReadFails
    <3>2. CASE InitReady(t) \/ InitFails(t) \/ Tick(t)
      BY <1>1, <3>2 DEF TypeOK, PCs, Goto, InitReady, InitFails, Tick
    <3>3. QED
      BY <1>1, <3>1, <3>2
  <2>2. \A u \in Threads : Live(u)' <=> Live(u)
    BY <1>1 DEF TypeOK, Live, Goto, InitReady, InitFails, ReadFails, Tick
  <2>3. QED
    BY <2>1, <2>2 DEF TypeOK, NoDeadOwner, requests, booting
<1>2. ASSUME NEW t \in Threads, ReadStatus(t) \/ TestThread(t)
      PROVE RegistryInv'
  <2>1. CASE ReadStatus(t)
    <3>1. (db[sid[t]] = "running") \in BOOLEAN
      OBVIOUS
    <3>2. seen' \in [Threads -> BOOLEAN]
      BY <2>1, <3>1, Zenon DEF TypeOK, ReadStatus
    <3>3. pc' \in [Threads -> PCs] /\ UNCHANGED <<db, reg, sid, proc, told, late, beside, requests, booting, faults>>
      BY <2>1 DEF TypeOK, PCs, Goto, ReadStatus
    <3>4. \A u \in Threads : Live(u)' <=> Live(u)
      BY <2>1 DEF TypeOK, Live, Goto, ReadStatus
    <3>5. QED
      BY <3>2, <3>3, <3>4 DEF TypeOK, NoDeadOwner, requests, booting
  <2>2. CASE TestThread(t)
    <3>1. /\ pc' \in [Threads -> PCs] /\ late' \in [Threads -> 0..2]
          /\ UNCHANGED <<db, reg, sid, proc, seen, told, beside, requests, booting, faults>>
      BY <2>2 DEF TypeOK, PCs, Goto, TestThread
    <3>2. \A u \in Threads : Live(u)' <=> Live(u)
      BY <2>2 DEF TypeOK, Live, Goto, TestThread
    <3>3. QED
      BY <3>1, <3>2 DEF TypeOK, NoDeadOwner, requests, booting
  <2>3. QED
    BY <1>2, <2>1, <2>2
<1>3. ASSUME NEW t \in Threads, FixStatus(t)
      PROVE RegistryInv'
  <2>1. pc' \in [Threads -> PCs] /\ UNCHANGED <<reg, sid, proc, seen, beside, requests, booting>>
    BY <1>3 DEF TypeOK, PCs, Goto, FixStatus
  <2>2. \A u \in Threads : Live(u)' <=> Live(u)
    BY <1>3 DEF TypeOK, Live, Goto, FixStatus
  <2>3. QED
    BY <1>3, <2>1, <2>2, StopTypes DEF TypeOK, NoDeadOwner, FixStatus, requests, booting
<1>4. ASSUME NEW t \in Threads, Finally(t)
      PROVE RegistryInv'
  BY <1>4 DEF TypeOK, NoDeadOwner, Live, PCs, requests, booting, Goto, Finally, Forget
<1>5. ASSUME NEW r \in Requests, StartThread(r)
      PROVE RegistryInv'
  <2>1. PICK t \in Threads : Begin(rp[r], rs[r], t)
    BY <1>5 DEF StartThread
  <2>2. rp[r] \in Procs /\ rs[r] \in Strategies
    BY DEF TypeOK
  <2>3. rpc' \in [Requests -> RPCs]
    BY <1>5 DEF TypeOK, RPCs, StartThread
  <2>4. QED
    BY <1>5, <2>1, <2>2, <2>3, BeginKeepsRegistry DEF TypeOK, StartThread, booting
<1>6. ASSUME NEW r \in Requests, StartRefused(r)
      PROVE RegistryInv'
  <2>1. rp[r] \in Procs /\ rs[r] \in Strategies
    BY DEF TypeOK
  <2>2. /\ rpc' \in [Requests -> RPCs] /\ UNCHANGED <<db, threads, rs, rp, booting>>
        /\ faults' \in 0..MaxFaults
    BY <1>6, ThreadsAssumption DEF TypeOK, RPCs, StartRefused, Refused, Fault
  <2>3. QED
    BY <1>6, <2>1, <2>2, RefusedKeepsRegistry DEF TypeOK, StartRefused, threads, booting
<1>7. ASSUME NEW r \in Requests, Undo(r) \/ StopFinish(r)
      PROVE RegistryInv'
  <2>1. rpc' \in [Requests -> RPCs] /\ UNCHANGED <<reg, pc, sid, proc, seen, beside, rs, rp, booting>>
    BY <1>7 DEF TypeOK, RPCs, Undo, StopFinish
  <2>2. rs[r] \in Strategies
    BY DEF TypeOK
  <2>3. CASE rpc[r] = "stopDelete" /\ db' = [db EXCEPT ![rs[r]] = "gone"] /\ Tell(rs[r]) /\ UNCHANGED faults
    BY <2>1, <2>2, <2>3, TellTypes DEF TypeOK, NoDeadOwner, Live, booting
  <2>4. CASE (StopWrites(rs[r]) /\ UNCHANGED faults) \/ (UNCHANGED <<db, told, late>> /\ Fault)
    BY <2>1, <2>2, <2>4, StopTypes DEF TypeOK, NoDeadOwner, Live, booting
  <2>5. QED
    BY <1>7, <2>3, <2>4 DEF Undo, StopFinish
<1>8. ASSUME NEW r \in Requests, NEW s \in Strategies, NEW p \in Procs, StartRequest(r, s, p)
      PROVE RegistryInv'
  <2>1. /\ rpc' \in [Requests -> RPCs] /\ rs' \in [Requests -> Strategies] /\ rp' \in [Requests -> Procs]
        /\ UNCHANGED <<reg, pc, sid, proc, seen, late, beside, booting>>
    BY <1>8 DEF TypeOK, RPCs, StartRequest
  <2>2. db' \in [Strategies -> {"stopped", "running", "gone"}]
    BY <1>8, StatusTypes DEF TypeOK, StartRequest
  <2>3. faults' \in 0..MaxFaults
    BY <1>8 DEF TypeOK, StartRequest, Fault
  <2>4. told' \in [Threads -> {"never", "stopped", "restarted"}]
    BY <1>8 DEF TypeOK, StartRequest
  <2>5. QED
    BY <2>1, <2>2, <2>3, <2>4 DEF TypeOK, NoDeadOwner, Live, booting
<1>9. ASSUME NEW r \in Requests, NEW s \in Strategies, NEW p \in Procs, StopRequest(r, s, p)
      PROVE RegistryInv'
  <2>1. /\ rpc' \in [Requests -> RPCs] /\ rs' \in [Requests -> Strategies] /\ rp' \in [Requests -> Procs]
        /\ UNCHANGED <<pc, sid, proc, seen, beside, booting>>
    BY <1>9 DEF TypeOK, RPCs, StopRequest
  <2>2. \/ UNCHANGED reg
        \/ reg' = [reg EXCEPT ![p][s] = NoThread]
    BY <1>9 DEF StopRequest
  <2>3. reg' \in [Procs -> [Strategies -> Threads \cup {NoThread}]] /\ NoDeadOwner'
    <3>1. CASE UNCHANGED reg
      BY <2>1, <3>1 DEF TypeOK, NoDeadOwner, Live
    <3>2. CASE reg' = [reg EXCEPT ![p][s] = NoThread]
      <4>1. reg' \in [Procs -> [Strategies -> Threads \cup {NoThread}]]
        BY <3>2 DEF TypeOK
      <4>2. \A q \in Procs, x \in Strategies : reg'[q][x] # NoThread => reg'[q][x] = reg[q][x]
        BY <3>2 DEF TypeOK
      <4>3. QED
        BY <2>1, <4>1, <4>2 DEF NoDeadOwner, Live
    <3>3. QED
      BY <2>2, <3>1, <3>2
  <2>4. \/ StopWrites(s) /\ UNCHANGED faults
        \/ UNCHANGED <<db, told, late>> /\ Fault
        \/ UNCHANGED <<db, told, late, faults>>
    BY <1>9 DEF StopRequest
  <2>5. /\ db' \in [Strategies -> {"stopped", "running", "gone"}]
        /\ told' \in [Threads -> {"never", "stopped", "restarted"}]
           /\ late' \in [Threads -> 0..2] /\ faults' \in 0..MaxFaults
    BY <2>4, StopTypes DEF TypeOK
  <2>6. QED
    BY <2>1, <2>3, <2>5 DEF TypeOK, booting
<1>10. ASSUME NEW s \in Strategies, DeleteRequest(s)
       PROVE RegistryInv'
  <2>1. /\ db' \in [Strategies -> {"stopped", "running", "gone"}]
        /\ UNCHANGED <<reg, pc, sid, proc, seen, beside, requests, booting, faults>>
    BY <1>10 DEF TypeOK, DeleteRequest
  <2>2. QED
    BY <1>10, <2>1, TellTypes
       DEF TypeOK, NoDeadOwner, Live, requests, booting, DeleteRequest
<1>11. ASSUME NEW p \in Procs, Boot(p) \/ BootDone(p)
       PROVE RegistryInv'
  <2>1. /\ boot' \in [Procs -> {"down", "restoring", "up"}] /\ todo' \in [Procs -> SUBSET Strategies]
        /\ UNCHANGED <<db, reg, threads, requests, unfixed, faults>>
    <3>1. CASE Boot(p)
      <4>1. {s \in Strategies \ Scripts : db[s] = "running"} \in SUBSET Strategies
        OBVIOUS
      <4>2. QED
        BY <3>1, <4>1 DEF TypeOK, Boot
    <3>2. CASE BootDone(p)
      BY <3>2 DEF TypeOK, BootDone
    <3>3. QED
      BY <1>11, <3>1, <3>2
  <2>2. QED
    BY <2>1 DEF TypeOK, NoDeadOwner, Live, threads, requests
<1>12. ASSUME NEW p \in Procs, NEW s \in Strategies, RestoreMarks(p, s)
       PROVE RegistryInv'
  <2>1. /\ unfixed' \in [Procs -> SUBSET Strategies]
        /\ UNCHANGED <<reg, pc, sid, proc, seen, beside, rpc, rs, rp, boot, todo>>
    BY <1>12 DEF TypeOK, requests, RestoreMarks
  <2>2. QED
    BY <1>12, <2>1, StopTypes DEF TypeOK, NoDeadOwner, Live, RestoreMarks
<1>13. ASSUME NEW p \in Procs, NEW s \in Strategies, RestoreStarts(p, s)
       PROVE RegistryInv'
  <2>1. PICK t \in Threads : Begin(p, s, t)
    BY <1>13 DEF RestoreStarts
  <2>2. /\ todo' \in [Procs -> SUBSET Strategies]
        /\ UNCHANGED <<db, rpc, rs, rp, boot, unfixed, faults>>
    BY <1>13 DEF TypeOK, RestoreStarts, requests
  <2>3. QED
    BY <2>1, <2>2, BeginKeepsRegistry DEF TypeOK
<1>14. ASSUME NEW p \in Procs, NEW s \in Strategies, RestoreRefused(p, s)
       PROVE RegistryInv'
  <2>1. todo' \in [Procs -> SUBSET Strategies] /\ unfixed' \in [Procs -> SUBSET Strategies]
        /\ UNCHANGED <<db, threads, requests, boot>> /\ faults' \in 0..MaxFaults
    BY <1>14, ThreadsAssumption DEF TypeOK, RestoreRefused, Refused, Fault
  <2>2. QED
    BY <1>14, <2>1, RefusedKeepsRegistry DEF TypeOK, RestoreRefused, threads, requests
<1>15. ASSUME NEW p \in Procs, Crash(p)
       PROVE RegistryInv'
  BY <1>15 DEF TypeOK, NoDeadOwner, Live, PCs, RPCs, Fault, Crash
<1>16. CASE UNCHANGED vars
  BY <1>16 DEF vars, threads, requests, booting, TypeOK, NoDeadOwner, Live
<1>17. QED
  BY <1>1, <1>2, <1>3, <1>4, <1>5, <1>6, <1>7, <1>8, <1>9, <1>10, <1>11, <1>12, <1>13,
     <1>14, <1>15, <1>16
     DEF Next, ThreadStep, RequestStep, BootStep

\* In every run, with any users and any number of processes, a slot belongs
\* to a live thread of its strategy and process.
THEOREM SlotsHaveOwners == Spec => []NoDeadOwner
<1>1. Spec => []RegistryInv
  BY InitRegistryInv, StepRegistryInv, PTL DEF Spec
<1>2. QED
  BY <1>1, PTL DEF RegistryInv

\* Type correctness of every run.
THEOREM ThreadTypes == Spec => []TypeOK
<1>1. Spec => []RegistryInv
  BY InitRegistryInv, StepRegistryInv, PTL DEF Spec
<1>2. QED
  BY <1>1, PTL DEF RegistryInv

-----------------------------------------------------------------------------
(* One loop per strategy and process.                                      *)

\* What the threads, the registry and the history of who was stopped must keep for
\* LoopInv to hold: no thread appears, keeps more or forgets.
LEMMA QuietKeepsLoop ==
    ASSUME LoopInv, RegistryInv',
           \A t \in Threads : Live(t)' =>
              /\ Live(t) /\ sid'[t] = sid[t] /\ proc'[t] = proc[t] /\ beside'[t] = beside[t]
              /\ told[t] # "never" => told'[t] # "never"
              /\ \/ reg'[proc[t]][sid[t]] = reg[proc[t]][sid[t]]
                 \/ reg'[proc[t]][sid[t]] = NoThread /\ (told'[t] # "never" \/ beside[t])
    PROVE  LoopInv'
<1>1. OneLoop'
  BY DEF LoopInv, OneLoop
<1>2. Slotted'
  BY DEF LoopInv, Slotted
<1>3. NewestHoldsSlot'
  BY ThreadsAssumption DEF LoopInv, NewestHoldsSlot
<1>4. QED
  BY <1>1, <1>2, <1>3 DEF LoopInv

\* A new thread is the newest of its strategy, and beside every older one.
LEMMA BeginKeepsLoop ==
    ASSUME LoopInv, RegistryInv', NEW p \in Procs, NEW s \in Strategies, NEW t \in Threads,
           Begin(p, s, t)
    PROVE  LoopInv'
<1> USE DEF Begin, Launch
<1>0. TypeOK /\ NoDeadOwner /\ s \notin Registered(p) /\ pc[t] = "free"
  BY DEF LoopInv, RegistryInv, MayRun
<1>1. \A u \in Threads : u # t =>
          /\ pc'[u] = pc[u] /\ sid'[u] = sid[u] /\ proc'[u] = proc[u]
          /\ told'[u] = told[u] /\ beside'[u] = beside[u] /\ (Live(u)' <=> Live(u))
  BY <1>0 DEF TypeOK, Live
<1>2. sid'[t] = s /\ proc'[t] = p /\ reg'[p][s] = t
  BY <1>0 DEF TypeOK
<1>3. \A u \in Threads : Live(u) /\ reg[proc[u]][sid[u]] = u => reg'[proc[u]][sid[u]] = u
  BY <1>0, ThreadsAssumption DEF TypeOK, Registered, Live
<1>4. ASSUME NEW u \in Threads, u # t, Live(u), sid[u] = s, proc[u] = p
      PROVE  beside'[t]
  <2>1. reg[p][s] # u
    BY <1>0, <1>4, ThreadsAssumption DEF Registered
  <2>2. told[u] # "never" \/ beside[u]
    BY <1>4, <2>1 DEF LoopInv, Slotted
  <2>3. u \in LiveOf(s)
    BY <1>4 DEF LiveOf
  <2>4. QED
    BY <1>0, <1>4, <2>2, <2>3 DEF TypeOK
<1>5. OneLoop'
  BY <1>1, <1>2, <1>4 DEF LoopInv, OneLoop
<1>6. Slotted'
  BY <1>1, <1>2, <1>3 DEF LoopInv, Slotted
<1>7. ASSUME NEW v \in Threads, NEW u \in Threads, v # u, Live(v)', Live(u)',
             sid'[v] = sid'[u], proc'[v] = proc'[u], reg'[proc'[u]][sid'[u]] = u
      PROVE  beside'[u]
  <2>1. CASE u = t
    BY <1>1, <1>2, <1>4, <1>7, <2>1
  <2>2. CASE u # t
    <3>1. ~(sid[u] = s /\ proc[u] = p)
      BY <1>1, <1>2, <1>7, <2>2
    <3>2. v # t
      BY <1>1, <1>2, <1>7, <2>2, <3>1
    <3>3. reg[proc[u]][sid[u]] = u
      BY <1>0, <1>1, <1>7, <2>2, <3>1, ThreadsAssumption DEF TypeOK
    <3>4. QED
      BY <1>1, <1>7, <2>2, <3>2, <3>3 DEF LoopInv, NewestHoldsSlot
  <2>3. QED
    BY <2>1, <2>2
<1>8. NewestHoldsSlot'
  BY <1>7 DEF NewestHoldsSlot
<1>9. QED
  BY <1>5, <1>6, <1>8 DEF LoopInv

\* A leaving thread may delete the entry of the newest one, which is then beside it.
LEMMA FinallyKeepsLoop ==
    ASSUME LoopInv, RegistryInv', NEW t \in Threads, Finally(t)
    PROVE  LoopInv'
<1>0. TypeOK
  BY DEF LoopInv, RegistryInv
<1>1. Live(t) /\ ~Live(t)' /\ sid' = sid /\ proc' = proc
  BY <1>0 DEF Finally, TypeOK, Live, Goto
<1>2. \A u \in Threads : u # t =>
          (Live(u)' <=> Live(u)) /\ told'[u] = told[u] /\ beside'[u] = beside[u]
  BY <1>0 DEF Finally, Forget, TypeOK, Live, Goto
<1>3. ASSUME NEW u \in Threads, u # t, Live(u)
      PROVE  \/ reg'[proc[u]][sid[u]] = reg[proc[u]][sid[u]]
             \/ reg'[proc[u]][sid[u]] = NoThread /\ (told[u] # "never" \/ beside[u])
  <2>1. CASE proc[u] = proc[t] /\ sid[u] = sid[t]
    <3>1. told[u] # "never" \/ beside[u]
      BY <1>1, <1>3, <2>1 DEF LoopInv, Slotted, NewestHoldsSlot
    <3>2. reg'[proc[u]][sid[u]] = NoThread
      BY <1>0, <2>1 DEF Finally, TypeOK
    <3>3. QED
      BY <3>1, <3>2
  <2>2. CASE ~(proc[u] = proc[t] /\ sid[u] = sid[t])
    BY <1>0, <2>2 DEF Finally, TypeOK
  <2>3. QED
    BY <2>1, <2>2
<1>4. QED
  BY <1>1, <1>2, <1>3, QuietKeepsLoop

\* Telling the threads of a strategy to end changes neither threads nor registry.
LEMMA TellKeepsTold ==
    ASSUME TypeOK, NEW s \in Strategies, Tell(s)
    PROVE  /\ \A t \in Threads : told[t] # "never" => told'[t] # "never"
           /\ \A t \in Threads : Live(t) /\ sid[t] = s => told'[t] = "stopped"
  BY DEF TypeOK, Tell, LiveOf

\* Writes of the status and requests move no thread.
LEMMA StatusKeepsLoop ==
    ASSUME LoopInv, RegistryInv', UNCHANGED <<reg, sid, proc, beside>>,
           \A t \in Threads : Live(t)' <=> Live(t),
           UNCHANGED told \/ \E s \in Strategies : Tell(s)
    PROVE  LoopInv'
<1>1. \A t \in Threads : told[t] # "never" => told'[t] # "never"
  BY TellKeepsTold DEF LoopInv, RegistryInv
<1>2. QED
  BY <1>1, QuietKeepsLoop

\* A refused start only drops entries of ended threads.
LEMMA RefusedKeepsLoop ==
    ASSUME LoopInv, RegistryInv', NEW p \in Procs, NEW s \in Strategies, Refused(p, s)
    PROVE  LoopInv'
<1>1. UNCHANGED threads
  BY DEF Refused
<1>2. reg' = reg
  BY DEF LoopInv, RegistryInv, TypeOK, NoDeadOwner, Refused, Registered
<1>3. QED
  BY <1>1, <1>2, QuietKeepsLoop DEF threads, Live

\* Every step keeps LoopInv, with any users and any number of processes.
LEMMA StepLoopInv == LoopInv /\ [Next]_vars => LoopInv'
<1> SUFFICES ASSUME LoopInv, [Next]_vars PROVE LoopInv'
    OBVIOUS
<1>0. TypeOK /\ RegistryInv'
  BY StepRegistryInv DEF LoopInv, RegistryInv
<1>1. ASSUME NEW t \in Threads,
             InitReady(t) \/ InitFails(t) \/ ReadStatus(t) \/ ReadFails(t) \/ TestThread(t) \/ Tick(t)
      PROVE LoopInv'
  <2>1. UNCHANGED <<reg, sid, proc, told, beside>>
    BY <1>1 DEF InitReady, InitFails, ReadStatus, ReadFails, TestThread, Tick
  <2>2. \A u \in Threads : Live(u)' <=> Live(u)
    BY <1>0, <1>1
       DEF TypeOK, Live, Goto, InitReady, InitFails, ReadStatus, ReadFails, TestThread,
       Tick
  <2>3. QED
    BY <1>0, <2>1, <2>2, StatusKeepsLoop
<1>2. ASSUME NEW t \in Threads, FixStatus(t)
      PROVE LoopInv'
  <2>1. UNCHANGED <<reg, sid, proc, beside>> /\ \A u \in Threads : Live(u)' <=> Live(u)
    BY <1>0, <1>2 DEF TypeOK, Live, Goto, FixStatus
  <2>2. UNCHANGED told \/ Tell(sid[t])
    BY <1>2 DEF FixStatus, StopWrites
  <2>3. sid[t] \in Strategies
    BY <1>0 DEF TypeOK
  <2>4. QED
    BY <1>0, <2>1, <2>2, <2>3, StatusKeepsLoop
<1>3. ASSUME NEW t \in Threads, Finally(t)
      PROVE LoopInv'
  BY <1>0, <1>3, FinallyKeepsLoop
<1>4. ASSUME NEW r \in Requests, StartThread(r) \/ StartRefused(r)
      PROVE LoopInv'
  <2>1. rp[r] \in Procs /\ rs[r] \in Strategies
    BY <1>0 DEF TypeOK
  <2>2. QED
    BY <1>0, <1>4, <2>1, BeginKeepsLoop, RefusedKeepsLoop DEF StartThread, StartRefused
<1>5. ASSUME NEW r \in Requests, Undo(r) \/ StopFinish(r)
      PROVE LoopInv'
  <2>1. UNCHANGED <<reg, pc, sid, proc, beside>> /\ (UNCHANGED told \/ Tell(rs[r]))
    BY <1>5 DEF Undo, StopFinish, StopWrites
  <2>2. rs[r] \in Strategies
    BY <1>0 DEF TypeOK
  <2>3. QED
    BY <1>0, <2>1, <2>2, StatusKeepsLoop DEF Live
<1>6. ASSUME NEW r \in Requests, NEW s \in Strategies, NEW p \in Procs, StartRequest(r, s, p)
      PROVE LoopInv'
  <2>1. UNCHANGED <<reg, pc, sid, proc, beside>>
    BY <1>6 DEF StartRequest
  <2>2. \A t \in Threads : told[t] # "never" => told'[t] # "never"
    BY <1>0, <1>6 DEF TypeOK, StartRequest
  <2>3. QED
    BY <1>0, <2>1, <2>2, QuietKeepsLoop DEF Live
<1>7. ASSUME NEW r \in Requests, NEW s \in Strategies, NEW p \in Procs, StopRequest(r, s, p)
      PROVE LoopInv'
  <2>1. UNCHANGED <<pc, sid, proc, beside>>
    BY <1>7 DEF StopRequest
  <2>2. CASE UNCHANGED <<reg, told>>
    BY <1>0, <2>1, <2>2, StatusKeepsLoop DEF Live
  <2>3. CASE Tell(s) /\ reg' = [reg EXCEPT ![p][s] = NoThread]
    <3>1. /\ \A t \in Threads : told[t] # "never" => told'[t] # "never"
          /\ \A t \in Threads : Live(t) /\ sid[t] = s => told'[t] = "stopped"
      BY <1>0, <2>3, TellKeepsTold
    <3>2. ASSUME NEW t \in Threads, Live(t)
          PROVE  \/ reg'[proc[t]][sid[t]] = reg[proc[t]][sid[t]]
                 \/ reg'[proc[t]][sid[t]] = NoThread /\ (told'[t] # "never" \/ beside[t])
      <4>1. CASE proc[t] = p /\ sid[t] = s
        BY <1>0, <2>3, <3>1, <3>2, <4>1 DEF TypeOK
      <4>2. CASE ~(proc[t] = p /\ sid[t] = s)
        BY <1>0, <2>3, <4>2 DEF TypeOK
      <4>3. QED
        BY <4>1, <4>2
    <3>3. QED
      BY <1>0, <2>1, <3>1, <3>2, QuietKeepsLoop DEF Live
  <2>4. QED
    BY <1>7, <2>2, <2>3 DEF StopRequest, StopWrites
<1>8. ASSUME NEW s \in Strategies, DeleteRequest(s)
      PROVE LoopInv'
  BY <1>0, <1>8, StatusKeepsLoop DEF DeleteRequest, Live
<1>9. ASSUME NEW p \in Procs, Boot(p) \/ BootDone(p)
      PROVE LoopInv'
  BY <1>0, <1>9, StatusKeepsLoop DEF Boot, BootDone, threads, Live
<1>10. ASSUME NEW p \in Procs, NEW s \in Strategies,
              RestoreStarts(p, s) \/ RestoreRefused(p, s) \/ RestoreMarks(p, s)
       PROVE LoopInv'
  <2>1. CASE RestoreStarts(p, s) \/ RestoreRefused(p, s)
    BY <1>0, <2>1, BeginKeepsLoop, RefusedKeepsLoop DEF RestoreStarts, RestoreRefused
  <2>2. CASE RestoreMarks(p, s)
    <3>1. UNCHANGED <<reg, pc, sid, proc, beside>> /\ (UNCHANGED told \/ Tell(s))
      BY <2>2 DEF RestoreMarks, StopWrites
    <3>2. QED
      BY <1>0, <3>1, StatusKeepsLoop DEF Live
  <2>3. QED
    BY <1>10, <2>1, <2>2
<1>11. ASSUME NEW p \in Procs, Crash(p)
       PROVE LoopInv'
  <2>1. \A t \in Threads : Live(t)' => Live(t) /\ proc[t] # p
    BY <1>0, <1>11 DEF TypeOK, Crash, Live
  <2>2. \A q \in Procs, s \in Strategies : q # p => reg'[q][s] = reg[q][s]
    BY <1>0, <1>11 DEF TypeOK, Crash
  <2>3. UNCHANGED <<sid, proc, told, beside>>
    BY <1>11 DEF Crash
  <2>4. \A t \in Threads : proc[t] \in Procs /\ sid[t] \in Strategies
    BY <1>0 DEF TypeOK
  <2>5. QED
    BY <1>0, <2>1, <2>2, <2>3, <2>4, QuietKeepsLoop
<1>12. CASE UNCHANGED vars
  BY <1>0, <1>12, StatusKeepsLoop DEF vars, threads, Live
<1>13. QED
  BY <1>1, <1>2, <1>3, <1>4, <1>5, <1>6, <1>7, <1>8, <1>9, <1>10, <1>11, <1>12
     DEF Next, ThreadStep, RequestStep, BootStep

\* A process runs one thread of a strategy, or one of two was started while a stopped
\* one was still there: for any users, processes, failed writes, crashes and restores.
THEOREM SingleLoop == Spec => []OneLoop
<1>1. Init => LoopInv
  BY InitRegistryInv DEF Init, LoopInv, OneLoop, Slotted, NewestHoldsSlot, Live
<1>2. LoopInv => OneLoop
  BY DEF LoopInv
<1>3. QED
  BY <1>1, <1>2, StepLoopInv, PTL DEF Spec

-----------------------------------------------------------------------------
(* Stops.                                                                  *)

\* A status write that is a stop.
StopMark(s) ==
    /\ Tell(s)
    /\ \E st \in {"stopped", "gone"} :
          db' = [db EXCEPT ![s] = IF @ = "gone" THEN "gone" ELSE st]

\* After such a write the row does not say running, and no thread has ticked yet.
LEMMA StopMarkKeepsStop ==
    ASSUME StopInv, NEW s \in Strategies, StopMark(s), UNCHANGED <<sid, seen>>,
           \A t \in Threads : Live(t)' => Live(t) /\ (pc'[t] = "lock" => pc[t] = "lock")
    PROVE  StoppedNotRunning' /\ LateOnce'
<1>0. TypeOK
  BY DEF StopInv, RegistryInv
<1>1. /\ db'[s] # "running" /\ \A x \in Strategies : x # s => db'[x] = db[x]
  BY <1>0 DEF StopMark, TypeOK
<1>2. ASSUME NEW t \in Threads, Live(t)', told'[t] = "stopped"
      PROVE  db'[sid[t]] # "running"
  BY <1>0, <1>1, <1>2 DEF StopMark, Tell, LiveOf, StopInv, StoppedNotRunning, TypeOK
<1>3. ASSUME NEW t \in Threads, Live(t)'
      PROVE  /\ told'[t] = "never" => late'[t] = 0
             /\ told'[t] = "stopped" /\ late'[t] > 0 =>
                   late'[t] = 1 /\ (pc'[t] = "lock" => ~seen[t])
  <2>1. CASE t \in LiveOf(s) /\ told[t] = "restarted"
    BY <1>0, <2>1 DEF StopMark, Tell, TypeOK
  <2>2. CASE ~(t \in LiveOf(s) /\ told[t] = "restarted")
    <3>1. late'[t] = late[t] /\ told[t] \in {"never", "stopped", "restarted"}
      BY <1>0, <2>2 DEF StopMark, Tell, TypeOK
    <3>2. told'[t] = told[t] \/ (told'[t] = "stopped" /\ told[t] # "restarted")
      BY <1>0, <2>2 DEF StopMark, Tell, TypeOK
    <3>3. /\ told[t] = "never" => late[t] = 0
          /\ told[t] = "stopped" /\ late[t] > 0 => late[t] = 1 /\ (pc[t] = "lock" => ~seen[t])
      BY <1>3 DEF StopInv, LateOnce
    <3>4. QED
      BY <1>0, <1>3, <3>1, <3>2, <3>3
  <2>3. QED
    BY <2>1, <2>2
<1>4. QED
  BY <1>2, <1>3 DEF StoppedNotRunning, LateOnce

\* The status write of stop_strategy, of an undo or of a repair, or its failure.
LEMMA StopWriteOrNot ==
    ASSUME TypeOK, NEW s \in Strategies,
           (StopWrites(s) /\ UNCHANGED faults) \/ (UNCHANGED <<db, told, late>> /\ Fault)
    PROVE  StopMark(s) \/ UNCHANGED <<db, told, late>>
  BY DEF StopWrites, SetStatus, StopMark, TypeOK

\* Steps that leave the status, what was told and the checks alone.
LEMMA QuietKeepsStop ==
    ASSUME StopInv, UNCHANGED <<db, sid>>,
           \A t \in Threads : Live(t)' =>
              /\ Live(t) /\ told'[t] = told[t] /\ late'[t] = late[t]
              /\ pc'[t] = "lock" => pc[t] = "lock" /\ seen'[t] = seen[t]
    PROVE  StoppedNotRunning' /\ LateOnce'
<1>1. StoppedNotRunning'
  BY DEF StopInv, StoppedNotRunning
<1>2. LateOnce'
  BY DEF StopInv, LateOnce
<1>3. QED
  BY <1>1, <1>2

\* A new thread was not told yet.
LEMMA BeginKeepsStop ==
    ASSUME StopInv, NEW p \in Procs, NEW s \in Strategies, NEW t \in Threads, Begin(p, s, t),
           db' = db
    PROVE  StoppedNotRunning' /\ LateOnce'
<1> USE DEF Begin, Launch
<1>1. TypeOK
  BY DEF StopInv, RegistryInv
<1>2. told'[t] = "never" /\ late'[t] = 0
  BY <1>1 DEF TypeOK
<1>3. \A u \in Threads : u # t =>
          /\ pc'[u] = pc[u] /\ sid'[u] = sid[u] /\ seen'[u] = seen[u]
          /\ told'[u] = told[u] /\ late'[u] = late[u]
  BY <1>1 DEF TypeOK
<1>4. StoppedNotRunning'
  BY <1>2, <1>3 DEF StopInv, StoppedNotRunning, Live
<1>5. LateOnce'
  BY <1>2, <1>3 DEF StopInv, LateOnce, Live
<1>6. QED
  BY <1>4, <1>5

\* Only a start marks the row running, and it knows the threads it may revive.
LEMMA StartKeepsStop ==
    ASSUME StopInv, NEW r \in Requests, NEW s \in Strategies, NEW p \in Procs,
           StartRequest(r, s, p)
    PROVE  StoppedNotRunning' /\ LateOnce'
<1>0. TypeOK
  BY DEF StopInv, RegistryInv
<1>1. UNCHANGED <<pc, sid, seen, late>>
  BY DEF StartRequest
<1>2. CASE UNCHANGED <<db, told>>
  BY <1>1, <1>2, QuietKeepsStop DEF Live
<1>3. CASE ~UNCHANGED <<db, told>>
  <2>1. /\ SetStatus(s, "running")
        /\ told' = [t \in Threads |-> IF t \in LiveOf(s) /\ told[t] = "stopped"
                                      THEN "restarted" ELSE told[t]]
    BY <1>3 DEF StartRequest
  <2>2. ASSUME NEW t \in Threads, Live(t)', told'[t] = "stopped"
        PROVE  told[t] = "stopped" /\ sid[t] # s /\ Live(t)
    BY <1>1, <2>1, <2>2 DEF LiveOf, Live
  <2>3. \A t \in Threads : told'[t] = "never" => told[t] = "never"
    BY <1>0, <2>1 DEF TypeOK
  <2>4. \A x \in Strategies : x # s => db'[x] = db[x]
    BY <1>0, <2>1 DEF SetStatus, TypeOK
  <2>5. StoppedNotRunning'
    BY <1>0, <1>1, <2>2, <2>4 DEF StopInv, StoppedNotRunning, TypeOK
  <2>6. LateOnce'
    BY <1>1, <2>2, <2>3 DEF StopInv, LateOnce, Live
  <2>7. QED
    BY <2>5, <2>6
<1>4. QED
  BY <1>2, <1>3

\* A stopped thread reads a row that does not say running.
LEMMA CheckKeepsStop ==
    ASSUME StopInv, NEW t \in Threads, ReadStatus(t) \/ TestThread(t)
    PROVE  StoppedNotRunning' /\ LateOnce'
<1>0. TypeOK
  BY DEF StopInv, RegistryInv
<1>1. UNCHANGED <<db, sid, told>> /\ \A u \in Threads : Live(u)' <=> Live(u)
  BY <1>0 DEF ReadStatus, TestThread, Goto, TypeOK, Live
<1>2. StoppedNotRunning'
  BY <1>1 DEF StopInv, StoppedNotRunning
<1>3. \A u \in Threads : u # t => pc'[u] = pc[u] /\ seen'[u] = seen[u] /\ late'[u] = late[u]
  BY <1>0 DEF ReadStatus, TestThread, Goto, TypeOK
<1>4. CASE ReadStatus(t)
  <2>1. late' = late /\ seen'[t] = (db[sid[t]] = "running")
    BY <1>0, <1>4 DEF ReadStatus, TypeOK
  <2>2. Live(t) /\ told[t] = "stopped" => ~seen'[t]
    BY <2>1 DEF StopInv, StoppedNotRunning
  <2>3. QED
    BY <1>1, <1>2, <1>3, <2>1, <2>2 DEF StopInv, LateOnce
<1>5. CASE TestThread(t)
  <2>1. pc[t] = "lock" /\ pc'[t] # "lock"
    BY <1>0, <1>5 DEF TestThread, Goto, TypeOK
  <2>2. \/ late'[t] = late[t]
        \/ late'[t] = late[t] + 1 /\ seen[t] /\ told[t] # "never"
    BY <1>0, <1>5 DEF TestThread, TypeOK
  <2>3. late[t] \in 0..2
    BY <1>0 DEF TypeOK
  <2>4. /\ told[t] = "never" => late'[t] = 0
        /\ told[t] = "stopped" /\ late'[t] > 0 => late'[t] = 1
    BY <2>1, <2>2, <2>3 DEF StopInv, LateOnce, Live
  <2>5. QED
    BY <1>1, <1>2, <1>3, <2>1, <2>4 DEF StopInv, LateOnce
<1>6. QED
  BY <1>4, <1>5

\* StopInv is inductive.
LEMMA StepStopInv == StopInv /\ [Next]_vars => StopInv'
<1> SUFFICES ASSUME StopInv, [Next]_vars
             PROVE  StoppedNotRunning' /\ LateOnce'
  BY StepRegistryInv DEF StopInv
<1>0. TypeOK
  BY DEF StopInv, RegistryInv
<1>1. ASSUME NEW t \in Threads,
             InitReady(t) \/ InitFails(t) \/ ReadFails(t) \/ Tick(t) \/ Finally(t)
      PROVE  StoppedNotRunning' /\ LateOnce'
  <2>1. UNCHANGED <<db, sid>>
    BY <1>1 DEF InitReady, InitFails, ReadFails, Tick, Finally
  <2>2. ASSUME NEW u \in Threads, Live(u)'
        PROVE  /\ Live(u) /\ told'[u] = told[u] /\ late'[u] = late[u]
               /\ pc'[u] = "lock" => pc[u] = "lock" /\ seen'[u] = seen[u]
    <3>1. CASE Finally(t)
      BY <1>0, <2>2, <3>1 DEF TypeOK, Live, Goto, Forget, Finally
    <3>2. CASE ~Finally(t)
      BY <1>0, <1>1, <2>2, <3>2
         DEF TypeOK, Live, Goto, InitReady, InitFails, ReadFails, Tick
    <3>3. QED
      BY <3>1, <3>2
  <2>3. QED
    BY <2>1, <2>2, QuietKeepsStop
<1>2. ASSUME NEW t \in Threads, ReadStatus(t) \/ TestThread(t)
      PROVE  StoppedNotRunning' /\ LateOnce'
  BY <1>2, CheckKeepsStop
<1>3. ASSUME NEW t \in Threads, FixStatus(t)
      PROVE  StoppedNotRunning' /\ LateOnce'
  <2>1. /\ UNCHANGED <<sid, seen>>
        /\ \A u \in Threads : Live(u)' => Live(u) /\ (pc'[u] = "lock" => pc[u] = "lock")
    BY <1>0, <1>3 DEF TypeOK, Live, Goto, FixStatus
  <2>2. sid[t] \in Strategies
    BY <1>0 DEF TypeOK
  <2>3. StopMark(sid[t]) \/ UNCHANGED <<db, told, late>>
    BY <1>0, <1>3, <2>2, StopWriteOrNot DEF FixStatus
  <2>4. QED
    BY <2>1, <2>2, <2>3, StopMarkKeepsStop, QuietKeepsStop
<1>4. ASSUME NEW r \in Requests, StartThread(r) \/ StartRefused(r)
      PROVE  StoppedNotRunning' /\ LateOnce'
  <2>1. rp[r] \in Procs /\ rs[r] \in Strategies
    BY <1>0 DEF TypeOK
  <2>2. CASE StartThread(r)
    BY <2>1, <2>2, BeginKeepsStop DEF StartThread
  <2>3. CASE StartRefused(r)
    BY <2>3, QuietKeepsStop DEF StartRefused, Refused, threads, Live
  <2>4. QED
    BY <1>4, <2>2, <2>3
<1>5. ASSUME NEW r \in Requests, Undo(r) \/ StopFinish(r)
      PROVE  StoppedNotRunning' /\ LateOnce'
  <2>1. UNCHANGED <<pc, sid, seen>>
    BY <1>5 DEF Undo, StopFinish
  <2>2. rs[r] \in Strategies
    BY <1>0 DEF TypeOK
  <2>3. StopMark(rs[r]) \/ UNCHANGED <<db, told, late>>
    <3>1. CASE db' = [db EXCEPT ![rs[r]] = "gone"] /\ Tell(rs[r])
      BY <1>0, <2>2, <3>1 DEF StopMark, TypeOK
    <3>2. CASE ~(db' = [db EXCEPT ![rs[r]] = "gone"] /\ Tell(rs[r]))
      BY <1>0, <1>5, <2>2, <3>2, StopWriteOrNot DEF Undo, StopFinish
    <3>3. QED
      BY <3>1, <3>2
  <2>4. QED
    BY <2>1, <2>2, <2>3, StopMarkKeepsStop, QuietKeepsStop DEF Live
<1>6. ASSUME NEW r \in Requests, NEW s \in Strategies, NEW p \in Procs,
             StartRequest(r, s, p) \/ StopRequest(r, s, p)
      PROVE  StoppedNotRunning' /\ LateOnce'
  <2>1. CASE StartRequest(r, s, p)
    BY <2>1, StartKeepsStop
  <2>2. CASE StopRequest(r, s, p)
    <3>1. UNCHANGED <<pc, sid, seen>>
      BY <2>2 DEF StopRequest
    <3>2. StopMark(s) \/ UNCHANGED <<db, told, late>>
      BY <1>0, <2>2, StopWriteOrNot DEF StopRequest
    <3>3. QED
      BY <3>1, <3>2, StopMarkKeepsStop, QuietKeepsStop DEF Live
  <2>3. QED
    BY <1>6, <2>1, <2>2
<1>7. ASSUME NEW s \in Strategies, DeleteRequest(s)
      PROVE  StoppedNotRunning' /\ LateOnce'
  <2>1. UNCHANGED <<pc, sid, seen>>
    BY <1>7 DEF DeleteRequest
  <2>2. StopMark(s)
    BY <1>0, <1>7 DEF DeleteRequest, StopMark, TypeOK
  <2>3. QED
    BY <2>1, <2>2, StopMarkKeepsStop DEF Live
<1>8. ASSUME NEW p \in Procs, Boot(p) \/ BootDone(p)
      PROVE  StoppedNotRunning' /\ LateOnce'
  BY <1>8, QuietKeepsStop DEF Boot, BootDone, threads, Live
<1>9. ASSUME NEW p \in Procs, NEW s \in Strategies,
             RestoreStarts(p, s) \/ RestoreRefused(p, s) \/ RestoreMarks(p, s)
      PROVE  StoppedNotRunning' /\ LateOnce'
  <2>1. CASE RestoreStarts(p, s)
    BY <2>1, BeginKeepsStop DEF RestoreStarts
  <2>2. CASE RestoreRefused(p, s)
    BY <2>2, QuietKeepsStop DEF RestoreRefused, Refused, threads, Live
  <2>3. CASE RestoreMarks(p, s)
    <3>1. UNCHANGED <<pc, sid, seen>>
      BY <2>3 DEF RestoreMarks
    <3>2. StopMark(s) \/ UNCHANGED <<db, told, late>>
      BY <1>0, <2>3, StopWriteOrNot DEF RestoreMarks
    <3>3. QED
      BY <3>1, <3>2, StopMarkKeepsStop, QuietKeepsStop DEF Live
  <2>4. QED
    BY <1>9, <2>1, <2>2, <2>3
<1>10. ASSUME NEW p \in Procs, Crash(p)
       PROVE  StoppedNotRunning' /\ LateOnce'
  <2>1. \A t \in Threads : Live(t)' => Live(t) /\ pc'[t] = pc[t]
    BY <1>0, <1>10 DEF TypeOK, Crash, Live
  <2>2. UNCHANGED <<db, sid, told, late, seen>>
    BY <1>10 DEF Crash
  <2>3. QED
    BY <2>1, <2>2, QuietKeepsStop
<1>11. CASE UNCHANGED vars
  BY <1>11, QuietKeepsStop DEF vars, threads, Live
<1>12. QED
  BY <1>1, <1>2, <1>3, <1>4, <1>5, <1>6, <1>7, <1>8, <1>9, <1>10, <1>11
     DEF Next, ThreadStep, RequestStep, BootStep

\* A stopped thread begins at most the tick it had decided on, as long as no start marks
\* the row running again: for any users, processes and failures.
THEOREM StopsAreObeyed == Spec => []StoppedThreadEnds
<1>1. Init => StopInv
  BY InitRegistryInv DEF Init, StopInv, StoppedNotRunning, LateOnce, Live
<1>2. ASSUME StopInv PROVE StoppedThreadEnds
  <2>1. \A t \in Threads : late[t] \in 0..2
    BY <1>2 DEF StopInv, RegistryInv, TypeOK
  <2>2. \A t \in Threads : Live(t) /\ told[t] = "stopped" /\ late[t] > 0 => late[t] = 1
    BY <1>2 DEF StopInv, LateOnce
  <2>3. QED
    BY <2>1, <2>2 DEF StoppedThreadEnds
<1>3. QED
  BY <1>1, <1>2, StepStopInv, PTL DEF Spec
=============================================================================
