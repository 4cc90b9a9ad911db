-------------------------- MODULE StrategyThreads ---------------------------
(***************************************************************************)
(* Strategy threads: TradingExecutor.start_strategy / stop_strategy, the   *)
(* control of _run_strategy_loop (not what a tick trades), the start, stop *)
(* and delete requests of routes/strategy.py, and the restore at boot.     *)
(*                                                                         *)
(* The status column of qd_strategies_trading and the running_strategies   *)
(* dictionary of each process are two records of one fact.  The dictionary *)
(* is guarded by a lock, the column by nothing, and a thread compares the  *)
(* two once per loop.                                                      *)
(***************************************************************************)
EXTENDS Naturals, FiniteSets

CONSTANTS
    Strategies, Threads, Procs, Requests,
    Scripts,        \* the strategies of type ScriptStrategy
    NoThread,
    MaxThreads,     \* STRATEGY_MAX_THREADS
    MaxFaults       \* bound on failed transactions and crashes

ASSUME ThreadsAssumption ==
    /\ Scripts \subseteq Strategies
    /\ NoThread \notin Threads
    /\ MaxThreads \in Nat /\ MaxFaults \in Nat

VARIABLES
    db,       \* [Strategies -> status column; "gone" once deleted]
    reg,      \* [Procs -> running_strategies]
    pc,       \* [Threads -> where the thread is; "free": not started or ended]
    sid,      \* [Threads -> the strategy it runs]
    proc,     \* [Threads -> the process it runs in]
    seen,     \* [Threads -> the status it read in this check was running]
    told,     \* [Threads -> the last mark of its row since it was stopped: "stopped",
              \*   or "restarted" by a start; "never" stopped in its life] (history)
    late,     \* [Threads -> ticks begun since the last stop, at most 2] (history)
    beside,   \* [Threads -> started while an older thread of its strategy lived in its
              \*   process, one that had been stopped or was such itself] (history)
    rpc,      \* [Requests -> the request's next step]
    rs, rp,   \* [Requests -> its strategy, the process that serves it]
    boot,     \* [Procs -> "down", "restoring" or "up"]
    todo,     \* [Procs -> strategies it has still to restore]
    unfixed,  \* [Procs -> strategies it failed to restore, still to be marked]
    faults

threads == <<pc, sid, proc, seen, told, late, beside>>
requests == <<rpc, rs, rp>>
booting == <<boot, todo, unfixed>>
vars == <<db, reg, threads, requests, booting, faults>>

PCs == {"free", "init", "check", "lock", "mismatch", "tick", "finally"}
RPCs == {"idle", "start", "batch", "undo", "stop", "stopDelete"}

TypeOK ==
    /\ db \in [Strategies -> {"stopped", "running", "gone"}]
    /\ reg \in [Procs -> [Strategies -> Threads \cup {NoThread}]]
    /\ pc \in [Threads -> PCs]
    /\ sid \in [Threads -> Strategies] /\ proc \in [Threads -> Procs]
    /\ seen \in [Threads -> BOOLEAN] /\ beside \in [Threads -> BOOLEAN]
    /\ told \in [Threads -> {"never", "stopped", "restarted"}]
    /\ late \in [Threads -> 0..2]
    /\ rpc \in [Requests -> RPCs]
    /\ rs \in [Requests -> Strategies] /\ rp \in [Requests -> Procs]
    /\ boot \in [Procs -> {"down", "restoring", "up"}]
    /\ todo \in [Procs -> SUBSET Strategies]
    /\ unfixed \in [Procs -> SUBSET Strategies]
    /\ faults \in 0..MaxFaults

\* The processes start with whatever the previous ones left in the table.
Init ==
    /\ db \in [Strategies -> {"stopped", "running"}]
    /\ reg = [p \in Procs |-> [s \in Strategies |-> NoThread]]
    /\ pc = [t \in Threads |-> "free"]
    /\ sid \in {[t \in Threads |-> s] : s \in Strategies}
    /\ proc \in {[t \in Threads |-> p] : p \in Procs}
    /\ seen = [t \in Threads |-> FALSE] /\ beside = [t \in Threads |-> FALSE]
    /\ told = [t \in Threads |-> "never"] /\ late = [t \in Threads |-> 0]
    /\ rpc = [r \in Requests |-> "idle"]
    /\ rs \in {[r \in Requests |-> s] : s \in Strategies}
    /\ rp \in {[r \in Requests |-> p] : p \in Procs}
    /\ boot = [p \in Procs |-> "down"]
    /\ todo = [p \in Procs |-> {}] /\ unfixed = [p \in Procs |-> {}]
    /\ faults = 0

Live(t) == pc[t] # "free"
LiveOf(s) == {t \in Threads : Live(t) /\ sid[t] = s}
Fault == faults < MaxFaults /\ faults' = faults + 1

\* UPDATE ... SET status WHERE id: no row, no effect.
SetStatus(s, st) == db' = [db EXCEPT ![s] = IF @ = "gone" THEN "gone" ELSE st]

-----------------------------------------------------------------------------
(* TradingExecutor, under its lock.                                        *)

\* Entries of ended threads are dropped first.
Registered(p) == {s \in Strategies : reg[p][s] # NoThread /\ Live(reg[p][s])}

MayRun(p, s) == Cardinality(Registered(p)) < MaxThreads /\ s \notin Registered(p)

\* t is a new thread of s in p.
Launch(p, s, t) ==
    /\ MayRun(p, s) /\ pc[t] = "free"
    /\ pc' = [pc EXCEPT ![t] = "init"]
    /\ sid' = [sid EXCEPT ![t] = s] /\ proc' = [proc EXCEPT ![t] = p]
    /\ seen' = [seen EXCEPT ![t] = FALSE]
    /\ told' = [told EXCEPT ![t] = "never"] /\ late' = [late EXCEPT ![t] = 0]
    /\ beside' = [beside EXCEPT ![t] =
          \E u \in LiveOf(s) : proc[u] = p /\ (told[u] # "never" \/ beside[u])]

\* Mutant: the thread is started but not put into running_strategies.
BeginUnregistered(p, s, t) ==
    /\ Launch(p, s, t)
    /\ reg' = [reg EXCEPT ![p] = [x \in Strategies |->
                  IF x \in Registered(p) THEN @[x] ELSE NoThread]]

\* start_strategy returns True.
Begin(p, s, t) ==
    /\ Launch(p, s, t)
    /\ reg' = [reg EXCEPT ![p] = [x \in Strategies |->
                  IF x = s THEN t ELSE IF x \in Registered(p) THEN @[x] ELSE NoThread]]

\* start_strategy returns False: already running, the limit, or thread.start()
\* raises, because no thread is left or for once (a fault).
Refused(p, s) ==
    /\ \/ /\ ~MayRun(p, s) \/ \A t \in Threads : Live(t)
          /\ UNCHANGED faults
       \/ MayRun(p, s) /\ Fault
    /\ reg' = [reg EXCEPT ![p] = [x \in Strategies |->
                  IF x \in Registered(p) THEN @[x] ELSE NoThread]]
    /\ UNCHANGED threads

\* Every thread of s has now been told to end.
Tell(s) ==
    /\ told' = [t \in Threads |-> IF t \in LiveOf(s) THEN "stopped" ELSE told[t]]
    /\ late' = [t \in Threads |-> IF t \in LiveOf(s) /\ told[t] = "restarted" THEN 0
                                  ELSE late[t]]

-----------------------------------------------------------------------------
(* Requests.                                                               *)

\* start_strategy and batch_start_strategies mark the row first; an error of
\* that UPDATE is swallowed.
StartRequest(r, s, p) ==
    /\ rpc[r] = "idle" /\ boot[p] = "up" /\ db[s] # "gone"
    /\ \E op \in {"start", "batch"} : rpc' = [rpc EXCEPT ![r] = op]
    /\ rs' = [rs EXCEPT ![r] = s] /\ rp' = [rp EXCEPT ![r] = p]
    /\ \/ /\ SetStatus(s, "running")
          /\ told' = [t \in Threads |-> IF t \in LiveOf(s) /\ told[t] = "stopped"
                                        THEN "restarted" ELSE told[t]]
          /\ UNCHANGED faults
       \/ UNCHANGED <<db, told>> /\ Fault
    /\ UNCHANGED <<reg, pc, sid, proc, seen, late, beside, booting>>

StartThread(r) ==
    /\ rpc[r] \in {"start", "batch"}
    /\ rpc' = [rpc EXCEPT ![r] = "idle"]
    /\ \E t \in Threads : Begin(rp[r], rs[r], t)
    /\ UNCHANGED <<db, rs, rp, booting, faults>>

\* Only the single start writes the status back, and always as "stopped".
StartRefused(r) ==
    /\ rpc[r] \in {"start", "batch"}
    /\ rpc' = [rpc EXCEPT ![r] = IF @ = "start" THEN "undo" ELSE "idle"]
    /\ Refused(rp[r], rs[r])
    /\ UNCHANGED <<db, rs, rp, booting>>

StopWrites(s) == SetStatus(s, "stopped") /\ Tell(s)

Undo(r) ==
    /\ rpc[r] = "undo"
    /\ rpc' = [rpc EXCEPT ![r] = "idle"]
    /\ \/ StopWrites(rs[r]) /\ UNCHANGED faults
       \/ UNCHANGED <<db, told, late>> /\ Fault
    /\ UNCHANGED <<reg, pc, sid, proc, seen, beside, rs, rp, booting>>

\* stop_strategy: in the lock, status first, then the registry; its error is
\* swallowed and leaves the entry in place.
StopRequest(r, s, p) ==
    /\ rpc[r] = "idle" /\ boot[p] = "up" /\ db[s] # "gone"
    /\ \E op \in {"stop", "stopDelete"} : rpc' = [rpc EXCEPT ![r] = op]
    /\ rs' = [rs EXCEPT ![r] = s] /\ rp' = [rp EXCEPT ![r] = p]
    /\ \/ /\ reg[p][s] # NoThread
          /\ StopWrites(s)
          /\ reg' = [reg EXCEPT ![p][s] = NoThread]
          /\ UNCHANGED faults
       \/ reg[p][s] = NoThread /\ UNCHANGED <<db, reg, told, late, faults>>
       \/ reg[p][s] # NoThread /\ UNCHANGED <<db, reg, told, late>> /\ Fault
    /\ UNCHANGED <<pc, sid, proc, seen, beside, booting>>

\* The route then writes the status once more, or deletes the row.
StopFinish(r) ==
    /\ rpc[r] \in {"stop", "stopDelete"}
    /\ rpc' = [rpc EXCEPT ![r] = "idle"]
    /\ \/ rpc[r] = "stop" /\ StopWrites(rs[r]) /\ UNCHANGED faults
       \/ rpc[r] = "stopDelete" /\ db' = [db EXCEPT ![rs[r]] = "gone"]
          /\ Tell(rs[r]) /\ UNCHANGED faults
       \/ UNCHANGED <<db, told, late>> /\ Fault
    /\ UNCHANGED <<reg, pc, sid, proc, seen, beside, rs, rp, booting>>

\* DELETE /strategies/delete does not stop anything.
DeleteRequest(s) ==
    /\ db[s] # "gone" /\ \E p \in Procs : boot[p] = "up"
    /\ db' = [db EXCEPT ![s] = "gone"]
    /\ Tell(s)
    /\ UNCHANGED <<reg, pc, sid, proc, seen, beside, requests, booting, faults>>

-----------------------------------------------------------------------------
(* _run_strategy_loop.                                                     *)

Goto(t, l) == pc' = [pc EXCEPT ![t] = l]

InitReady(t) ==
    /\ pc[t] = "init" /\ Goto(t, "check")
    /\ UNCHANGED <<db, reg, sid, proc, seen, told, late, beside, requests, booting, faults>>

\* A configuration error, no K-lines, a failing indicator: return.
InitFails(t) ==
    /\ pc[t] = "init" /\ Goto(t, "finally")
    /\ UNCHANGED <<db, reg, sid, proc, seen, told, late, beside, requests, booting, faults>>

\* _is_strategy_running: the status is read in a transaction of its own ...
ReadStatus(t) ==
    /\ pc[t] = "check" /\ Goto(t, "lock")
    /\ seen' = [seen EXCEPT ![t] = db[sid[t]] = "running"]
    /\ UNCHANGED <<db, reg, sid, proc, told, late, beside, requests, booting, faults>>

\* (an error counts as "not running")
ReadFails(t) ==
    /\ pc[t] = "check" /\ Fault /\ Goto(t, "finally")
    /\ UNCHANGED <<db, reg, sid, proc, seen, told, late, beside, requests, booting>>

\* ... then, under the lock, whether some thread is registered and alive.
TestThread(t) ==
    LET running == sid[t] \in Registered(proc[t]) IN
    /\ pc[t] = "lock"
    /\ Goto(t, IF ~seen[t] THEN "finally" ELSE IF running THEN "tick" ELSE "mismatch")
    /\ late' = [late EXCEPT ![t] = IF seen[t] /\ running /\ told[t] # "never" /\ @ < 2
                                 THEN @ + 1 ELSE @]
    /\ UNCHANGED <<db, reg, sid, proc, seen, told, beside, requests, booting, faults>>

\* "DB=running but thread not running. Updating DB status to stopped."
FixStatus(t) ==
    /\ pc[t] = "mismatch" /\ Goto(t, "finally")
    /\ \/ StopWrites(sid[t]) /\ UNCHANGED faults
       \/ UNCHANGED <<db, told, late>> /\ Fault
    /\ UNCHANGED <<reg, sid, proc, seen, beside, requests, booting>>

\* Mutant: the loop sleeps and goes on without asking the table again.
TickUnchecked(t) ==
    /\ pc[t] = "tick" /\ Goto(t, "lock")
    /\ UNCHANGED <<db, reg, sid, proc, seen, told, late, beside, requests, booting, faults>>

\* Errors of a tick are caught inside the loop.
Tick(t) ==
    /\ pc[t] = "tick" /\ Goto(t, "check")
    /\ UNCHANGED <<db, reg, sid, proc, seen, told, late, beside, requests, booting, faults>>

\* An ended thread has no history.
Forget(t) ==
    /\ seen' = [seen EXCEPT ![t] = FALSE] /\ beside' = [beside EXCEPT ![t] = FALSE]
    /\ told' = [told EXCEPT ![t] = "never"] /\ late' = [late EXCEPT ![t] = 0]

\* Mutant: the thread ends without the finally clause.
EndSilently(t) ==
    /\ pc[t] = "finally" /\ Goto(t, "free")
    /\ Forget(t)
    /\ UNCHANGED <<db, reg, sid, proc, requests, booting, faults>>

\* finally: the strategy's entry is deleted, whoever's thread it names.
Finally(t) ==
    /\ pc[t] = "finally" /\ Goto(t, "free")
    /\ reg' = [reg EXCEPT ![proc[t]][sid[t]] = NoThread]
    /\ Forget(t)
    /\ UNCHANGED <<db, sid, proc, requests, booting, faults>>

-----------------------------------------------------------------------------
(* Processes: create_app and restore_running_strategies.                   *)

\* Script strategies are passed over.
Boot(p) ==
    /\ boot[p] = "down"
    /\ boot' = [boot EXCEPT ![p] = "restoring"]
    /\ todo' = [todo EXCEPT ![p] = {s \in Strategies \ Scripts : db[s] = "running"}]
    /\ UNCHANGED <<db, reg, threads, requests, unfixed, faults>>

Restoring(p, s) == boot[p] = "restoring" /\ unfixed[p] = {} /\ s \in todo[p]

RestoreStarts(p, s) ==
    /\ Restoring(p, s)
    /\ \E t \in Threads : Begin(p, s, t)
    /\ todo' = [todo EXCEPT ![p] = @ \ {s}]
    /\ UNCHANGED <<db, requests, boot, unfixed, faults>>

RestoreRefused(p, s) ==
    /\ Restoring(p, s)
    /\ Refused(p, s)
    /\ todo' = [todo EXCEPT ![p] = @ \ {s}]
    /\ unfixed' = [unfixed EXCEPT ![p] = {s}]
    /\ UNCHANGED <<db, requests, boot>>

RestoreMarks(p, s) ==
    /\ boot[p] = "restoring" /\ s \in unfixed[p]
    /\ unfixed' = [unfixed EXCEPT ![p] = {}]
    /\ \/ StopWrites(s) /\ UNCHANGED faults
       \/ UNCHANGED <<db, told, late>> /\ Fault
    /\ UNCHANGED <<reg, pc, sid, proc, seen, beside, requests, boot, todo>>

BootDone(p) ==
    /\ boot[p] = "restoring" /\ todo[p] = {} /\ unfixed[p] = {}
    /\ boot' = [boot EXCEPT ![p] = "up"]
    /\ UNCHANGED <<db, reg, threads, requests, todo, unfixed, faults>>

Crash(p) ==
    /\ boot[p] # "down" /\ Fault
    /\ boot' = [boot EXCEPT ![p] = "down"]
    /\ todo' = [todo EXCEPT ![p] = {}] /\ unfixed' = [unfixed EXCEPT ![p] = {}]
    /\ reg' = [reg EXCEPT ![p] = [s \in Strategies |-> NoThread]]
    /\ pc' = [t \in Threads |-> IF proc[t] = p THEN "free" ELSE pc[t]]
    /\ rpc' = [r \in Requests |-> IF rp[r] = p THEN "idle" ELSE rpc[r]]
    /\ UNCHANGED <<db, sid, proc, seen, told, late, beside, rs, rp>>

-----------------------------------------------------------------------------
ThreadStep(t) ==
    \/ InitReady(t) \/ InitFails(t) \/ ReadStatus(t) \/ ReadFails(t)
    \/ TestThread(t) \/ FixStatus(t) \/ Tick(t) \/ Finally(t)

RequestStep(r) == StartThread(r) \/ StartRefused(r) \/ Undo(r) \/ StopFinish(r)

BootStep(p) ==
    \/ Boot(p) \/ BootDone(p)
    \/ \E s \in Strategies :
          RestoreStarts(p, s) \/ RestoreRefused(p, s) \/ RestoreMarks(p, s)

Next ==
    \/ \E t \in Threads : ThreadStep(t)
    \/ \E r \in Requests : RequestStep(r)
    \/ \E r \in Requests, s \in Strategies, p \in Procs :
          StartRequest(r, s, p) \/ StopRequest(r, s, p)
    \/ \E s \in Strategies : DeleteRequest(s)
    \/ \E p \in Procs : BootStep(p) \/ Crash(p)

Spec == Init /\ [][Next]_vars

\* Threads, request handlers and a booting process keep running; nobody has
\* to press a button.
Fairness ==
    /\ \A t \in Threads : WF_vars(ThreadStep(t))
    /\ \A r \in Requests : WF_vars(RequestStep(r))
    /\ \A p \in Procs : WF_vars(BootStep(p))

FairSpec == Spec /\ Fairness

-----------------------------------------------------------------------------
(* Safety.                                                                 *)

\* The slot of a strategy is held by a live thread of that strategy and
\* process or is free, although any thread may delete the entry of another:
\* a strategy whose thread has ended can be started again.
NoDeadOwner ==
    \A p \in Procs, s \in Strategies : reg[p][s] # NoThread =>
        Live(reg[p][s]) /\ sid[reg[p][s]] = s /\ proc[reg[p][s]] = p

\* "The thread will exit at its next status check": a stopped thread begins at most
\* the one tick it had already decided on.
NextCheckEnds == \A t \in Threads : Live(t) => late[t] <= 1

\* It does, as long as no start has marked the row running again: whoever wrote the
\* stop, and whosever registration the thread finds.
StoppedThreadEnds == \A t \in Threads : Live(t) /\ told[t] = "stopped" => late[t] <= 1

\* "avoid duplicate strategy threads": a process runs one thread of a strategy, unless
\* one was started while a stopped one had not yet ended.  Double starts, refused
\* starts and their undo, failed writes, restores and crashes never make it two.
OneLoop == \A t, u \in Threads :
    Live(t) /\ Live(u) /\ sid[t] = sid[u] /\ proc[t] = proc[u] =>
        t = u \/ beside[t] \/ beside[u]

(* Liveness.                                                               *)

\* Once a strategy stays stopped or deleted, all its threads end, in every
\* process and after every race of starts and stops before that.
StopStops == \A s \in Strategies :
    <>[](db[s] # "running") => <>[](LiveOf(s) = {})

(* Inductive invariants behind the safety properties (module               *)
(* StrategyThreadsProofs).                                                 *)

RegistryInv == TypeOK /\ NoDeadOwner

\* A live thread has its slot, or it was told to end, or it was started beside one
\* that was.
Slotted == \A t \in Threads : Live(t) =>
    reg[proc[t]][sid[t]] = t \/ told[t] # "never" \/ beside[t]

\* The slot belongs to the thread started last.
NewestHoldsSlot == \A t, u \in Threads :
    Live(t) /\ Live(u) /\ sid[t] = sid[u] /\ proc[t] = proc[u] /\ t # u
        /\ reg[proc[u]][sid[u]] = u => beside[u]

LoopInv == RegistryInv /\ OneLoop /\ Slotted /\ NewestHoldsSlot

\* As long as the last mark was a stop, the row does not say running.
StoppedNotRunning ==
    \A t \in Threads : Live(t) /\ told[t] = "stopped" => db[sid[t]] # "running"

\* After its last tick a stopped thread sees the stop.
LateOnce == \A t \in Threads : Live(t) =>
    /\ told[t] = "never" => late[t] = 0
    /\ told[t] = "stopped" /\ late[t] > 0 =>
          late[t] = 1 /\ (pc[t] = "lock" => ~seen[t])

StopInv == RegistryInv /\ StoppedNotRunning /\ LateOnce
=============================================================================
