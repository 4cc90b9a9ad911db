---------------------------- MODULE AnalysisTask ----------------------------
(***************************************************************************)
(* Paid analyses of one symbol and timeframe by one user                   *)
(* (routes/fast_analysis.py, services/analysis_memory.py): a guard in      *)
(* memory keeps repeated clicks apart, the analysis is charged in advance  *)
(* and refunded when it fails.  A request waits for its analysis, or       *)
(* submits it: it records a task, and a thread of its own runs the         *)
(* analysis and settles the task.                                          *)
(*                                                                         *)
(* Charges and refunds are transactions of the billing service (module     *)
(* Credits); here they succeed or fail, and the balance may be too small   *)
(* at any time.  analyze-legacy has the control of a waiting request.      *)
(***************************************************************************)
EXTENDS Integers

CONSTANTS
    Clicks,        \* bound: clicks of the user on the same symbol and timeframe
    MaxTaskFaults  \* bound: failing writes, threads that do not start, restarts

\* Requests are numbered in the order of the clicks.
Requests == 1..Clicks
Nobody == 0

VARIABLES
    step,       \* what is next for a request, or for the thread it started
    mode,       \* "wait" or "submit"
    guard,      \* the key's entry in _analysis_inflight; whose it is, is history
    task,       \* task_status of the row of create_pending_task
    stored,     \* the row analyze() stores itself exists
    failed,     \* the analysis ended with an error ("error") or raised ("raise")
    paid,       \* credits taken for it and not given back
    answered,   \* the request was answered with the result
    taskFaults

\* History: requests whose entry was removed before they were done, and requests
\* spoilt by a fault after the charge.
VARIABLES loosened, spoilt

taskVars == <<step, mode, guard, task, stored, failed, paid, answered, taskFaults,
              loosened, spoilt>>

TaskInit ==
    /\ step = [r \in Requests |-> "idle"] /\ mode = [r \in Requests |-> "wait"]
    /\ guard = Nobody
    /\ task = [r \in Requests |-> "none"] /\ stored = [r \in Requests |-> FALSE]
    /\ failed = [r \in Requests |-> "no"]
    /\ paid = [r \in Requests |-> 0] /\ answered = [r \in Requests |-> FALSE]
    /\ taskFaults = 0
    /\ loosened = {} /\ spoilt = {}

Forward(r, next) == step' = [step EXCEPT ![r] = next]

TaskFault == taskFaults < MaxTaskFaults /\ taskFaults' = taskFaults + 1

\* A fault after the charge.
Spoils(r) == TaskFault /\ spoilt' = spoilt \cup {r}
Smooth == UNCHANGED <<taskFaults, spoilt>>

-----------------------------------------------------------------------------
(* The guard                                                               *)

\* Mutant: the guard is consulted for submitted analyses only.
ClickUnguarded(r) ==
    /\ step[r] = "idle" /\ \A q \in 1..(r - 1) : step[q] # "idle"
    /\ \E m \in {"wait", "submit"} :
        /\ mode' = [mode EXCEPT ![r] = m]
        /\ IF guard = Nobody \/ m = "wait" THEN guard' = r /\ Forward(r, "charge")
           ELSE Forward(r, "leave") /\ UNCHANGED guard
    /\ UNCHANGED <<task, stored, failed, paid, answered, taskFaults, loosened, spoilt>>

\* _acquire_inflight; a refused request still passes through its finally clause.
Click(r) ==
    /\ step[r] = "idle" /\ \A q \in 1..(r - 1) : step[q] # "idle"
    /\ \E m \in {"wait", "submit"} : mode' = [mode EXCEPT ![r] = m]
    /\ IF guard = Nobody THEN guard' = r /\ Forward(r, "charge")
       ELSE Forward(r, "leave") /\ UNCHANGED guard
    /\ UNCHANGED <<task, stored, failed, paid, answered, taskFaults, loosened, spoilt>>

\* The entry's 90 seconds are over: it no longer stops anybody.
Expire ==
    /\ guard # Nobody
    /\ loosened' = loosened \cup {guard}
    /\ guard' = Nobody
    /\ UNCHANGED <<step, mode, task, stored, failed, paid, answered, taskFaults, spoilt>>

\* _release_inflight in the finally clause of the request, or of its thread: it
\* removes the key's entry, whoever made it.
Leave(r) ==
    /\ step[r] = "leave"
    /\ loosened' = loosened \cup ({guard} \ {Nobody, r})
    /\ guard' = Nobody
    /\ Forward(r, "done")
    /\ mode' = [mode EXCEPT ![r] = "wait"] /\ failed' = [failed EXCEPT ![r] = "no"]
    /\ UNCHANGED <<task, stored, paid, answered, taskFaults, spoilt>>

-----------------------------------------------------------------------------
(* The analysis                                                            *)

\* check_and_consume; without credits, or when it fails, the request ends.
Charge(r) ==
    /\ step[r] = "charge"
    /\ \/ /\ paid' = [paid EXCEPT ![r] = @ + 1]
          /\ Forward(r, IF mode[r] = "submit" THEN "submit" ELSE "run")
          /\ UNCHANGED taskFaults
       \/ Forward(r, "leave") /\ UNCHANGED <<paid, taskFaults>>
    /\ UNCHANGED <<mode, guard, task, stored, failed, answered, loosened, spoilt>>

\* create_pending_task and the start of the thread.  Without a task the request
\* ends in error and keeps the charge; without a thread it is refunded and the
\* task remains.
Submit(r) ==
    /\ step[r] = "submit"
    /\ \/ /\ task' = [task EXCEPT ![r] = "processing"]
          /\ Forward(r, "run") /\ Smooth /\ UNCHANGED mode
       \/ Spoils(r) /\ Forward(r, "leave") /\ UNCHANGED <<task, mode>>
       \/ /\ Spoils(r)
          /\ task' = [task EXCEPT ![r] = "processing"]
          /\ mode' = [mode EXCEPT ![r] = "wait"]
          /\ Forward(r, "refund")
    /\ UNCHANGED <<guard, stored, failed, paid, answered, loosened>>

\* analyze() returns a result, which it has stored if it could, or an error, or it
\* raises.
Run(r) ==
    /\ step[r] = "run"
    /\ \/ /\ \/ stored' = [stored EXCEPT ![r] = TRUE] /\ UNCHANGED taskFaults
             \/ TaskFault /\ UNCHANGED stored
          /\ answered' = [answered EXCEPT ![r] = mode[r] = "wait"]
          /\ Forward(r, IF mode[r] = "submit" THEN "finalize" ELSE "leave")
          /\ UNCHANGED failed
       \/ /\ failed' = [failed EXCEPT ![r] = "error"]
          /\ Forward(r, IF mode[r] = "submit" THEN "finalize" ELSE "refund")
          /\ UNCHANGED <<stored, answered, taskFaults>>
       \/ /\ failed' = [failed EXCEPT ![r] = "raise"]
          /\ Forward(r, "refund")
          /\ UNCHANGED <<stored, answered, taskFaults>>
    /\ UNCHANGED <<mode, guard, task, paid, loosened, spoilt>>

\* finalize_pending_task writes the result or the error over the task; that it
\* could not is not noticed.
Finalize(r) ==
    /\ step[r] = "finalize"
    /\ \/ /\ Smooth
          /\ task' = [task EXCEPT ![r] = IF failed[r] = "no" THEN "completed" ELSE "failed"]
       \/ Spoils(r) /\ UNCHANGED task
    /\ Forward(r, IF failed[r] # "no" THEN "refund" ELSE IF stored[r] THEN "tidy" ELSE "leave")
    /\ UNCHANGED <<mode, guard, stored, failed, paid, answered, loosened>>

\* Mutant: the thread leaves the refund to the request.
RefundWaiting(r) ==
    /\ step[r] = "refund"
    /\ \/ /\ Smooth
          /\ paid' = [paid EXCEPT ![r] = IF mode[r] = "wait" THEN @ - 1 ELSE @]
       \/ Spoils(r) /\ UNCHANGED paid
    /\ Forward(r, IF mode[r] = "submit" /\ failed[r] = "raise" THEN "mark" ELSE "leave")
    /\ UNCHANGED <<mode, guard, task, stored, failed, answered, loosened>>

\* The refund is tried once.
Refund(r) ==
    /\ step[r] = "refund"
    /\ \/ Smooth /\ paid' = [paid EXCEPT ![r] = @ - 1]
       \/ Spoils(r) /\ UNCHANGED paid
    /\ Forward(r, IF mode[r] = "submit" /\ failed[r] = "raise" THEN "mark" ELSE "leave")
    /\ UNCHANGED <<mode, guard, task, stored, failed, answered, loosened>>

\* fail_pending_task, after an exception in the thread.
Mark(r) ==
    /\ step[r] = "mark"
    /\ \/ Smooth /\ task' = [task EXCEPT ![r] = "failed"]
       \/ Spoils(r) /\ UNCHANGED task
    /\ Forward(r, "leave")
    /\ UNCHANGED <<mode, guard, stored, failed, paid, answered, loosened>>

\* The row analyze() stored is removed, the result being in the task's row.
Tidy(r) ==
    /\ step[r] = "tidy"
    /\ \/ stored' = [stored EXCEPT ![r] = FALSE] /\ UNCHANGED taskFaults
       \/ TaskFault /\ UNCHANGED stored
    /\ Forward(r, "leave")
    /\ UNCHANGED <<mode, guard, task, failed, paid, answered, loosened, spoilt>>

\* Requests and threads end with their process, and the guard's memory too.
Restart ==
    LET busy == {r \in Requests : step[r] \notin {"idle", "done"}} IN
    /\ busy # {} /\ TaskFault
    /\ step' = [r \in Requests |-> IF r \in busy THEN "done" ELSE step[r]]
    /\ spoilt' = spoilt \cup busy
    /\ guard' = Nobody
    /\ mode' = [r \in Requests |-> "wait"] /\ failed' = [r \in Requests |-> "no"]
    /\ UNCHANGED <<task, stored, paid, answered, loosened>>

TaskNext ==
    \/ \E r \in Requests :
        \/ Click(r) \/ Charge(r) \/ Submit(r) \/ Run(r) \/ Finalize(r)
        \/ Refund(r) \/ Mark(r) \/ Tidy(r) \/ Leave(r)
    \/ Expire \/ Restart

-----------------------------------------------------------------------------
(* Properties                                                              *)

Inside(r) == step[r] \notin {"idle", "leave", "done"}

\* Two analyses of the same symbol are in progress at once only if the entry of one
\* of them was removed while it ran: by its 90 seconds, or by the finally clause of
\* another request, be it one that was refused.
GuardHolds ==
    \A r, s \in Requests : Inside(r) /\ Inside(s) /\ r # s => {r, s} \cap loosened # {}

Served(r) == answered[r] \/ task[r] = "completed"

\* Whoever paid got the analysis and whoever did not pay did not, on every way
\* through waiting and submitted requests, and nothing is refunded twice; a task is
\* settled.  Only a failing write or a restart after the charge breaks this.
PaidIffServed ==
    \A r \in Requests :
        /\ paid[r] \in {0, 1}
        /\ step[r] = "done" /\ r \notin spoilt =>
              (paid[r] = 1 <=> Served(r)) /\ task[r] # "processing"
=============================================================================
