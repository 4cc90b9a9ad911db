--------------------------- MODULE OrderLifecycle ---------------------------
(***************************************************************************)
(* What the pending order queue promises of its rows, without processes,   *)
(* clocks or failures: a row is queued once, is started at most            *)
(* MaxAttempts times, goes back to the queue only while it may be started  *)
(* again, and has one result, which its writer may take back only while it *)
(* is in doubt about it.  OrderQueue implements this when no dispatch      *)
(* outlasts the stale limit (theorem OrderQueueProofs!Implements and run   *)
(* queue_safety), and LiveOrder moves its row as it does                   *)
(* (LiveOrderProofs!RowMovesAsQueued).                                     *)
(***************************************************************************)
EXTENDS Naturals

CONSTANTS Orders, MaxAttempts

VARIABLES
    state,  \* [Orders -> state of the row]
    tries,  \* [Orders -> times the row was started]
    doubted \* rows whose "sent" is written and not known to its writer

vars == <<state, tries, doubted>>

Init ==
    /\ state = [o \in Orders |-> "absent"]
    /\ tries = [o \in Orders |-> 0]
    /\ doubted = {}

Queue(o) ==
    /\ state[o] = "absent"
    /\ state' = [state EXCEPT ![o] = "pending"]
    /\ UNCHANGED <<tries, doubted>>

Start(o) ==
    /\ state[o] = "pending" /\ tries[o] < MaxAttempts
    /\ state' = [state EXCEPT ![o] = "processing"]
    /\ tries' = [tries EXCEPT ![o] = @ + 1]
    /\ UNCHANGED doubted

\* Any set of interrupted rows that may be tried again goes back at once.
GiveBack ==
    \E S \in SUBSET {o \in Orders : state[o] = "processing" /\ tries[o] < MaxAttempts} :
        /\ state' = [o \in Orders |-> IF o \in S THEN "pending" ELSE state[o]]
        /\ UNCHANGED <<tries, doubted>>

Settle(o, result) ==
    /\ state[o] = "processing"
    /\ state' = [state EXCEPT ![o] = result]
    /\ \/ UNCHANGED doubted
       \/ result = "sent" /\ doubted' = doubted \cup {o}
    /\ UNCHANGED tries

\* The writer in doubt reports a failure ...
Retract(o) ==
    /\ o \in doubted
    /\ state' = [state EXCEPT ![o] = "failed"]
    /\ doubted' = doubted \ {o}
    /\ UNCHANGED tries

\* ... or never gets to it.
Forget(o) ==
    /\ o \in doubted
    /\ doubted' = doubted \ {o}
    /\ UNCHANGED <<state, tries>>

\* The user removes the row, even one being processed.
Remove(o) ==
    /\ state[o] # "absent"
    /\ state' = [state EXCEPT ![o] = "deleted"]
    /\ doubted' = doubted \ {o}
    /\ UNCHANGED tries

Next ==
    \/ GiveBack
    \/ \E o \in Orders : \/ Queue(o) \/ Start(o) \/ Remove(o) \/ Retract(o) \/ Forget(o)
                         \/ \E result \in {"sent", "failed"} : Settle(o, result)

Spec == Init /\ [][Next]_vars
=============================================================================
