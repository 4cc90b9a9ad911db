-------------------------- MODULE PortfolioMonitor --------------------------
(***************************************************************************)
(* Scheduled analyses of a user's positions (portfolio_monitor.py and the  *)
(* monitor routes of portfolio.py).  A background loop looks up the        *)
(* monitors that are due and runs them one by one; a user may run one at   *)
(* any time in a thread of its own, as creating one does.  A run checks    *)
(* the balance for all its positions, charges them one by one, analyses    *)
(* them and then sets next_run_at.                                         *)
(*                                                                         *)
(* Of the times only the order in which monitors became due is kept.  A    *)
(* charge is one step (its transactions are in module Credits).            *)
(***************************************************************************)
EXTENDS Integers, Sequences, FiniteSets, SequencesExt

CONSTANTS
    Monitors,          \* monitors of one user
    Positions,         \* positions of each monitor, at one credit each
    LookLimit,         \* rows of one look (LIMIT 20)
    MaxCredits,        \* bound on the balance
    MaxEdits,          \* bound on the user's changes to monitors
    MaxMonitorFaults   \* bound on failing reads, charges and updates and on restarts

VARIABLES
    due,       \* monitors whose next_run_at has passed, in its order
    paused,    \* monitors with is_active = 0
    watched,   \* monitors whose positions, or whose watchlist entry, still exist
    batch,     \* the loop's rows still to run
    run,       \* by runner: the monitor, the next step, the charges made
    credits,   \* the user's balance
    edits, monitorFaults

\* History: how many runs of the loop charged a monitor since it became due, those
\* interrupted after a charge, the runs whose balance was spent by others since their
\* check or whose charge failed, and the monitors the loop last left as they were.
VARIABLES billed, interrupted, short, refused

monitorVars == <<due, paused, watched, batch, run, credits, edits, monitorFaults,
                 billed, interrupted, short, refused>>

history == <<billed, interrupted, short, refused>>

Runners == {"loop", "now"}
NoMonitor == "none"
NoRun == [of |-> NoMonitor, step |-> "idle", spent |-> 0]

MonitorInit ==
    /\ due = <<>> /\ paused = {} /\ watched \in SUBSET Monitors
    /\ batch = <<>> /\ run = [k \in Runners |-> NoRun]
    /\ credits \in 0..MaxCredits
    /\ edits = 0 /\ monitorFaults = 0
    /\ billed = [m \in Monitors |-> 0] /\ interrupted = {} /\ short = {} /\ refused = {}

MonitorFault == monitorFaults < MaxMonitorFaults /\ monitorFaults' = monitorFaults + 1
Edit == edits < MaxEdits /\ edits' = edits + 1

\* A monitor is due once.
Without(s, m) ==
    IF m \in ToSet(s) THEN RemoveAt(s, CHOOSE i \in DOMAIN s : s[i] = m) ELSE s

-----------------------------------------------------------------------------
(* The schedule                                                            *)

\* next_run_at passes.
Tick(m) ==
    /\ m \notin ToSet(due)
    /\ due' = Append(due, m)
    /\ billed' = [billed EXCEPT ![m] = 0]
    /\ interrupted' = interrupted \ {m}
    /\ UNCHANGED <<paused, watched, batch, run, credits, edits, monitorFaults, short, refused>>

Reschedules(m) == due' = Without(due, m) /\ refused' = refused \ {m}

\* A change of the configuration sets next_run_at anew.
Reconfigure(m) ==
    /\ m \in ToSet(due) /\ Edit
    /\ Reschedules(m)
    /\ UNCHANGED <<paused, watched, batch, run, credits, monitorFaults,
                   billed, interrupted, short>>

Pause(m) ==
    /\ Edit
    /\ paused' = IF m \in paused THEN paused \ {m} ELSE paused \cup {m}
    /\ UNCHANGED <<due, watched, batch, run, credits, monitorFaults, history>>

\* Positions or watchlist entries come and go.
Watch(m) ==
    /\ Edit
    /\ watched' = IF m \in watched THEN watched \ {m} ELSE watched \cup {m}
    /\ UNCHANGED <<due, paused, batch, run, credits, monitorFaults, history>>

-----------------------------------------------------------------------------
(* The loop and the user's runs                                            *)

First(s) == SubSeq(s, 1, IF Len(s) < LookLimit THEN Len(s) ELSE LookLimit)

Active(s) ==
    LET upTo[i \in 0..Len(s)] ==
            IF i = 0 THEN <<>>
            ELSE IF s[i] \in paused THEN upTo[i - 1] ELSE Append(upTo[i - 1], s[i])
    IN  upTo[Len(s)]

\* Mutant: the newest first.
SelectedNewest == First(Active(Reverse(due)))

\* The rows of one look: the oldest active ones.
Selected == First(Active(due))

Look ==
    /\ run["loop"].step = "idle" /\ batch = <<>> /\ Selected # <<>>
    /\ batch' = Selected
    /\ UNCHANGED <<due, paused, watched, run, credits, edits, monitorFaults, history>>

Starts(k, m) == run' = [run EXCEPT ![k] = [NoRun EXCEPT !.of = m, !.step = "check"]]
Ends(k) == run' = [run EXCEPT ![k] = NoRun] /\ short' = short \ {k}

\* The loop runs the rows of its look, due or not by now.
Take ==
    /\ run["loop"].step = "idle" /\ batch # <<>>
    /\ Starts("loop", Head(batch))
    /\ batch' = Tail(batch)
    /\ UNCHANGED <<due, paused, watched, credits, edits, monitorFaults, history>>

RunNow(m) ==
    /\ run["now"].step = "idle"
    /\ Starts("now", m)
    /\ UNCHANGED <<due, paused, watched, batch, credits, edits, monitorFaults, history>>

Skips(k) ==
    /\ Ends(k)
    /\ refused' = refused \cup {m \in ToSet(due) : k = "loop" /\ m = run[k].of}

\* Mutant: the balance is compared with the price of one position.
EnoughForOne == credits >= 1

Enough == credits >= Positions

\* A run without positions or with too small a balance ends and leaves next_run_at;
\* so does one whose rows or balance cannot be read.
Check(k) ==
    /\ run[k].step = "check"
    /\ \/ /\ run[k].of \in watched /\ Enough
          /\ run' = [run EXCEPT ![k].step = "charge"]
          /\ UNCHANGED <<refused, short, monitorFaults>>
       \/ /\ ~(run[k].of \in watched /\ Enough)
          /\ Skips(k) /\ UNCHANGED monitorFaults
       \/ Skips(k) /\ MonitorFault
    /\ UNCHANGED <<due, paused, watched, batch, credits, edits, billed, interrupted>>

\* Others spend from the balance that a run has checked.
Overdraws(by) == short' = short \cup {k \in Runners \ {by} : run[k].step = "charge"}

\* One position is charged.  When that fails the others are not, and the run goes on.
Bill(k) ==
    LET r == run[k] IN
    /\ r.step = "charge"
    /\ \/ /\ credits > 0
          /\ credits' = credits - 1
          /\ run' = [run EXCEPT ![k].spent = @ + 1,
                       ![k].step = IF r.spent + 1 = Positions THEN "analyse" ELSE "charge"]
          /\ billed' = IF k = "loop" /\ r.spent = 0 THEN [billed EXCEPT ![r.of] = @ + 1]
                       ELSE billed
          /\ Overdraws(k)
          /\ UNCHANGED monitorFaults
       \/ /\ credits = 0
          /\ run' = [run EXCEPT ![k].step = "analyse"]
          /\ UNCHANGED <<credits, billed, short, monitorFaults>>
       \/ /\ MonitorFault
          /\ run' = [run EXCEPT ![k].step = "analyse"]
          /\ short' = short \cup {k}
          /\ UNCHANGED <<credits, billed>>
    /\ UNCHANGED <<due, paused, watched, batch, edits, interrupted, refused>>

Interrupts(k) == interrupted' = interrupted \cup {run[k].of}

\* Mutant: a run whose analysis failed is tried again.
ScheduleSuccesses(k) ==
    /\ run[k].step = "analyse"
    /\ \/ Reschedules(run[k].of) /\ UNCHANGED <<monitorFaults, interrupted>>
       \/ UNCHANGED <<due, refused, monitorFaults, interrupted>>
       \/ MonitorFault /\ Interrupts(k) /\ UNCHANGED <<due, refused>>
    /\ Ends(k)
    /\ UNCHANGED <<paused, watched, batch, credits, edits, billed>>

\* All positions are analysed, paid or not, and next_run_at is set whatever the
\* result.
Schedule(k) ==
    /\ run[k].step = "analyse"
    /\ \/ Reschedules(run[k].of) /\ UNCHANGED <<monitorFaults, interrupted>>
       \/ MonitorFault /\ Interrupts(k) /\ UNCHANGED <<due, refused>>
    /\ Ends(k)
    /\ UNCHANGED <<paused, watched, batch, credits, edits, billed>>

\* The balance is spent elsewhere or filled up.
Others ==
    /\ \E c \in (0..MaxCredits) \ {credits} : credits' = c
    /\ IF credits' < credits THEN Overdraws("others") ELSE UNCHANGED short
    /\ UNCHANGED <<due, paused, watched, batch, run, edits, monitorFaults,
                   billed, interrupted, refused>>

\* The process is restarted.
Reboot ==
    /\ MonitorFault
    /\ batch' = <<>> /\ run' = [k \in Runners |-> NoRun] /\ short' = {}
    /\ interrupted' = interrupted \cup {run[k].of : k \in {j \in Runners : run[j].spent > 0}}
    /\ UNCHANGED <<due, paused, watched, credits, edits, billed, refused>>

Works(k) == Check(k) \/ Bill(k) \/ Schedule(k)

MonitorNext ==
    \/ \E m \in Monitors : Tick(m) \/ Reconfigure(m) \/ Pause(m) \/ Watch(m) \/ RunNow(m)
    \/ Look \/ Take
    \/ \E k \in Runners : Works(k)
    \/ Others \/ Reboot

-----------------------------------------------------------------------------
(* Properties                                                              *)

\* A run that analyses all its positions has paid for all of them, unless the balance
\* it had checked was spent by others before its last charge or a charge failed.
PaidInFull ==
    \A k \in Runners :
        run[k].step = "analyse" /\ run[k].spent < Positions => k \in short

\* The loop charges a monitor once each time it becomes due, however the analysis ends
\* and whatever the user runs meanwhile, unless a run was interrupted after its charge.
BilledOnce == \A m \in Monitors : billed[m] <= 1 \/ m \in interrupted

Waiting(m) == m \in ToSet(due) /\ m \notin paused

\* As many monitors as one look holds are ahead of m and keep their place although the
\* loop has run them.
Crowded(m) ==
    LET ahead == {i \in 1..Len(due) : \E j \in (i + 1)..Len(due) : due[j] = m}
    IN  Cardinality({i \in ahead : due[i] \in refused \ paused}) >= LookLimit

\* A monitor that stays due is run by the loop, unless in the end monitors that cannot
\* run fill every look.
DueMonitorsRun ==
    \A m \in Monitors :
        \/ []<>(~Waiting(m) \/ run["loop"].of = m)
        \/ <>[]Crowded(m)
=============================================================================
