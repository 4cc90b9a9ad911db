---------------------------- MODULE PaidAnalysis ----------------------------
(***************************************************************************)
(* The two consumers of the ai_analysis credits: the requests of           *)
(* AnalysisTask and the monitors of PortfolioMonitor.  They share nothing  *)
(* but the user's balance, which each of them takes to change at any time, *)
(* so a behaviour is one of either.                                        *)
(***************************************************************************)
EXTENDS AnalysisTask, PortfolioMonitor

ASSUME PaidAssumption ==
    /\ Clicks \in Nat /\ NoMonitor \notin Monitors
    /\ IsFiniteSet(Monitors)
    /\ Positions \in Nat \ {0} /\ LookLimit \in Nat \ {0} /\ MaxCredits \in Nat
    /\ MaxEdits \in Nat /\ MaxMonitorFaults \in Nat /\ MaxTaskFaults \in Nat

VARIABLE consumer   \* which of the two acts

vars == <<consumer, taskVars, monitorVars>>

Init ==
    /\ consumer \in {"request", "monitor"}
    /\ TaskInit /\ MonitorInit
    /\ consumer = "request" => watched = {} /\ credits = 0

Next ==
    \/ consumer = "request" /\ TaskNext /\ UNCHANGED <<consumer, monitorVars>>
    \/ consumer = "monitor" /\ MonitorNext /\ UNCHANGED <<consumer, taskVars>>

\* The loop is a thread that goes on for ever, and a call it makes returns.
Spec ==
    /\ Init /\ [][Next]_vars
    /\ WF_vars(consumer = "monitor" /\ (Look \/ Take \/ Works("loop")) /\ UNCHANGED <<consumer, taskVars>>)
=============================================================================
