------------------------- MODULE MCStrategyThreads --------------------------
(* Small instances of StrategyThreads for TLC.                             *)
EXTENDS StrategyThreads, TLC

\* Threads and requests are interchangeable; the code never orders them.
Symmetry == Permutations(Threads) \cup Permutations(Requests)
=============================================================================
