---------------------------- MODULE MCLiveOrder ----------------------------
(* Small instances of LiveOrder for TLC. *)
EXTENDS LiveOrder

\* Nothing but a rest of one, all but one, and all: 1 of 1000 is the 0.1 % that
\* the code does not cancel.  MT5 rounds the 1000 to 1001, seven lots of 143.
MCAsked == 1000
MCFillLevels == {1, 999, 1000, 1001}

=============================================================================
