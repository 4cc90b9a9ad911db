---------------------------- MODULE MCSignalGate ----------------------------
(* Small instances of SignalGate for TLC. *)
EXTENDS SignalGate

MCActs == {"open", "close"}
MCSizingActs == {"open", "add"}

=============================================================================
