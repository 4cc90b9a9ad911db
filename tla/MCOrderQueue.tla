---------------------------- MODULE MCOrderQueue ----------------------------
(* Small instances of OrderQueue for TLC. *)
EXTENDS OrderQueue, TLC

MCOrders == 1..2
MCOneOrder == {1}

\* Worker processes are interchangeable.
Symmetry == Permutations(Workers)

=============================================================================
