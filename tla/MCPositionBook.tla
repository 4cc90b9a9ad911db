--------------------------- MODULE MCPositionBook ---------------------------
(* A small instance of PositionBook for TLC. *)
EXTENDS PositionBook

MCSlacks == {0, 1}

=============================================================================
