---------------------------- MODULE MCUsdtOrder ----------------------------
(* Small instances of UsdtOrder for TLC. *)
EXTENDS UsdtOrder

CONSTANTS o1, o2

MCOrders == {o1, o2}
MCOneOrder == {o1}

=============================================================================
