--------------------------- MODULE MCPaidAnalysis ---------------------------
(* Three clicks, two monitors of two positions and looks of one row.       *)
EXTENDS PaidAnalysis

CONSTANTS m1, m2

MCMonitors == {m1, m2}
=============================================================================
