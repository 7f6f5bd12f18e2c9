----------------------------- MODULE MCChartFeed -----------------------------
(* Instances of ChartFeed for TLC. *)
EXTENDS ChartFeed

CONSTANTS v1, v2

\* Trades in every block.
Busy == <<"curve", "curve">>
=============================================================================
