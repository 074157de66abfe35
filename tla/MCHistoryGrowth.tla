-------------------------- MODULE MCHistoryGrowth --------------------------
(* A conversation with calls and with short and long turns.                  *)
EXTENDS HistoryGrowth

CONSTANT t1
=============================================================================
