---------------------------- MODULE MCHistoryLog ----------------------------
(***************************************************************************)
(* HistoryLog for TLC: two states of the metrics, which are alike.         *)
(***************************************************************************)
EXTENDS HistoryLog, TLC

CONSTANTS a, b

Symmetry == Permutations(State)
=============================================================================
