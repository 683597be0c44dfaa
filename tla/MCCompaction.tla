---------------------------- MODULE MCCompaction ----------------------------
(***************************************************************************)
(* The control of compaction for TLC: two blocking threads, so that a job  *)
(* may be spawned while the last one still unwinds.  Worker threads are    *)
(* alike.                                                                  *)
(***************************************************************************)
EXTENDS Compaction, TLC

Symmetry == Permutations(Worker)
=============================================================================
