--------------------------- MODULE MCObservation ----------------------------
(***************************************************************************)
(* Observation for TLC: a chunk of a choice and a usage report that adds   *)
(* up to no good with another, and bytes enough for an event of two lines. *)
(***************************************************************************)
EXTENDS Observation

None == [f \in Field |-> Absent]

Chunk ==
  [ usage |-> [None EXCEPT !["prompt"] = 1],
    choice |-> [index |-> 0, finish |-> Absent, tools |-> {0}, toolsBad |-> FALSE, calls |-> 2],
    listed |-> TRUE ]

Last ==
  [ usage |-> [None EXCEPT !["prompt"] = 2, !["completion"] = 1, !["total"] = 2, !["reasoning"] = 1],
    choice |-> [index |-> 1, finish |-> "stop", tools |-> {}, toolsBad |-> FALSE, calls |-> 0],
    listed |-> TRUE ]

Texts == {Chunk, Last}
=============================================================================
