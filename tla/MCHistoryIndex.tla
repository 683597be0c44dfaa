--------------------------- MODULE MCHistoryIndex ---------------------------
(* One counter, which appears with its first count.                          *)
EXTENDS HistoryIndex

CONSTANT requests
=============================================================================
