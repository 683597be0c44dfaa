-------------------------- MODULE SettingsService --------------------------
(***************************************************************************)
(* What the settings promise, said without handlers, mutexes, temporary    *)
(* files or swaps: there is one document of record, it is replaced by one  *)
(* save at a time, and each save was made of the document it replaces,     *)
(* so that none undoes what another has changed.  A restart finds the      *)
(* document of record, or the save that is about to replace it.  A loss of *)
(* power may bring back one of the past, as long as the disk has not       *)
(* settled; a save is applied only once it has, or has failed to.          *)
(***************************************************************************)
CONSTANTS
  Document,      \* what may be stored
  Follows(_, _), \* whether a document may be replaced by another
  Nothing        \* no document

VARIABLES
  document,   \* the document of record
  next,       \* the save that is to replace it, or Nothing
  file,       \* what a restart finds
  past,       \* what it may find instead, after a power loss
  unsynced    \* the disk has failed to settle the save that is to be applied

vars == <<document, next, file, past, unsynced>>

Init ==
  /\ document \in Document /\ next = Nothing
  /\ file = document /\ past = {} /\ unsynced = FALSE

Begin ==
  /\ next = Nothing /\ next' # Nothing
  /\ Follows(document, next')
  /\ UNCHANGED <<document, file, past, unsynced>>

\* A save that is given up leaves no trace.
Abandon ==
  /\ next # Nothing /\ file = document
  /\ next' = Nothing
  /\ UNCHANGED <<document, file, past, unsynced>>

\* The disk first: a crash from here on may keep the save.
Write ==
  /\ next # Nothing /\ file = document
  /\ file' = next
  /\ past' \subseteq past \cup {file}
  /\ UNCHANGED <<document, next, unsynced>>

Settle ==
  /\ past' = {} /\ unsynced' = FALSE
  /\ UNCHANGED <<document, next, file>>

SyncFails ==
  /\ next # Nothing /\ file = next
  /\ unsynced' = TRUE
  /\ UNCHANGED <<document, next, file, past>>

\* What is answered is what any restart finds, unless the disk has failed this save.
Apply ==
  /\ next # Nothing /\ file = next
  /\ past = {} \/ unsynced
  /\ document' = next /\ next' = Nothing
  /\ unsynced' = FALSE
  /\ UNCHANGED <<file, past>>

\* A restart settles nothing.
Restart ==
  /\ document' = file /\ next' = Nothing /\ unsynced' = FALSE
  /\ UNCHANGED <<file, past>>

PowerLoss ==
  /\ document' \in {file} \cup past
  /\ file' = document' /\ past' = {}
  /\ next' = Nothing /\ unsynced' = FALSE

Next ==
  \/ Begin \/ Abandon \/ Write \/ Settle \/ SyncFails \/ Apply
  \/ Restart \/ PowerLoss

Spec == Init /\ [][Next]_vars
=============================================================================
