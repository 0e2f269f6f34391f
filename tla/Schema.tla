-------------------------------- MODULE Schema --------------------------------
(***************************************************************************)
(* What Migrate promises of a database, whoever opens it, however often,   *)
(* and whatever stops in the middle: the tables are laid down once, and    *)
(* each change is made once, with its line in the ledger.                  *)
(***************************************************************************)
CONSTANT Versions     (* the changes made after the first schema             *)

VARIABLES installed, applied

Init ==
  /\ installed \in BOOLEAN
  /\ applied \in SUBSET Versions
  /\ installed \/ applied = {}

Install ==
  /\ ~installed
  /\ installed' = TRUE
  /\ UNCHANGED applied

Apply(v) ==
  /\ installed /\ v \notin applied
  /\ applied' = applied \cup {v}
  /\ UNCHANGED installed

Next == Install \/ \E v \in Versions : Apply(v)

Spec == Init /\ [][Next]_<<installed, applied>>
=============================================================================
