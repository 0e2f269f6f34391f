------------------------------- MODULE MCDeploy -------------------------------
(* An old container and the new one that takes over from it, whose image has *)
(* a file that was written before one that has already been run.             *)
EXTENDS Deploy

CONSTANTS old, new
Images == [c \in {old, new} |-> IF c = old THEN {2} ELSE {1, 2}]
=============================================================================
