---------------------------- MODULE MCConnections ----------------------------
(* A tab on the start page and one on the settings, or two on the settings. *)
EXTENDS Connections, TLC

CONSTANTS t1, t2
StartAndSettings == t1 :> {"start"} @@ t2 :> {"settings"}
TwoSettings == t1 :> {"settings"} @@ t2 :> {"settings"}
=============================================================================
