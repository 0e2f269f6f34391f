---------------------------- MODULE Disconnecting ----------------------------
(***************************************************************************)
(* Connections, with the grants that a Disconnect was to drop.             *)
(***************************************************************************)
EXTENDS MCConnections

VARIABLE dropped   (* history: grants opened before the user last disconnected *)

HInit == Init /\ dropped = {}
HNext ==
  /\ Next
  /\ dropped' = IF \E t \in Tabs : Disconnect(t)
                THEN {g \in DOMAIN grants : grants[g].state # "none"} ELSE dropped
HSpec == HInit /\ [][HNext]_<<vars, dropped>> /\ Fairness

\* "Disconnecting drops a grant in flight as well as the row.  Leaving one means a
\* page that says 'not connected' and then connects itself"
\* (TestDisconnectingDropsAGrantInFlight): no grant opened before a user
\* disconnected connects them afterwards.
DisconnectedStays ==
  [][connection'.id # connection.id => connection'.token \notin dropped]_<<vars, dropped>>
=============================================================================
