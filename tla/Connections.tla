----------------------------- MODULE Connections -----------------------------
(***************************************************************************)
(* A user's connection to the other app: the device flow that gets it, the *)
(* searches and visits that use it, and the note that it was turned down.  *)
(*                                                                         *)
(* A request begins with what its handler does before its first wait, and  *)
(* is cut where the handler calls the store or the other app again, and    *)
(* where the browser takes its answer: it acts on the row it read and the  *)
(* cookie it was sent with.  Every lookup is by user, so one user and the  *)
(* tabs of one browser are modelled.  There is one other app, so addresses *)
(* are left out, and a token is named by the grant that gave it.           *)
(***************************************************************************)
EXTENDS Integers, FiniteSets

CONSTANTS
  Tabs,            (* browser tabs; they share a cookie jar                  *)
  NoTab,           (* the tab of a request that is over                      *)
  Requests,        (* requests under way at the same time                    *)
  Visited,         (* bound: the pages each tab visits                       *)
  MaxGrants        (* bound: grants ever opened                              *)

ASSUME ConnectionsAssumption ==
  NoTab \notin Tabs /\ Visited \in [Tabs -> SUBSET {"settings", "start"}] /\ MaxGrants \in Nat

VARIABLES
  connection,      (* the user's row, or NoRow; `failed` is last_error, told *)
                   (* apart by the token the verdict was about (0: none)     *)
  lastConnection,  (* the last id handed out                                 *)
  grants,          (* at the other app, by number, and whether the deadline  *)
                   (* inside our cookie has passed                           *)
  cookie,          (* the pending grant in the jar (0: none)                 *)
  page,            (* what each tab shows                                    *)
  requests

table == <<connection, lastConnection>>
vars == <<table, grants, cookie, page, requests>>

\* What a page may send: a search needs federationState "active", a poll the
\* waiting box, and each form the page that shows it.
Offered(shows) ==
  CASE shows = "active"    -> {"search", "visit"}
    [] shows = "waiting"   -> {"poll"}
    [] shows = "form"      -> {"open"}
    [] shows = "connected" -> {"disconnect"}
    [] OTHER               -> {}
Pages == {"active", "waiting", "form", "connected", "quiet", "loading"}
Loads == {"settings", "start"}
Navigations == Loads \cup {"open", "disconnect"}
Kinds == Navigations \cup {"search", "visit", "poll"}
Results == Pages \cup {"none", "ok", "reconnect", "other", "pending", "over"}

NoRow == [id |-> 0, token |-> 0, failed |-> 0]
NoGrant == [state |-> "none", lapsed |-> FALSE]
Keep == -1   \* no Set-Cookie in the answer; 0 deletes the cookie
Idle == [tab |-> NoTab, kind |-> "start", step |-> "idle", id |-> 0, token |-> 0, grant |-> 0,
         result |-> "none", sets |-> Keep, gone |-> FALSE]

At(r, kinds, step) == requests[r].kind \in kinds /\ requests[r].step = step
Opened == Cardinality({g \in DOMAIN grants : grants[g].state # "none"})
Ends(r) == requests' = [requests EXCEPT ![r] = Idle]
Reply(t, kind, result, sets) ==
  [Idle EXCEPT !.tab = t, !.kind = kind, !.step = "reply", !.result = result, !.sets = sets]
\* Nobody takes the answer to a request whose page has gone.
Answers(r, result, sets) ==
  requests' = [requests EXCEPT ![r] =
    IF requests[r].gone THEN Idle ELSE Reply(requests[r].tab, requests[r].kind, result, sets)]

-----------------------------------------------------------------------------
(* Pages and what they send.                                               *)

\* pendingGrant: the grant in the cookie, unless its deadline has passed, in
\* which case the answer drops the cookie.
PendingWithoutDeadline(jar) == jar
Pending(jar) == IF jar # 0 /\ ~grants[jar].lapsed THEN jar ELSE 0
Dropped(jar) == IF jar # 0 /\ grants[jar].lapsed THEN 0 ELSE Keep

\* NeedsReconnect asks for the note, not for the time beside it.
Works == connection # NoRow /\ connection.failed = 0

\* handleConnections: waiting, then a connection that works, then the form.
Settings(t, jar) ==
  Reply(t, "settings", IF Pending(jar) # 0 THEN "waiting" ELSE IF Works THEN "connected" ELSE "form",
        Dropped(jar))
\* handleStartPage, as far as federationState goes.
Start(t) == Reply(t, "start", IF Works THEN "active" ELSE "quiet", Keep)

\* Leaving a page aborts what it sent, but for visits (keepalive).
Abandoned(t) ==
  [r \in Requests |->
     IF requests[r].tab # t \/ requests[r].kind = "visit" THEN requests[r]
     ELSE IF requests[r].step = "reply" THEN Idle ELSE [requests[r] EXCEPT !.gone = TRUE]]

\* A request that is free, and what becomes of the others when a tab leaves.
Sends(t, kind, request) ==
  \E r \in Requests :
    /\ requests[r].step = "idle"
    /\ requests' = [(IF kind \in Navigations THEN Abandoned(t) ELSE requests) EXCEPT ![r] = request]
Leaves(t) == page' = [page EXCEPT ![t] = "loading"]
Asking(t, kind) == [Idle EXCEPT !.tab = t, !.kind = kind, !.step = "asked"]

\* A page is visited.
Load(t, kind) ==
  /\ kind \in Visited[t]
  /\ Sends(t, kind, IF kind = "settings" THEN Settings(t, cookie) ELSE Start(t))
  /\ Leaves(t)
  /\ UNCHANGED <<table, grants, cookie>>

\* connectedClient: a search or a visit reads the row it will be about.
ConnectedClient(t, kind) ==
  /\ kind \in Offered(page[t]) \cap {"search", "visit"} /\ connection # NoRow
  /\ Sends(t, kind, [Asking(t, kind) EXCEPT !.id = connection.id, !.token = connection.token])
  /\ UNCHANGED <<table, grants, cookie, page>>

\* The poller's tick, which does not wait for the last one's answer.
Poll(t) ==
  /\ "poll" \in Offered(page[t])
  /\ Sends(t, "poll", IF Pending(cookie) = 0 THEN Reply(t, "poll", "over", Dropped(cookie))
                      ELSE [Asking(t, "poll") EXCEPT !.grant = cookie])
  /\ UNCHANGED <<table, grants, cookie, page>>

\* The Connect button.
Open(t) ==
  /\ "open" \in Offered(page[t])
  /\ Sends(t, "open", Asking(t, "open"))
  /\ Leaves(t)
  /\ UNCHANGED <<table, grants, cookie>>

\* The Disconnect button: DeleteConnection, and the grant in flight is dropped.
Disconnect(t) ==
  /\ "disconnect" \in Offered(page[t])
  /\ connection' = NoRow
  /\ Sends(t, "disconnect", Reply(t, "disconnect", "none", 0))
  /\ Leaves(t)
  /\ UNCHANGED <<lastConnection, grants, cookie>>

-----------------------------------------------------------------------------
(* Searches and visits.                                                    *)

\* Client.Search and Client.RecordVisit: a token that is good is answered, one
\* that is not is turned down, and the app may be slow or absent.
AskApp(r) ==
  /\ At(r, {"search", "visit"}, "asked")
  /\ \E verdict \in {IF grants[requests[r].token].state = "good" THEN "ok" ELSE "reconnect", "other"} :
       requests' = [requests EXCEPT ![r].step = "told", ![r].result = verdict]
  /\ UNCHANGED <<table, grants, cookie, page>>

\* RecordConnectionFailure and ClearConnectionFailure update WHERE id, which by
\* now may be no row.
IsItsRowByUser(r) == connection # NoRow
IsItsRow(r) == connection.id = requests[r].id
Noted(r, verdict) == IF IsItsRow(r) THEN [connection EXCEPT !.failed = verdict] ELSE connection

\* A success of a search clears a note, a credential failure leaves one, and
\* anything else changes nothing.
ClearsUnlessRejected(r) == TRUE
Clears(r) == requests[r].result = "ok" /\ requests[r].kind = "search"
NoteVerdict(r) ==
  /\ At(r, {"search", "visit"}, "told")
  /\ connection' = CASE requests[r].result = "reconnect" -> Noted(r, requests[r].token)
                     [] Clears(r) -> Noted(r, 0)
                     [] OTHER -> connection
  /\ Ends(r)
  /\ UNCHANGED <<lastConnection, grants, cookie, page>>

-----------------------------------------------------------------------------
(* The device flow.                                                        *)

\* DeviceFlow.Start and the cookie, or an alert.
OpenGrant(r) ==
  /\ At(r, {"open"}, "asked")
  /\ \/ /\ Opened < MaxGrants
        /\ grants' = [grants EXCEPT ![Opened + 1].state = "open"]
        /\ Answers(r, "none", Opened + 1)
     \/ grants' = grants /\ Answers(r, "none", Keep)
  /\ UNCHANGED <<table, cookie, page>>

\* The app gives an approved grant's token once.
Consumed(g) == [grants EXCEPT ![g].state = "good"]
\* DeviceFlow.Check: its answer may be lost on the way.  A grant that is over is
\* forgotten.
CheckGrant(r) ==
  LET g == requests[r].grant
      state == grants[g].state
  IN  /\ At(r, {"poll"}, "asked")
      /\ \/ grants' = grants /\ Answers(r, "pending", Keep)
         \/ state = "approved" /\ grants' = Consumed(g) /\ Answers(r, "pending", Keep)
         \/ /\ state = "approved" /\ grants' = Consumed(g)
            /\ requests' = [requests EXCEPT ![r].step = "store"]
         \/ state \notin {"open", "approved"} /\ grants' = grants /\ Answers(r, "over", 0)
      /\ UNCHANGED <<table, cookie, page>>

\* ReplaceConnection: delete and insert in one transaction, under a new id.
Replacing(token) == [id |-> lastConnection + 1, token |-> token, failed |-> 0]
\* The approved case.
StoreGrant(r) ==
  /\ At(r, {"poll"}, "store")
  /\ connection' = Replacing(requests[r].grant)
  /\ lastConnection' = lastConnection + 1
  /\ Answers(r, "over", 0)
  /\ UNCHANGED <<grants, cookie, page>>

-----------------------------------------------------------------------------
(* Answers.                                                                *)

\* The browser takes an answer, its cookie first: the page shows it, follows the
\* redirect or, when the poller hears that the wait is over, reloads.
TellsToReload(result) == result = "over"
Receive(r) ==
  LET t == requests[r].tab
      kind == requests[r].kind
      jar == IF requests[r].sets = Keep THEN cookie ELSE requests[r].sets
  IN  /\ requests[r].step = "reply"
      /\ cookie' = jar
      /\ IF kind \in {"open", "disconnect"} \/ (kind = "poll" /\ TellsToReload(requests[r].result))
         THEN requests' = [Abandoned(t) EXCEPT ![r] = Settings(t, jar)] /\ Leaves(t)
         ELSE /\ Ends(r)
              /\ page' = IF kind \in Loads THEN [page EXCEPT ![t] = requests[r].result] ELSE page
      /\ UNCHANGED <<table, grants>>

\* A request whose page has gone: its context is cancelled before its next call.
Cancel(r) ==
  /\ requests[r].gone
  /\ Ends(r)
  /\ UNCHANGED <<table, grants, cookie, page>>

-----------------------------------------------------------------------------
(* The other app, and the clock.                                           *)

\* Somebody approves or denies a grant, or the app gives it up.
Decide(g) ==
  /\ \/ grants[g].state = "open" /\ \E state \in {"approved", "denied"} :
                                      grants' = [grants EXCEPT ![g].state = state]
     \/ grants[g].state \in {"open", "approved"} /\ grants' = [grants EXCEPT ![g].state = "denied"]
  /\ UNCHANGED <<table, cookie, page, requests>>
\* A token is revoked, or lapses.
Revoke(g) ==
  /\ grants[g].state = "good"
  /\ grants' = [grants EXCEPT ![g].state = "rejected"]
  /\ UNCHANGED <<table, cookie, page, requests>>
\* The deadline in the cookie passes.
Lapse(g) ==
  /\ grants[g].state # "none" /\ ~grants[g].lapsed
  /\ grants' = [grants EXCEPT ![g].lapsed = TRUE]
  /\ UNCHANGED <<table, cookie, page, requests>>

Init ==
  /\ connection = NoRow /\ lastConnection = 0
  /\ grants = [g \in 1 .. MaxGrants |-> NoGrant]
  /\ cookie = 0
  /\ page = [t \in Tabs |-> "quiet"]
  /\ requests = [r \in Requests |-> Idle]

Handle(r) == AskApp(r) \/ NoteVerdict(r) \/ OpenGrant(r) \/ CheckGrant(r) \/ StoreGrant(r)
Next ==
  \/ \E r \in Requests : Handle(r) \/ Receive(r) \/ Cancel(r)
  \/ \E t \in Tabs : \/ \E kind \in Kinds : Load(t, kind) \/ ConnectedClient(t, kind)
                     \/ Poll(t) \/ Open(t) \/ Disconnect(t)
  \/ \E g \in 1 .. MaxGrants : Decide(g) \/ Revoke(g) \/ Lapse(g)

\* The server goes on with what it began, browsers take answers, a page that waits
\* keeps polling whatever other requests come between (setInterval), and
\* deadlines pass.
Fairness ==
  /\ \A r \in Requests : WF_vars(Handle(r)) /\ WF_vars(Receive(r))
  /\ \A t \in Tabs : SF_vars(Poll(t))
  /\ \A g \in 1 .. MaxGrants : WF_vars(Lapse(g))
Spec == Init /\ [][Next]_vars /\ Fairness

-----------------------------------------------------------------------------
(* Properties.                                                             *)

RowType == [id : Nat \ {0}, token : 1 .. MaxGrants, failed : 0 .. MaxGrants]
RequestType ==
  [tab : Tabs \cup {NoTab}, kind : Kinds, step : {"idle", "asked", "told", "store", "reply"},
   id : Nat, token : 0 .. MaxGrants, grant : 0 .. MaxGrants,
   result : Results, sets : Keep .. MaxGrants, gone : BOOLEAN]
TypeOK ==
  /\ connection \in RowType \cup {NoRow}
  /\ lastConnection \in Nat /\ connection.id <= lastConnection
  /\ grants \in [1 .. MaxGrants ->
       [state : {"none", "open", "approved", "denied", "good", "rejected"}, lapsed : BOOLEAN]]
  /\ cookie \in 0 .. MaxGrants
  /\ page \in [Tabs -> Pages] /\ requests \in [Requests -> RequestType]

\* A note says that THIS token was turned down: an answer that arrives after the
\* connection was replaced, or disconnected and connected again, never marks the
\* new one (RecordConnectionFailure).
VerdictsStayWithTheirToken == connection.failed \in {0, connection.token}

\* Nobody waits for ever: the waiting page goes away, whether the grant is
\* approved, denied or given up, the answer is lost, or the other app is down.
NobodyWaitsForEver == \A t \in Tabs : page[t] = "waiting" ~> page[t] # "waiting"

\* A token that stays rejected is noted for good, if searches go on being turned
\* down: successes answered before it was rejected clear the note only so often.
TurnsDown(r) == NoteVerdict(r) /\ requests[r].result = "reconnect" /\ requests[r].id = connection.id
RejectionIsNoted ==
  []<><<\E r \in Requests : TurnsDown(r)>>_vars => <>[](connection = NoRow \/ connection.failed # 0)

=============================================================================
