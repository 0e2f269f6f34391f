-------------------------- MODULE ConnectionsProofs --------------------------
(***************************************************************************)
(* Connections for any number of tabs, requests and grants: types, and no  *)
(* note on a connection it is not about.                                   *)
(***************************************************************************)
EXTENDS Connections, FiniteSetTheorems, TLAPS

\* A request that is using a row it read.
Using(request) == request.kind \in {"search", "visit"} /\ request.step \in {"asked", "told"}

\* What a request may be: a poll that asks was sent with a grant, and what uses a
\* row has its id and its token, and the answer to a visit is a page.
SoundRequest ==
  {request \in RequestType :
     /\ request.kind = "poll" /\ request.step \in {"asked", "store"} => request.grant # 0
     /\ Using(request) => request.id # 0 /\ request.token # 0
     /\ request.kind \in Loads /\ request.step = "reply" => request.result \in Pages}
Typed == TypeOK /\ requests \in [Requests -> SoundRequest]

\* Ids are handed out once, so a request whose id is the row's has its token.
OneTokenPerId ==
  \A r \in Requests : Using(requests[r]) =>
    /\ requests[r].id <= lastConnection
    /\ requests[r].id = connection.id => requests[r].token = connection.token
Noting == Typed /\ OneTokenPerId /\ VerdictsStayWithTheirToken

\* A request that is over is sound.
LEMMA IdleSound == Idle \in SoundRequest /\ Idle.step = "idle"
<1>1. Idle \in RequestType
  BY ConnectionsAssumption DEF Idle, RequestType, Kinds, Navigations, Loads, Results, Keep
<1> QED
  BY <1>1 DEF SoundRequest, Using, Idle

\* An answer is sound.
LEMMA AnswersSound ==
  ASSUME NEW t \in Tabs \cup {NoTab}, NEW kind \in Kinds, NEW result \in Results,
         NEW sets \in Keep .. MaxGrants, kind \in Loads => result \in Pages
  PROVE  Reply(t, kind, result, sets) \in SoundRequest
<1>1. Reply(t, kind, result, sets) \in RequestType
  BY IdleSound DEF Reply, RequestType, SoundRequest
<1>2. Reply(t, kind, result, sets).step = "reply" /\ Reply(t, kind, result, sets).kind = kind
      /\ Reply(t, kind, result, sets).result = result
  BY DEF Reply, Idle
<1> QED
  BY <1>1, <1>2 DEF SoundRequest, Using

\* What a settings page and a start page answer, and a question, are sound.
LEMMA PagesSound ==
  ASSUME TypeOK, NEW t \in Tabs \cup {NoTab}, NEW jar \in 0 .. MaxGrants
  PROVE  /\ Settings(t, jar) \in SoundRequest /\ Start(t) \in SoundRequest
         /\ Pending(jar) \in 0 .. MaxGrants /\ Dropped(jar) \in Keep .. MaxGrants
<1>1. Pending(jar) \in 0 .. MaxGrants
  BY ConnectionsAssumption DEF Pending
<1>2. Dropped(jar) \in Keep .. MaxGrants /\ Keep \in Keep .. MaxGrants
  BY ConnectionsAssumption DEF Dropped, Keep
<1>3. {"waiting", "connected", "form", "active", "quiet"} \subseteq Pages /\ Pages \subseteq Results
      /\ {"settings", "start"} \subseteq Kinds
  BY DEF Results, Pages, Kinds, Navigations, Loads
<1>4. Settings(t, jar) \in SoundRequest
  BY <1>2, <1>3, AnswersSound DEF Settings
<1>5. Start(t) \in SoundRequest
  BY <1>2, <1>3, AnswersSound DEF Start
<1> QED
  BY <1>1, <1>2, <1>4, <1>5

\* A question to the other app is typed.
LEMMA AskingTyped ==
  ASSUME NEW t \in Tabs, NEW kind \in Kinds
  PROVE  Asking(t, kind) \in RequestType /\ Asking(t, kind).kind = kind
<1>1. Idle \in RequestType
  BY IdleSound DEF SoundRequest
<1> QED
  BY <1>1 DEF Asking, RequestType

\* A step that starts no use of a row: those under way have the row they had.
NoNewUse ==
  \A r \in Requests : Using(requests'[r]) =>
    /\ Using(requests[r])
    /\ requests'[r].id = requests[r].id /\ requests'[r].token = requests[r].token

\* Leaving a page, and sending anything but a search or a visit, start no use.
LEMMA SendsSound ==
  ASSUME requests \in [Requests -> SoundRequest], NEW t \in Tabs \cup {NoTab}, NEW kind \in Kinds,
         NEW request \in SoundRequest
  PROVE  /\ Abandoned(t) \in [Requests -> SoundRequest]
         /\ \A r \in Requests : Using(Abandoned(t)[r]) =>
              /\ Using(requests[r])
              /\ Abandoned(t)[r].id = requests[r].id /\ Abandoned(t)[r].token = requests[r].token
         /\ Sends(t, kind, request) =>
              /\ requests' \in [Requests -> SoundRequest]
              /\ ~Using(request) => NoNewUse
<1>1. Idle \in SoundRequest /\ ~Using(Idle)
  BY IdleSound DEF Using
<1>2. ASSUME NEW r \in Requests
      PROVE  /\ [requests[r] EXCEPT !.gone = TRUE] \in SoundRequest
             /\ LET gone == [requests[r] EXCEPT !.gone = TRUE]
                IN  /\ Using(gone) <=> Using(requests[r])
                    /\ gone.id = requests[r].id /\ gone.token = requests[r].token
  BY DEF SoundRequest, RequestType, Using
<1>3. Abandoned(t) \in [Requests -> SoundRequest]
  BY <1>1, <1>2 DEF Abandoned
<1>4. \A r \in Requests : Using(Abandoned(t)[r]) =>
        /\ Using(requests[r])
        /\ Abandoned(t)[r].id = requests[r].id /\ Abandoned(t)[r].token = requests[r].token
  BY <1>1, <1>2 DEF Abandoned
<1>5. ASSUME Sends(t, kind, request)
      PROVE  /\ requests' \in [Requests -> SoundRequest]
             /\ ~Using(request) => NoNewUse
  <2>1. PICK r \in Requests :
          requests' = [(IF kind \in Navigations THEN Abandoned(t) ELSE requests) EXCEPT ![r] = request]
    BY <1>5 DEF Sends
  <2>2. requests' \in [Requests -> SoundRequest]
    BY <1>3, <2>1
  <2>3. \A q \in Requests : requests'[q] = IF q = r THEN request
          ELSE IF kind \in Navigations THEN Abandoned(t)[q] ELSE requests[q]
    BY <1>3, <2>1
  <2> QED
    BY <1>4, <2>2, <2>3 DEF NoNewUse
<1> QED
  BY <1>3, <1>4, <1>5

\* Ending and answering start no use, and keep the requests sound.
LEMMA EndsSound ==
  ASSUME requests \in [Requests -> SoundRequest], NEW r \in Requests
  PROVE  /\ Ends(r) => requests' \in [Requests -> SoundRequest] /\ NoNewUse
         /\ \A result \in Results, sets \in Keep .. MaxGrants :
              requests[r].kind \notin Loads /\ Answers(r, result, sets) =>
                requests' \in [Requests -> SoundRequest] /\ NoNewUse
<1>1. Idle \in SoundRequest /\ ~Using(Idle)
  BY IdleSound DEF Using
<1>2. ASSUME NEW request \in SoundRequest, ~Using(request),
             requests' = [requests EXCEPT ![r] = request]
      PROVE  requests' \in [Requests -> SoundRequest] /\ NoNewUse
  BY <1>2 DEF NoNewUse
<1>3. ASSUME NEW result \in Results, NEW sets \in Keep .. MaxGrants, requests[r].kind \notin Loads
      PROVE  /\ Reply(requests[r].tab, requests[r].kind, result, sets) \in SoundRequest
             /\ ~Using(Reply(requests[r].tab, requests[r].kind, result, sets))
  <2>1. requests[r].tab \in Tabs \cup {NoTab} /\ requests[r].kind \in Kinds
    BY DEF SoundRequest, RequestType
  <2>2. Reply(requests[r].tab, requests[r].kind, result, sets).step = "reply"
    BY DEF Reply, Idle
  <2> QED
    BY <1>3, <2>1, <2>2, AnswersSound DEF Using
<1> QED
  BY <1>1, <1>2, <1>3 DEF Ends, Answers


\* A page that is visited, a poll, a form.
LEMMA PagesKeep ==
  ASSUME Typed, NEW t \in Tabs,
         \/ \E kind \in Kinds : Load(t, kind)
         \/ Poll(t) \/ Open(t) \/ Disconnect(t)
  PROVE  Typed' /\ NoNewUse /\ lastConnection' = lastConnection /\ connection' \in {connection, NoRow}
<1>1. cookie \in 0 .. MaxGrants /\ requests \in [Requests -> SoundRequest]
  BY DEF Typed, TypeOK
<1>2. [page EXCEPT ![t] = "loading"] \in [Tabs -> Pages]
  BY DEF Typed, TypeOK, Pages
<1>3. {"settings", "start"} \subseteq Kinds /\ {"poll", "open", "disconnect"} \subseteq Kinds \ Loads
      /\ {"none", "over"} \subseteq Results /\ 0 \in Keep .. MaxGrants /\ Keep \in Keep .. MaxGrants
  BY ConnectionsAssumption DEF Kinds, Navigations, Loads, Results, Keep
<1>4. ASSUME NEW kind \in Kinds \ Loads, NEW result \in Results, NEW sets \in Keep .. MaxGrants
      PROVE  Reply(t, kind, result, sets) \in SoundRequest /\ ~Using(Reply(t, kind, result, sets))
  BY AnswersSound DEF Reply, Using, Idle
<1>5. ~Using(Settings(t, cookie)) /\ ~Using(Start(t))
      /\ Settings(t, cookie) \in SoundRequest /\ Start(t) \in SoundRequest
  BY <1>1, PagesSound DEF Typed, Using, Settings, Start, Reply, Idle
<1>6. ASSUME NEW kind \in Kinds, Load(t, kind)
      PROVE  requests' \in [Requests -> SoundRequest] /\ NoNewUse
  BY <1>1, <1>5, <1>6, SendsSound DEF Load
<1>7. ASSUME Poll(t)
      PROVE  requests' \in [Requests -> SoundRequest] /\ NoNewUse
  <2>1. CASE Pending(cookie) = 0
    BY <1>1, <1>3, <1>4, <1>7, <2>1, PagesSound, SendsSound DEF Poll, Typed
  <2>2. CASE Pending(cookie) # 0
    <3>1. cookie # 0
      BY <2>2 DEF Pending
    <3>2. Asking(t, "poll") \in RequestType
      BY <1>3, AskingTyped
    <3>3. [Asking(t, "poll") EXCEPT !.grant = cookie] \in RequestType
      BY <1>1, <3>2 DEF RequestType
    <3>4. [Asking(t, "poll") EXCEPT !.grant = cookie].kind = "poll"
          /\ [Asking(t, "poll") EXCEPT !.grant = cookie].grant = cookie
      BY <3>2 DEF Asking, Idle
    <3>5. [Asking(t, "poll") EXCEPT !.grant = cookie] \in SoundRequest
          /\ ~Using([Asking(t, "poll") EXCEPT !.grant = cookie])
      BY <3>1, <3>3, <3>4 DEF SoundRequest, Using, Loads
    <3> QED
      BY <1>1, <1>3, <1>7, <2>2, <3>5, SendsSound DEF Poll
  <2> QED
    BY <2>1, <2>2
<1>8. ASSUME Open(t)
      PROVE  requests' \in [Requests -> SoundRequest] /\ NoNewUse
  <2>1. Asking(t, "open") \in RequestType /\ Asking(t, "open").kind = "open"
    BY <1>3, AskingTyped
  <2>2. Asking(t, "open") \in SoundRequest /\ ~Using(Asking(t, "open"))
    BY <2>1 DEF SoundRequest, Using, Loads
  <2> QED
    BY <1>1, <1>3, <1>8, <2>2, SendsSound DEF Open
<1>9. ASSUME Disconnect(t)
      PROVE  requests' \in [Requests -> SoundRequest] /\ NoNewUse
  BY <1>1, <1>3, <1>4, <1>9, SendsSound DEF Disconnect
<1>10. requests' \in [Requests -> SoundRequest] /\ NoNewUse
  BY <1>6, <1>7, <1>8, <1>9
<1>11. lastConnection' = lastConnection /\ connection' \in {connection, NoRow}
       /\ grants' = grants /\ cookie' = cookie /\ page' \in {page, [page EXCEPT ![t] = "loading"]}
  BY DEF Load, Poll, Open, Disconnect, Leaves, table
<1>12. (requests \in [Requests -> RequestType])'
  BY <1>10 DEF SoundRequest
<1>13. connection'.id <= lastConnection'
  BY <1>11 DEF Typed, TypeOK, NoRow
<1> QED
  BY <1>2, <1>10, <1>11, <1>12, <1>13 DEF Typed, TypeOK

\* A search or a visit reads the row it will be about.
LEMMA ReadsKeep ==
  ASSUME Noting, NEW t \in Tabs, NEW kind \in Kinds, ConnectedClient(t, kind)
  PROVE  Noting'
<1>1. requests \in [Requests -> SoundRequest] /\ connection \in RowType
      /\ connection.id <= lastConnection /\ kind \in {"search", "visit"}
  BY DEF Noting, Typed, TypeOK, ConnectedClient
<1> DEFINE request == [Asking(t, kind) EXCEPT !.id = connection.id, !.token = connection.token]
<1>2. Asking(t, kind) \in RequestType /\ Asking(t, kind).kind = kind
  BY AskingTyped
<1>3. request \in RequestType /\ request.id = connection.id /\ request.token = connection.token
  <2>1. connection.id \in Nat /\ connection.token \in 0 .. MaxGrants
    BY <1>1 DEF RowType
  <2> DEFINE named == [Asking(t, kind) EXCEPT !.id = connection.id]
  <2>2. named \in RequestType /\ named.id = connection.id
    BY <1>2, <2>1 DEF RequestType
  <2>3. request = [named EXCEPT !.token = connection.token]
    OBVIOUS
  <2> HIDE DEF named, request
  <2> QED
    BY <2>1, <2>2, <2>3 DEF RequestType
<1>4. request.id # 0 /\ request.token # 0 /\ request.kind = kind
  BY <1>1, <1>2, <1>3 DEF RowType, RequestType
<1>5. request \in SoundRequest
  BY <1>1, <1>3, <1>4 DEF SoundRequest, Loads
<1> HIDE DEF request
<1>6. kind \notin Navigations
  BY <1>1 DEF Navigations, Loads
<1>7. PICK r \in Requests : requests' = [requests EXCEPT ![r] = request]
  BY <1>6 DEF ConnectedClient, Sends, request
<1>8. requests' \in [Requests -> SoundRequest]
  BY <1>1, <1>5, <1>7
<1>9. UNCHANGED <<table, grants, cookie, page>>
  BY DEF ConnectedClient
<1>10. Typed'
  BY <1>8, <1>9 DEF Noting, Typed, TypeOK, SoundRequest, table
<1>11. OneTokenPerId'
  <2>1. ASSUME NEW q \in Requests, Using(requests'[q])
        PROVE  /\ requests'[q].id <= lastConnection
               /\ requests'[q].id = connection.id => requests'[q].token = connection.token
    BY <1>1, <1>3, <1>7, <2>1 DEF Noting, OneTokenPerId
  <2> QED
    BY <1>9, <2>1 DEF OneTokenPerId, table
<1> QED
  BY <1>9, <1>10, <1>11 DEF Noting, VerdictsStayWithTheirToken, table

\* The other app answers a search or a visit.
LEMMA AskAppKeeps ==
  ASSUME Typed, NEW r \in Requests, AskApp(r)
  PROVE  Typed' /\ NoNewUse /\ table' = table
<1>1. requests \in [Requests -> SoundRequest] /\ Using(requests[r])
  BY DEF Typed, AskApp, At, Using
<1>2. PICK verdict \in {"ok", "reconnect", "other"} :
        requests' = [requests EXCEPT ![r].step = "told", ![r].result = verdict]
  BY DEF AskApp
<1> DEFINE told == [[requests[r] EXCEPT !.step = "told"] EXCEPT !.result = verdict]
<1>3. requests[r] \in RequestType /\ requests[r].id # 0 /\ requests[r].token # 0
      /\ requests[r].kind \in {"search", "visit"}
  BY <1>1 DEF SoundRequest, Using
<1>4. verdict \in Results
  BY DEF Results
<1>5. told \in RequestType /\ told.id = requests[r].id /\ told.token = requests[r].token
      /\ told.kind = requests[r].kind
  BY <1>3, <1>4 DEF RequestType
<1>6. requests' = [requests EXCEPT ![r] = told]
  BY <1>1, <1>2, <1>3 DEF RequestType
<1>7. told \in SoundRequest
  BY <1>3, <1>5 DEF SoundRequest, Loads
<1> HIDE DEF told
<1>8. requests' \in [Requests -> SoundRequest] /\ NoNewUse
  BY <1>1, <1>5, <1>6, <1>7 DEF NoNewUse
<1> QED
  BY <1>8 DEF AskApp, Typed, TypeOK, SoundRequest, table

\* The verdict is noted on the row it is about, if that is still there.
LEMMA NoteVerdictKeeps ==
  ASSUME Noting, NEW r \in Requests, NoteVerdict(r)
  PROVE  Noting'
<1>1. requests \in [Requests -> SoundRequest] /\ Using(requests[r])
  BY DEF Noting, Typed, NoteVerdict, At, Using
<1>2. requests[r].id # 0 /\ requests[r].token \in 1 .. MaxGrants
  BY <1>1, ConnectionsAssumption DEF SoundRequest, RequestType
<1>3. requests' \in [Requests -> SoundRequest] /\ NoNewUse
  BY <1>1, EndsSound DEF NoteVerdict
<1>4. UNCHANGED <<lastConnection, grants, cookie, page>>
  BY DEF NoteVerdict
<1>5. PICK verdict \in {0, requests[r].token} : connection' \in {connection, Noted(r, verdict)}
  BY DEF NoteVerdict
<1>6. connection \in RowType \cup {NoRow}
  BY DEF Noting, Typed, TypeOK
<1>7. CASE connection' = connection
  BY <1>3, <1>4, <1>7
     DEF Noting, Typed, TypeOK, SoundRequest, OneTokenPerId, NoNewUse, VerdictsStayWithTheirToken
<1>8. CASE connection' # connection
  <2>1. connection.id = requests[r].id /\ connection' = [connection EXCEPT !.failed = verdict]
    BY <1>5, <1>8 DEF Noted, IsItsRow
  <2>2. connection \in RowType
    BY <1>2, <1>6, <2>1 DEF NoRow
  <2>3. verdict \in 0 .. MaxGrants
    BY <1>2, ConnectionsAssumption
  <2>4. connection' \in RowType /\ connection'.id = connection.id
        /\ connection'.token = connection.token /\ connection'.failed = verdict
    BY <2>1, <2>2, <2>3 DEF RowType
  <2>5. connection.token = requests[r].token
    BY <1>1, <2>1 DEF Noting, OneTokenPerId
  <2> QED
    BY <1>3, <1>4, <2>4, <2>5
       DEF Noting, Typed, TypeOK, SoundRequest, OneTokenPerId, NoNewUse, VerdictsStayWithTheirToken
<1> QED
  BY <1>7, <1>8

\* The grants ever opened are a finite number.
LEMMA OpenedIsNat ==
  ASSUME DOMAIN grants = 1 .. MaxGrants
  PROVE  Opened \in Nat
<1> DEFINE opened == {g \in DOMAIN grants : grants[g].state # "none"}
<1>1. IsFiniteSet(1 .. MaxGrants)
  BY FS_Interval, ConnectionsAssumption
<1>2. IsFiniteSet(opened)
  BY <1>1, FS_Subset
<1> QED
  BY <1>2, FS_CardinalityType DEF Opened

\* A grant is opened, or the other app does not answer.
LEMMA OpenGrantKeeps ==
  ASSUME Typed, NEW r \in Requests, OpenGrant(r)
  PROVE  Typed' /\ NoNewUse /\ table' = table
<1>1. requests \in [Requests -> SoundRequest] /\ DOMAIN grants = 1 .. MaxGrants
      /\ requests[r].kind \notin Loads
  BY DEF Typed, TypeOK, OpenGrant, At, Loads
<1>2. "none" \in Results /\ Keep \in Keep .. MaxGrants
  BY ConnectionsAssumption DEF Results, Keep
<1>3. CASE grants' = grants /\ Answers(r, "none", Keep)
  BY <1>1, <1>2, <1>3, EndsSound DEF Typed, TypeOK, SoundRequest, OpenGrant, table
<1>4. CASE /\ Opened < MaxGrants
           /\ grants' = [grants EXCEPT ![Opened + 1].state = "open"]
           /\ Answers(r, "none", Opened + 1)
  <2>1. Opened + 1 \in 1 .. MaxGrants /\ Opened + 1 \in Keep .. MaxGrants
    BY <1>1, <1>4, OpenedIsNat, ConnectionsAssumption DEF Keep
  <2>2. requests' \in [Requests -> SoundRequest] /\ NoNewUse
    BY <1>1, <1>2, <1>4, <2>1, EndsSound
  <2> QED
    BY <1>4, <2>1, <2>2 DEF Typed, TypeOK, SoundRequest, OpenGrant, table
<1> QED
  BY <1>3, <1>4 DEF OpenGrant

\* A poll asks about its grant.
LEMMA CheckGrantKeeps ==
  ASSUME Typed, NEW r \in Requests, CheckGrant(r)
  PROVE  Typed' /\ NoNewUse /\ table' = table
<1>1. requests \in [Requests -> SoundRequest] /\ requests[r].kind = "poll"
      /\ requests[r].step = "asked" /\ requests[r].kind \notin Loads
  BY DEF Typed, CheckGrant, At, Loads
<1>2. {"pending", "over"} \subseteq Results /\ {0, Keep} \subseteq Keep .. MaxGrants
  BY ConnectionsAssumption DEF Results, Pages, Keep
<1>3. grants' \in {grants, Consumed(requests[r].grant)}
  BY DEF CheckGrant
<1>4. grants' \in [1 .. MaxGrants ->
        [state : {"none", "open", "approved", "denied", "good", "rejected"}, lapsed : BOOLEAN]]
  BY <1>3 DEF Typed, TypeOK, Consumed
<1>5. requests' \in [Requests -> SoundRequest] /\ NoNewUse
  <2>1. CASE Answers(r, "pending", Keep) \/ Answers(r, "over", 0)
    BY <1>1, <1>2, <2>1, EndsSound
  <2>2. CASE requests' = [requests EXCEPT ![r].step = "store"]
    <3>1. requests[r] \in RequestType /\ requests[r].grant # 0
      BY <1>1 DEF SoundRequest
    <3>2. [requests[r] EXCEPT !.step = "store"] \in SoundRequest
          /\ ~Using([requests[r] EXCEPT !.step = "store"])
      BY <3>1, <1>1 DEF SoundRequest, RequestType, Using, Loads
    <3>3. requests' = [requests EXCEPT ![r] = [requests[r] EXCEPT !.step = "store"]]
      BY <1>1, <2>2
    <3> QED
      BY <1>1, <3>2, <3>3 DEF NoNewUse
  <2> QED
    BY <2>1, <2>2 DEF CheckGrant
<1> QED
  BY <1>4, <1>5 DEF Typed, TypeOK, SoundRequest, CheckGrant, table

\* The connection is replaced under an id no request has.
LEMMA StoreGrantKeeps ==
  ASSUME Noting, NEW r \in Requests, StoreGrant(r)
  PROVE  Noting'
<1>1. requests \in [Requests -> SoundRequest] /\ requests[r].kind = "poll"
      /\ requests[r].step = "store" /\ requests[r].kind \notin Loads /\ lastConnection \in Nat
  BY DEF Noting, Typed, TypeOK, StoreGrant, At, Loads
<1>2. requests[r].grant \in 1 .. MaxGrants
  BY <1>1, ConnectionsAssumption DEF SoundRequest, RequestType
<1>3. "over" \in Results /\ 0 \in Keep .. MaxGrants
  BY ConnectionsAssumption DEF Results, Keep
<1>4. requests' \in [Requests -> SoundRequest] /\ NoNewUse
  BY <1>1, <1>3, EndsSound DEF StoreGrant
<1>5. connection' = [id |-> lastConnection + 1, token |-> requests[r].grant, failed |-> 0]
      /\ lastConnection' = lastConnection + 1 /\ UNCHANGED <<grants, cookie, page>>
  BY DEF StoreGrant, Replacing
<1>6. connection' \in RowType /\ connection'.id = lastConnection + 1 /\ connection'.failed = 0
  BY <1>1, <1>2, <1>5, ConnectionsAssumption DEF RowType
<1>7. Typed'
  BY <1>1, <1>4, <1>5, <1>6 DEF Noting, Typed, TypeOK, SoundRequest
<1>8. OneTokenPerId'
  <2>1. ASSUME NEW q \in Requests, Using(requests'[q])
        PROVE  requests'[q].id <= lastConnection /\ requests'[q].id \in Nat
    BY <1>4, <2>1 DEF Noting, OneTokenPerId, NoNewUse, SoundRequest, RequestType
  <2> QED
    BY <1>1, <1>5, <1>6, <2>1 DEF OneTokenPerId
<1> QED
  BY <1>6, <1>7, <1>8 DEF Noting, VerdictsStayWithTheirToken

\* The browser takes an answer, or a request stops.
LEMMA ReceiveKeeps ==
  ASSUME Typed, NEW r \in Requests, Receive(r) \/ Cancel(r)
  PROVE  Typed' /\ NoNewUse /\ table' = table
<1>1. requests \in [Requests -> SoundRequest]
  BY DEF Typed
<1>2. CASE Cancel(r)
  <2>1. requests' \in [Requests -> SoundRequest] /\ NoNewUse
    BY <1>1, <1>2, EndsSound DEF Cancel
  <2> QED
    BY <1>2, <2>1 DEF Cancel, Typed, TypeOK, SoundRequest, table
<1>3. CASE Receive(r)
  <2> DEFINE t == requests[r].tab
             jar == IF requests[r].sets = Keep THEN cookie ELSE requests[r].sets
  <2>1. jar \in 0 .. MaxGrants
    BY <1>1, ConnectionsAssumption DEF Typed, TypeOK, SoundRequest, RequestType, Keep
  <2>2. cookie' = jar /\ table' = table /\ grants' = grants
    BY <1>3 DEF Receive
  <2>3. t \in Tabs \cup {NoTab} /\ requests[r].step = "reply"
    BY <1>1, <1>3 DEF SoundRequest, RequestType, Receive
  <2>4. CASE /\ requests' = [Abandoned(t) EXCEPT ![r] = Settings(t, jar)]
             /\ page' = [page EXCEPT ![t] = "loading"]
    <3>1. Settings(t, jar) \in SoundRequest /\ ~Using(Settings(t, jar))
      BY <2>1, <2>3, PagesSound DEF Typed, Settings, Reply, Idle, Using
    <3>2. "settings" \in Kinds
      BY DEF Kinds, Navigations, Loads
    <3>3. /\ Abandoned(t) \in [Requests -> SoundRequest]
          /\ \A q \in Requests : Using(Abandoned(t)[q]) =>
               /\ Using(requests[q])
               /\ Abandoned(t)[q].id = requests[q].id /\ Abandoned(t)[q].token = requests[q].token
      BY <1>1, <2>3, <3>1, <3>2, SendsSound
    <3>4. requests' \in [Requests -> SoundRequest] /\ NoNewUse
      BY <2>4, <3>1, <3>3 DEF NoNewUse
    <3>5. page' \in [Tabs -> Pages]
      BY <2>4 DEF Typed, TypeOK, Pages
    <3> QED
      BY <2>1, <2>2, <3>4, <3>5 DEF Typed, TypeOK, SoundRequest, table
  <2>5. CASE /\ Ends(r)
             /\ page' = IF requests[r].kind \in Loads THEN [page EXCEPT ![t] = requests[r].result]
                                                      ELSE page
    <3>1. requests' \in [Requests -> SoundRequest] /\ NoNewUse
      BY <1>1, <2>5, EndsSound
    <3>2. requests[r].kind \in Loads => requests[r].result \in Pages
      BY <1>1, <2>3 DEF SoundRequest
    <3>3. page' \in [Tabs -> Pages]
      BY <2>5, <3>2 DEF Typed, TypeOK
    <3> QED
      BY <2>1, <2>2, <3>1, <3>3 DEF Typed, TypeOK, SoundRequest, table
  <2> QED
    BY <1>3, <2>4, <2>5 DEF Receive, Leaves
<1> QED
  BY <1>2, <1>3

\* A grant is decided or its token revoked, or its deadline passes.
LEMMA GrantsKeep ==
  ASSUME Typed, NEW g \in 1 .. MaxGrants, Decide(g) \/ Revoke(g) \/ Lapse(g)
  PROVE  Typed' /\ NoNewUse /\ table' = table
<1> DEFINE GrantType ==
      [state : {"none", "open", "approved", "denied", "good", "rejected"}, lapsed : BOOLEAN]
<1>1. grants \in [1 .. MaxGrants -> GrantType]
  BY DEF Typed, TypeOK
<1>2. UNCHANGED <<table, cookie, page, requests>>
  BY DEF Decide, Revoke, Lapse
<1>3. \/ \E state \in {"approved", "denied", "rejected"} : grants' = [grants EXCEPT ![g].state = state]
      \/ grants' = [grants EXCEPT ![g].lapsed = TRUE]
  BY DEF Decide, Revoke, Lapse
<1>4. ASSUME NEW state \in {"approved", "denied", "rejected"}
      PROVE  [grants[g] EXCEPT !.state = state] \in GrantType
  BY <1>1
<1>5. [grants[g] EXCEPT !.lapsed = TRUE] \in GrantType
  BY <1>1
<1> HIDE DEF GrantType
<1>6. grants' \in [1 .. MaxGrants -> GrantType]
  BY <1>1, <1>3, <1>4, <1>5
<1> QED
  BY <1>2, <1>6 DEF GrantType, Typed, TypeOK, NoNewUse, table

\* A step that starts no use, and leaves the row or takes it away, keeps notes.
LEMMA NotesKeep ==
  ASSUME Noting, Typed', NoNewUse, lastConnection' = lastConnection,
         connection' \in {connection, NoRow}
  PROVE  Noting'
<1>1. OneTokenPerId'
  <2>1. ASSUME NEW q \in Requests, Using(requests'[q])
        PROVE  /\ requests'[q].id <= lastConnection /\ requests'[q].id # 0
               /\ requests'[q].id = connection.id => requests'[q].token = connection.token
    BY <2>1 DEF Noting, Typed, SoundRequest, OneTokenPerId, NoNewUse
  <2> QED
    BY <2>1 DEF OneTokenPerId, NoRow
<1>2. VerdictsStayWithTheirToken'
  BY DEF Noting, VerdictsStayWithTheirToken, NoRow
<1> QED
  BY <1>1, <1>2 DEF Noting

\* Nothing is under way at first.
LEMMA InitNotes == Init => Noting
<1> SUFFICES ASSUME Init PROVE Noting
  OBVIOUS
<1>1. requests \in [Requests -> SoundRequest] /\ \A r \in Requests : ~Using(requests[r])
  BY IdleSound DEF Init, Using
<1>2. TypeOK
  BY <1>1, ConnectionsAssumption DEF Init, TypeOK, SoundRequest, NoGrant, NoRow, Pages
<1> QED
  BY <1>1, <1>2 DEF Noting, Typed, OneTokenPerId, VerdictsStayWithTheirToken, Init, NoRow

\* Every step keeps the types, and every verdict with its token.
LEMMA StepNotes == Noting /\ [Next]_vars => Noting'
<1> SUFFICES ASSUME Noting, [Next]_vars PROVE Noting'
  OBVIOUS
<1>1. Typed
  BY DEF Noting
<1>2. CASE UNCHANGED vars
  BY <1>2 DEF vars, table, Noting, Typed, TypeOK, OneTokenPerId, VerdictsStayWithTheirToken
<1>3. ASSUME NEW r \in Requests, Handle(r) \/ Receive(r) \/ Cancel(r)
      PROVE  Noting'
  BY <1>1, <1>3, AskAppKeeps, NoteVerdictKeeps, OpenGrantKeeps, CheckGrantKeeps, StoreGrantKeeps,
     ReceiveKeeps, NotesKeep DEF Handle, table
<1>4. ASSUME NEW t \in Tabs, NEW kind \in Kinds, Load(t, kind) \/ ConnectedClient(t, kind)
      PROVE  Noting'
  BY <1>1, <1>4, PagesKeep, ReadsKeep, NotesKeep
<1>5. ASSUME NEW t \in Tabs, Poll(t) \/ Open(t) \/ Disconnect(t)
      PROVE  Noting'
  BY <1>1, <1>5, PagesKeep, NotesKeep
<1>6. ASSUME NEW g \in 1 .. MaxGrants, Decide(g) \/ Revoke(g) \/ Lapse(g)
      PROVE  Noting'
  BY <1>1, <1>6, GrantsKeep, NotesKeep DEF table
<1> QED
  BY <1>2, <1>3, <1>4, <1>5, <1>6 DEF Next

\* The row, the grants, the pages and every request keep their types, whatever
\* tabs, requests and grants there are (TypeOK of Connections).
THEOREM TypeCorrect == Spec => []TypeOK
<1>1. Noting => TypeOK
  BY DEF Noting, Typed
<1> QED
  BY <1>1, InitNotes, StepNotes, PTL DEF Spec

\* However searches, visits, polls and disconnections cross, a rejection noted on
\* a connection is of that connection's token (recordSearchFailure).
THEOREM VerdictsAlwaysStay == Spec => []VerdictsStayWithTheirToken
<1>1. Noting => VerdictsStayWithTheirToken
  BY DEF Noting
<1> QED
  BY <1>1, InitNotes, StepNotes, PTL DEF Spec

=============================================================================
