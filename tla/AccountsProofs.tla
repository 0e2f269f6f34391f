---------------------------- MODULE AccountsProofs ----------------------------
(***************************************************************************)
(* Accounts, sessions and approval for any number of users and requests.   *)
(***************************************************************************)
EXTENDS Accounts, TLAPS

\* Adding a row to a table, and taking rows out.
LEMMA WithRows ==
  ASSUME NEW table, NEW id, NEW row
  PROVE  /\ DOMAIN With(table, id, row) = DOMAIN table \cup {id}
         /\ With(table, id, row)[id] = row
         /\ \A k \in DOMAIN table : k # id => With(table, id, row)[k] = table[k]
BY DEF With

\* Taking rows out of a table leaves the others as they were.
LEMMA WithoutRows ==
  ASSUME NEW table, NEW gone
  PROVE  /\ DOMAIN Without(table, gone) = DOMAIN table \ gone
         /\ \A k \in DOMAIN table \ gone : Without(table, gone)[k] = table[k]
BY DEF Without

\* Adding a row of the table's type keeps that type.
LEMMA WithTyped ==
  ASSUME NEW table, NEW Row, table \in [DOMAIN table -> Row], NEW id, NEW row \in Row
  PROVE  With(table, id, row) \in [DOMAIN With(table, id, row) -> Row]
BY DEF With

\* Taking rows out keeps the table's type.
LEMMA WithoutTyped ==
  ASSUME NEW table, NEW Row, table \in [DOMAIN table -> Row], NEW gone
  PROVE  Without(table, gone) \in [DOMAIN Without(table, gone) -> Row]
BY DEF Without

\* A request that ends, or goes on to its next step, is a request still.
LEMMA RequestsTyped ==
  ASSUME requests \in [Requests -> RequestType], NEW r \in Requests,
         Ends(r) \/ \E step \in Steps : Continues(r, step)
  PROVE  requests' \in [Requests -> RequestType]
<1> USE AccountsAssumption
<1>1. Idle \in RequestType
  BY DEF Idle, RequestType, Steps, AllKinds
<1>2. ASSUME NEW step \in Steps
      PROVE  [requests[r] EXCEPT !.step = step] \in RequestType
  BY <1>2 DEF RequestType
<1> QED
  BY <1>1, <1>2 DEF Ends, Continues

\* A request that is about one account from its start.
LEMMA StartedTyped ==
  ASSUME NEW step \in Steps, NEW u \in 1 .. MaxUsers
  PROVE  [Idle EXCEPT !.step = step, !.user = u] \in RequestType
<1>1. Idle \in RequestType
  BY AccountsAssumption DEF Idle, RequestType, Steps, AllKinds
<1>2. u \in 0 .. MaxUsers
  BY AccountsAssumption
<1> QED
  BY <1>1, <1>2 DEF RequestType

-----------------------------------------------------------------------------
(* Types.                                                                  *)

\* The empty database is well typed.
LEMMA InitTyped == Init => TypeOK
<1> SUFFICES ASSUME Init PROVE TypeOK
  OBVIOUS
<1> USE AccountsAssumption
<1>1. Idle \in RequestType
  BY DEF Idle, RequestType, Steps, AllKinds
<1>2. DOMAIN users = {} /\ DOMAIN sessions = {}
  BY DEF Init
<1>3. users \in [DOMAIN users -> UserType] /\ sessions \in [DOMAIN sessions -> SessionType]
  BY <1>2 DEF Init
<1> QED
  BY <1>1, <1>2, <1>3 DEF Init, TypeOK

\* Signing up keeps the types.
LEMMA SignUpTyped ==
  ASSUME TypeOK, NEW email \in Emails, SignUp(email)
  PROVE  TypeOK'
<1> USE AccountsAssumption
<1> DEFINE row == [email |-> email, admin |-> DOMAIN users = {}, approved |-> DOMAIN users = {},
                   digest |-> lastDigest + 1]
<1>1. row \in UserType
  BY DEF SignUp, TypeOK, UserType
<1>2. users' = With(users, lastUser + 1, row)
  BY DEF SignUp
<1> HIDE DEF row
<1>3. users' \in [DOMAIN users' -> UserType]
  BY <1>1, <1>2, WithTyped DEF TypeOK
<1>4. DOMAIN users' = DOMAIN users \cup {lastUser + 1}
  BY <1>2, WithRows
<1>5. DOMAIN users' \subseteq 1 .. lastUser'
  BY <1>4 DEF SignUp, TypeOK
<1> QED
  BY <1>3, <1>5 DEF SignUp, TypeOK, mails

\* Signing in keeps the types.
LEMMA SignInTyped ==
  ASSUME TypeOK, NEW r \in Requests,
         \/ \E u \in DOMAIN users : Authenticate(r, u)
         \/ DeleteExpiredSessions(r)
         \/ CreateSession(r)
  PROVE  TypeOK'
<1> USE AccountsAssumption
<1>1. ASSUME NEW u \in DOMAIN users, Authenticate(r, u)
      PROVE  TypeOK'
  <2> u \in 1 .. MaxUsers
    BY DEF TypeOK
  <2>1. [Idle EXCEPT !.step = "prune", !.user = u] \in RequestType
    BY StartedTyped DEF Steps, TypeOK
  <2>2. requests' \in [Requests -> RequestType]
    BY <1>1, <2>1 DEF Authenticate, TypeOK
  <2> QED
    BY <1>1, <2>2 DEF Authenticate, TypeOK, counters, mails
<1>2. CASE DeleteExpiredSessions(r)
  <2>1. requests' \in [Requests -> RequestType]
    BY <1>2, RequestsTyped DEF DeleteExpiredSessions, TypeOK, Steps
  <2>2. DOMAIN sessions' \subseteq DOMAIN sessions /\ sessions' \in [DOMAIN sessions' -> SessionType]
    BY <1>2, WithoutRows, WithoutTyped DEF DeleteExpiredSessions, Pruned, TypeOK
  <2> QED
    BY <1>2, <2>1, <2>2 DEF DeleteExpiredSessions, TypeOK, counters, mails
<1>3. CASE CreateSession(r)
  <2> DEFINE row == [user |-> requests[r].user, expires |-> now + SessionLifetime, seen |-> now]
  <2>1. requests' \in [Requests -> RequestType]
    BY <1>3, RequestsTyped DEF CreateSession, TypeOK
  <2>2. CASE Storable(requests[r].user)
    <3>1. row \in SessionType
      BY <2>2 DEF Storable, SessionType, TypeOK
    <3>2. sessions' = With(sessions, lastSession + 1, row) /\ lastSession' = lastSession + 1
          /\ lastSession < MaxSessions
      BY <1>3, <2>2 DEF CreateSession
    <3> HIDE DEF row
    <3>3. sessions' \in [DOMAIN sessions' -> SessionType]
      BY <3>1, <3>2, WithTyped DEF TypeOK
    <3>4. DOMAIN sessions' = DOMAIN sessions \cup {lastSession + 1}
      BY <3>2, WithRows
    <3>5. DOMAIN sessions' \subseteq 1 .. lastSession'
      BY <3>2, <3>4 DEF TypeOK
    <3> QED
      BY <1>3, <2>1, <3>2, <3>3, <3>5 DEF CreateSession, TypeOK, mails
  <2>3. CASE ~Storable(requests[r].user)
    BY <1>3, <2>1, <2>3 DEF CreateSession, TypeOK, mails
  <2> QED
    BY <2>2, <2>3
<1> QED
  BY <1>1, <1>2, <1>3

\* A request with a session, from its arrival to its own handler, keeps the types.
LEMMA ArrivalTyped ==
  ASSUME TypeOK, NEW r \in Requests,
         \/ \E s \in DOMAIN sessions, kind \in Kinds, target \in DOMAIN users \cup {0} :
              Arrive(r, s, kind, target)
         \/ Admit(r)
         \/ RefreshSession(r)
         \/ SignOut(r)
  PROVE  TypeOK'
<1> USE AccountsAssumption
<1>1. ASSUME NEW s \in DOMAIN sessions, NEW kind \in Kinds, NEW target \in DOMAIN users \cup {0},
             Arrive(r, s, kind, target)
      PROVE  TypeOK'
  <2> DEFINE new == [step |-> "user", session |-> s, user |-> sessions[s].user,
                     expires |-> sessions[s].expires, kind |-> kind, target |-> target,
                     label |-> kind = "toggle" /\ users[target].approved]
  <2>1. sessions[s] \in SessionType /\ s \in 0 .. MaxSessions /\ target \in 0 .. MaxUsers
    BY DEF TypeOK
  <2>2. (kind = "toggle" /\ users[target].approved) \in BOOLEAN
    <3>1. CASE kind # "toggle"
      BY <3>1
    <3>2. CASE kind = "toggle"
      <4>1. target \in DOMAIN users
        BY <1>1, <3>2 DEF Arrive, AdminKinds
      <4> QED
        BY <4>1 DEF TypeOK, UserType
    <3> QED
      BY <3>1, <3>2
  <2>3. new \in RequestType
    BY <2>1, <2>2 DEF RequestType, SessionType, Steps
  <2>4. requests' = [requests EXCEPT ![r] = new]
    BY <1>1 DEF Arrive
  <2> HIDE DEF new
  <2>5. requests' \in [Requests -> RequestType]
    BY <2>3, <2>4 DEF TypeOK
  <2> QED
    BY <1>1, <2>5 DEF Arrive, TypeOK, counters, mails
<1>2. CASE Admit(r)
  <2>1. requests' \in [Requests -> RequestType]
    BY <1>2, RequestsTyped DEF Admit, TypeOK, Steps
  <2> QED
    BY <1>2, <2>1 DEF Admit, TypeOK, counters, mails
<1>3. CASE RefreshSession(r)
  <2> DEFINE s == requests[r].session
  <2>1. requests' \in [Requests -> RequestType]
    BY <1>3, RequestsTyped DEF RefreshSession, TypeOK, Steps
  <2>2. DOMAIN sessions' = DOMAIN sessions /\ sessions' \in [DOMAIN sessions -> SessionType]
    <3>1. CASE s \in DOMAIN sessions
      BY <1>3, <3>1 DEF RefreshSession, Extended, TypeOK, SessionType
    <3>2. CASE s \notin DOMAIN sessions
      BY <1>3, <3>2 DEF RefreshSession, Extended, TypeOK
    <3> QED
      BY <3>1, <3>2
  <2> QED
    BY <1>3, <2>1, <2>2 DEF RefreshSession, TypeOK, counters, mails
<1>4. CASE SignOut(r)
  <2>1. requests' \in [Requests -> RequestType]
    BY <1>4, RequestsTyped DEF SignOut, TypeOK
  <2>2. DOMAIN sessions' \subseteq DOMAIN sessions /\ sessions' \in [DOMAIN sessions' -> SessionType]
    BY <1>4, WithoutRows, WithoutTyped DEF SignOut, TypeOK
  <2> QED
    BY <1>4, <2>1, <2>2 DEF SignOut, TypeOK, counters, mails
<1> QED
  BY <1>1, <1>2, <1>3, <1>4

\* A new digest in a row of users.
LEMMA DigestTyped ==
  ASSUME TypeOK, lastDigest < MaxDigests, NEW u \in DOMAIN users,
         users' = [users EXCEPT ![u].digest = lastDigest + 1]
  PROVE  DOMAIN users' = DOMAIN users /\ users' \in [DOMAIN users -> UserType]
<1>1. lastDigest + 1 \in 1 .. MaxDigests
  BY AccountsAssumption DEF TypeOK
<1> QED
  BY <1>1 DEF TypeOK, UserType

\* Changing a password keeps the types.
LEMMA ChangeTyped ==
  ASSUME TypeOK, NEW r \in Requests, CheckPassword(r) \/ UpdatePassword(r)
  PROVE  TypeOK'
<1> USE AccountsAssumption
<1>1. CASE CheckPassword(r)
  <2>1. requests' \in [Requests -> RequestType]
    BY <1>1, RequestsTyped DEF CheckPassword, TypeOK, Steps
  <2> QED
    BY <1>1, <2>1 DEF CheckPassword, TypeOK, counters, mails
<1>2. CASE UpdatePassword(r)
  <2>1. requests' \in [Requests -> RequestType]
    BY <1>2, RequestsTyped DEF UpdatePassword, TypeOK
  <2>2. CASE requests[r].user \in DOMAIN users
    BY <1>2, <2>1, <2>2, DigestTyped DEF UpdatePassword, TypeOK, mails
  <2>3. CASE requests[r].user \notin DOMAIN users
    BY <1>2, <2>1, <2>3 DEF UpdatePassword, TypeOK, mails
  <2> QED
    BY <2>2, <2>3
<1> QED
  BY <1>1, <1>2

\* The admin's switch, its mail and deletions keep the types.
LEMMA AdminTyped ==
  ASSUME TypeOK, NEW r \in Requests, ToggleApproved(r) \/ MailApproval(r) \/ DeleteUser(r)
  PROVE  TypeOK'
<1> USE AccountsAssumption
<1> DEFINE u == requests[r].target
<1>1. CASE ToggleApproved(r)
  <2>1. requests' \in [Requests -> RequestType]
    BY <1>1, RequestsTyped DEF ToggleApproved, TypeOK, Steps
  <2>2. CASE Switchable(u)
    <3>1. users' = [users EXCEPT ![u].approved = ~@] /\ u \in DOMAIN users
      BY <1>1, <2>2 DEF ToggleApproved, Switchable
    <3>2. DOMAIN users' = DOMAIN users /\ users' \in [DOMAIN users -> UserType]
      BY <3>1 DEF TypeOK, UserType
    <3>3. DOMAIN sessions' \subseteq DOMAIN sessions
          /\ sessions' \in [DOMAIN sessions' -> SessionType]
      <4>1. sessions' = Without(sessions, Loses(u))
        BY <1>1, <2>2 DEF ToggleApproved
      <4> QED
        BY <4>1, WithoutRows, WithoutTyped DEF TypeOK
    <3> QED
      BY <1>1, <2>1, <2>2, <3>2, <3>3 DEF ToggleApproved, TypeOK, counters, mails
  <2>3. CASE ~Switchable(u)
    BY <1>1, <2>1, <2>3 DEF ToggleApproved, TypeOK, counters, mails
  <2> QED
    BY <2>2, <2>3
<1>2. CASE MailApproval(r)
  <2>1. requests' \in [Requests -> RequestType]
    BY <1>2, RequestsTyped DEF MailApproval, TypeOK
  <2>2. told' \subseteq 1 .. MaxUsers /\ missed' \subseteq 0 .. MaxUsers
    <3>1. ASSUME u \in DOMAIN users
          PROVE  u \in 1 .. MaxUsers /\ u \in 0 .. MaxUsers
      BY <3>1 DEF TypeOK
    <3> QED
      BY <1>2, <3>1 DEF MailApproval, TypeOK, mails
  <2> QED
    BY <1>2, <2>1, <2>2 DEF MailApproval, TypeOK, counters, mails
<1>3. CASE DeleteUser(r)
  <2>1. requests' \in [Requests -> RequestType]
    BY <1>3, RequestsTyped DEF DeleteUser, TypeOK
  <2>2. CASE UNCHANGED <<users, sessions, mails>>
    BY <1>3, <2>1, <2>2 DEF DeleteUser, TypeOK, counters, mails
  <2>3. CASE /\ sessions' = Without(sessions, SessionsOf(u))
             /\ users' = Without(users, {u})
             /\ told' = told \ {u} /\ missed' = missed \ {u}
    <3>1. DOMAIN sessions' \subseteq DOMAIN sessions
          /\ sessions' \in [DOMAIN sessions' -> SessionType]
      BY <2>3, WithoutRows, WithoutTyped DEF TypeOK
    <3>2. DOMAIN users' \subseteq DOMAIN users /\ users' \in [DOMAIN users' -> UserType]
      BY <2>3, WithoutRows, WithoutTyped DEF TypeOK
    <3> QED
      BY <1>3, <2>1, <2>3, <3>1, <3>2 DEF DeleteUser, TypeOK, counters, mails
  <2> QED
    BY <1>3, <2>2, <2>3 DEF DeleteUser
<1> QED
  BY <1>1, <1>2, <1>3

\* Mailing, following and using links, and set-password, keep the types.
LEMMA LinkTyped ==
  ASSUME TypeOK, NEW u \in DOMAIN users, Mailing(u)
  PROVE  links' \subseteq LinkType
<1> DEFINE link == [user |-> u, expires |-> now + LinkLifetime, digest |-> users[u].digest]
<1>1. u \in 1 .. MaxUsers /\ now + LinkLifetime \in 0 .. Horizon + LinkLifetime
  BY AccountsAssumption DEF TypeOK
<1>2. users[u].digest \in 1 .. MaxDigests
  BY DEF TypeOK, UserType
<1>3. link \in LinkType
  BY <1>1, <1>2 DEF LinkType
<1> QED
  BY <1>3 DEF Mailing, TypeOK

\* A reset keeps the types of the three tables it rewrites.
LEMMA ResetTyped ==
  ASSUME TypeOK, NEW u \in DOMAIN users, Reset(u)
  PROVE  /\ DOMAIN users' \subseteq DOMAIN users /\ users' \in [DOMAIN users' -> UserType]
         /\ DOMAIN sessions' \subseteq DOMAIN sessions
         /\ sessions' \in [DOMAIN sessions' -> SessionType]
         /\ lastDigest' \in 0 .. MaxDigests
<1>1. DOMAIN users' = DOMAIN users /\ users' \in [DOMAIN users -> UserType]
  BY DigestTyped DEF Reset
<1>2. DOMAIN sessions' \subseteq DOMAIN sessions /\ sessions' \in [DOMAIN sessions' -> SessionType]
  BY WithoutRows, WithoutTyped DEF Reset, TypeOK
<1>3. lastDigest' \in 0 .. MaxDigests
  BY AccountsAssumption DEF Reset, TypeOK
<1> QED
  BY <1>1, <1>2, <1>3

\* Mailing a link, following it and using it keep the types.
LEMMA LinkStepTyped ==
  ASSUME TypeOK, NEW r \in Requests,
         MailLink(r) \/ (\E link \in links : FollowLink(r, link)) \/ ResetPassword(r)
  PROVE  TypeOK'
<1> USE AccountsAssumption
<1>1. CASE MailLink(r)
  <2>1. requests' \in [Requests -> RequestType]
    BY <1>1, RequestsTyped DEF MailLink, TypeOK
  <2>2. links' \subseteq LinkType
    BY <1>1, LinkTyped DEF MailLink, TypeOK
  <2> QED
    BY <1>1, <2>1, <2>2 DEF MailLink, TypeOK, counters, mails
<1>2. ASSUME NEW link \in links, FollowLink(r, link)
      PROVE  TypeOK'
  <2>1. link.user \in 1 .. MaxUsers
    BY DEF TypeOK, LinkType
  <2>2. [Idle EXCEPT !.step = "reset", !.user = link.user] \in RequestType
    BY <2>1, StartedTyped DEF Steps
  <2>3. requests' \in [Requests -> RequestType]
    BY <1>2, <2>2 DEF FollowLink, TypeOK
  <2> QED
    BY <1>2, <2>3 DEF FollowLink, TypeOK, counters, mails
<1>3. CASE ResetPassword(r)
  <2>1. requests' \in [Requests -> RequestType]
    BY <1>3, RequestsTyped DEF ResetPassword, TypeOK
  <2>2. CASE Reset(requests[r].user)
    <3>1. requests[r].user \in DOMAIN users
      BY <2>2 DEF Reset
    <3> QED
      BY <1>3, <2>1, <2>2, <3>1, ResetTyped DEF ResetPassword, TypeOK, mails
  <2>3. CASE UNCHANGED <<users, sessions, lastDigest>>
    BY <1>3, <2>1, <2>3 DEF ResetPassword, TypeOK, mails
  <2> QED
    BY <1>3, <2>2, <2>3 DEF ResetPassword
<1> QED
  BY <1>1, <1>2, <1>3

\* A request that fails keeps them too.
LEMMA GiveUpTyped ==
  ASSUME TypeOK, NEW r \in Requests, GiveUp(r)
  PROVE  TypeOK'
<1> USE AccountsAssumption
<1>1. requests' \in [Requests -> RequestType]
  BY RequestsTyped DEF GiveUp, TypeOK
<1>2. requests[r].target \in 0 .. MaxUsers
  BY DEF TypeOK, RequestType
<1>3. missed' \subseteq 0 .. MaxUsers
  BY <1>2 DEF GiveUp, TypeOK
<1> QED
  BY <1>1, <1>3 DEF GiveUp, TypeOK, counters

\* Steps no request makes keep the types.
LEMMA OutsideTyped ==
  ASSUME TypeOK, (\E u \in DOMAIN users : AskForLink(u) \/ SetPassword(u)) \/ Tick
  PROVE  TypeOK'
<1> USE AccountsAssumption
<1>1. ASSUME NEW u \in DOMAIN users, AskForLink(u)
      PROVE  TypeOK'
  BY <1>1, LinkTyped DEF AskForLink, TypeOK, counters, mails
<1>2. ASSUME NEW u \in DOMAIN users, SetPassword(u)
      PROVE  TypeOK'
  <2>1. Reset(u)
    BY <1>2 DEF SetPassword
  <2> QED
    BY <1>2, <2>1, ResetTyped DEF SetPassword, TypeOK, mails
<1>3. CASE Tick
  BY <1>3 DEF Tick, TypeOK, counters, mails
<1> QED
  BY <1>1, <1>2, <1>3

\* Every step keeps the types.
LEMMA NextTyped == TypeOK /\ [Next]_vars => TypeOK'
<1> SUFFICES ASSUME TypeOK, [Next]_vars PROVE TypeOK'
  OBVIOUS
<1>1. CASE UNCHANGED vars
  BY <1>1 DEF vars, counters, mails, TypeOK
<1>2. ASSUME NEW r \in Requests, RequestStep(r) PROVE TypeOK'
  BY <1>2, SignInTyped, ArrivalTyped, ChangeTyped, AdminTyped, LinkStepTyped, GiveUpTyped DEF RequestStep
<1> QED
  BY <1>1, <1>2, SignUpTyped, OutsideTyped DEF Next

\* For any number of accounts, requests, sessions and links, and any lifetimes,
\* the tables and the requests in flight keep their types.
THEOREM TypeCorrect == Spec => []TypeOK
BY InitTyped, NextTyped, PTL DEF Spec

-----------------------------------------------------------------------------
(* One admin, and only accounts that are there have sessions.              *)

\* What every step keeps of the accounts: the first one is there, is the admin
\* and is approved.
FirstIsAdmin ==
  /\ lastUser > 0 => 1 \in DOMAIN users /\ users[1].approved
  /\ \A u \in DOMAIN users : users[u].admin <=> u = 1

\* A first account that is admin and approved can sign in.
LEMMA FirstSuffices == FirstIsAdmin => AlwaysAWayIn
BY DEF FirstIsAdmin, AlwaysAWayIn

\* The steps that rewrite the accounts, told by what they do to them.
LEMMA UsersRewritten ==
  ASSUME [Next]_vars
  PROVE  \/ users' = users /\ lastUser' = lastUser
         \/ \E email \in Emails : SignUp(email)
         \/ \E u \in DOMAIN users :
              /\ users' = [users EXCEPT ![u].digest = lastDigest + 1]
              /\ lastUser' = lastUser
         \/ \E r \in Requests : ToggleApproved(r)
         \/ \E r \in Requests : DeleteUser(r)
<1>1. CASE UNCHANGED vars
  BY <1>1 DEF vars, counters, mails
<1>2. ASSUME NEW r \in Requests, RequestStep(r), ~ToggleApproved(r), ~DeleteUser(r)
      PROVE  \/ users' = users /\ lastUser' = lastUser
             \/ \E u \in DOMAIN users :
                  /\ users' = [users EXCEPT ![u].digest = lastDigest + 1]
                  /\ lastUser' = lastUser
  BY <1>2 DEF RequestStep, Authenticate, DeleteExpiredSessions, CreateSession, Arrive, Admit,
     RefreshSession, SignOut, CheckPassword, UpdatePassword, MailApproval, MailLink,
     FollowLink, ResetPassword, Reset, GiveUp, counters
<1>3. ASSUME NEW u \in DOMAIN users, AskForLink(u) \/ SetPassword(u)
      PROVE  \/ users' = users /\ lastUser' = lastUser
             \/ /\ users' = [users EXCEPT ![u].digest = lastDigest + 1]
                /\ lastUser' = lastUser
  BY <1>3 DEF AskForLink, SetPassword, Reset, counters
<1>4. CASE Tick
  BY <1>4 DEF Tick, counters
<1> QED
  BY <1>1, <1>2, <1>3, <1>4 DEF Next

\* A step leaves the first account admin, approved and there.
LEMMA FirstKept ==
  ASSUME TypeOK, FirstIsAdmin, [Next]_vars
  PROVE  FirstIsAdmin'
<1>1. CASE users' = users /\ lastUser' = lastUser
  BY <1>1 DEF FirstIsAdmin
<1>2. ASSUME NEW email \in Emails, SignUp(email)
      PROVE  FirstIsAdmin'
  <2> DEFINE row == [email |-> email, admin |-> DOMAIN users = {},
                     approved |-> DOMAIN users = {}, digest |-> lastDigest + 1]
  <2>1. users' = With(users, lastUser + 1, row) /\ lastUser' = lastUser + 1
    BY <1>2 DEF SignUp
  <2>2. /\ lastUser \in Nat /\ DOMAIN users \subseteq 1 .. lastUser
        /\ DOMAIN users = {} <=> lastUser = 0
    <3>1. lastUser \in Nat /\ DOMAIN users \subseteq 1 .. lastUser
      BY AccountsAssumption DEF TypeOK
    <3>2. ASSUME lastUser = 0 PROVE DOMAIN users = {}
      BY <3>1, <3>2
    <3>3. ASSUME lastUser # 0 PROVE 1 \in DOMAIN users
      BY <3>1, <3>3 DEF FirstIsAdmin
    <3> QED
      BY <3>1, <3>2, <3>3
  <2>3. row.admin = (DOMAIN users = {}) /\ row.approved = (DOMAIN users = {})
    OBVIOUS
  <2> HIDE DEF row
  <2>4. /\ DOMAIN users' = DOMAIN users \cup {lastUser + 1}
        /\ users'[lastUser + 1] = row
        /\ \A u \in DOMAIN users : u # lastUser + 1 => users'[u] = users[u]
    <3>1. DOMAIN users' = DOMAIN users \cup {lastUser + 1}
      BY <2>1, WithRows
    <3>2. users'[lastUser + 1] = row
      BY <2>1 DEF With
    <3>3. ASSUME NEW u \in DOMAIN users, u # lastUser + 1
          PROVE  users'[u] = users[u]
      BY <2>1, <3>3 DEF With
    <3> QED
      BY <3>1, <3>2, <3>3
  <2>5. CASE lastUser = 0
    <3>1. lastUser + 1 = 1 /\ DOMAIN users = {}
      BY <2>2, <2>5
    <3>2. DOMAIN users' = {1} /\ users'[1] = row
      BY <2>4, <3>1
    <3>3. row.admin /\ row.approved
      BY <2>3, <3>1
    <3> QED
      BY <3>2, <3>3 DEF FirstIsAdmin
  <2>6. CASE lastUser # 0
    <3>1. lastUser + 1 # 1 /\ lastUser > 0 /\ lastUser + 1 \notin DOMAIN users
      BY <2>2, <2>6
    <3> QED
      BY <2>1, <2>2, <2>3, <2>4, <2>6, <3>1 DEF FirstIsAdmin
  <2> QED
    BY <2>5, <2>6
<1>3. ASSUME NEW u \in DOMAIN users, users' = [users EXCEPT ![u].digest = lastDigest + 1],
             lastUser' = lastUser
      PROVE  FirstIsAdmin'
  BY <1>3 DEF FirstIsAdmin, TypeOK, UserType
<1>4. ASSUME NEW r \in Requests, ToggleApproved(r)
      PROVE  FirstIsAdmin'
  <2>1. CASE Switchable(requests[r].target)
    <3>1. /\ users' = [users EXCEPT ![requests[r].target].approved = ~@]
          /\ lastUser' = lastUser /\ requests[r].target \in DOMAIN users
      BY <1>4, <2>1 DEF ToggleApproved, Switchable, counters
    <3>2. lastUser > 0 => requests[r].target # 1
      BY <2>1 DEF Switchable, FirstIsAdmin
    <3> QED
      BY <3>1, <3>2 DEF FirstIsAdmin, TypeOK, UserType
  <2>2. CASE ~Switchable(requests[r].target)
    BY <1>4, <2>2 DEF ToggleApproved, FirstIsAdmin, counters
  <2> QED
    BY <2>1, <2>2
<1>5. ASSUME NEW r \in Requests, DeleteUser(r)
      PROVE  FirstIsAdmin'
  <2>1. CASE users' = users
    BY <1>5, <2>1 DEF DeleteUser, FirstIsAdmin, counters
  <2>2. CASE users' # users
    <3>1. /\ users' = Without(users, {requests[r].target})
          /\ ~users[requests[r].target].admin /\ requests[r].target \in DOMAIN users
          /\ lastUser' = lastUser
      BY <1>5, <2>2 DEF DeleteUser, counters
    <3>2. requests[r].target # 1
      BY <3>1 DEF FirstIsAdmin
    <3>3. /\ DOMAIN users' = DOMAIN users \ {requests[r].target}
          /\ \A u \in DOMAIN users' : users'[u] = users[u]
      <4>1. DOMAIN users' = DOMAIN users \ {requests[r].target}
        BY <3>1, WithoutRows
      <4> QED
        BY <3>1, <4>1, WithoutRows
    <3> QED
      BY <3>1, <3>2, <3>3 DEF FirstIsAdmin
  <2> QED
    BY <2>1, <2>2
<1> QED
  BY <1>1, <1>2, <1>3, <1>4, <1>5, UsersRewritten

\* There is always one admin, the first account, and it can come in, whatever
\* sign-ups, switches and deletions cross: AlwaysAWayIn for every bound.
THEOREM OneAdminStays == Spec => []AlwaysAWayIn
<1>1. Init => FirstIsAdmin
  BY DEF Init, FirstIsAdmin
<1>2. TypeOK /\ FirstIsAdmin /\ [Next]_vars => FirstIsAdmin'
  BY FirstKept
<1> QED
  BY <1>1, <1>2, FirstSuffices, InitTyped, NextTyped, PTL DEF Spec

-----------------------------------------------------------------------------
(* Sessions.                                                               *)

\* The steps that rewrite the sessions, told by what they do to them.
LEMMA SessionsRewritten ==
  ASSUME [Next]_vars
  PROVE  \/ sessions' = sessions /\ lastSession' = lastSession /\ DOMAIN users \subseteq DOMAIN users'
         \/ /\ \E gone \in SUBSET DOMAIN sessions : sessions' = Without(sessions, gone)
            /\ lastSession' = lastSession /\ DOMAIN users \subseteq DOMAIN users'
         \/ \E r \in Requests : CreateSession(r) /\ Storable(requests[r].user)
         \/ \E r \in Requests : RefreshSession(r) /\ requests[r].session \in DOMAIN sessions
         \/ \E r \in Requests : /\ DeleteUser(r) /\ lastSession' = lastSession
                                /\ users' = Without(users, {requests[r].target})
                                /\ sessions' = Without(sessions, SessionsOf(requests[r].target))
<1> DEFINE Same == /\ sessions' = sessions /\ lastSession' = lastSession
                   /\ DOMAIN users \subseteq DOMAIN users'
           Fewer == /\ \E gone \in SUBSET DOMAIN sessions : sessions' = Without(sessions, gone)
                    /\ lastSession' = lastSession /\ DOMAIN users \subseteq DOMAIN users'
<1>1. ASSUME UNCHANGED vars PROVE Same
  BY <1>1 DEF vars, counters, mails
<1>2. ASSUME NEW r \in Requests,
             \/ \E u \in DOMAIN users : Authenticate(r, u)
             \/ \E s \in DOMAIN sessions, kind \in Kinds, target \in DOMAIN users \cup {0} :
                  Arrive(r, s, kind, target)
             \/ Admit(r) \/ CheckPassword(r) \/ UpdatePassword(r) \/ MailApproval(r)
             \/ MailLink(r) \/ (\E link \in links : FollowLink(r, link)) \/ GiveUp(r)
      PROVE  Same
  BY <1>2 DEF Authenticate, Arrive, Admit, CheckPassword, UpdatePassword, MailApproval,
     MailLink, FollowLink, GiveUp, counters
<1>3. ASSUME NEW u, Reset(u), lastSession' = lastSession
      PROVE  Fewer
  BY <1>3 DEF Reset, SessionsOf
<1>4. ASSUME NEW r \in Requests, DeleteExpiredSessions(r) \/ SignOut(r) \/ ToggleApproved(r)
      PROVE  Same \/ Fewer
  <2>1. CASE DeleteExpiredSessions(r)
    BY <2>1 DEF DeleteExpiredSessions, Pruned, SessionsOf, counters
  <2>2. CASE SignOut(r)
    <3>1. sessions' = Without(sessions, {requests[r].session} \cap DOMAIN sessions)
      BY <2>2 DEF SignOut, Without
    <3> QED
      BY <2>2, <3>1 DEF SignOut, counters
  <2>3. CASE ToggleApproved(r)
    BY <2>3 DEF ToggleApproved, Loses, SessionsOf, counters
  <2> QED
    BY <1>4, <2>1, <2>2, <2>3
<1>5. ASSUME NEW r \in Requests, ResetPassword(r)
      PROVE  Same \/ Fewer
  BY <1>3, <1>5 DEF ResetPassword
<1>6. ASSUME NEW r \in Requests, CreateSession(r), ~Storable(requests[r].user)
      PROVE  Same
  BY <1>6 DEF CreateSession
<1>7. ASSUME NEW r \in Requests, RefreshSession(r), requests[r].session \notin DOMAIN sessions
      PROVE  Same
  BY <1>7 DEF RefreshSession, Extended, counters
<1>8. ASSUME NEW r \in Requests, DeleteUser(r)
      PROVE  \/ Same
             \/ /\ users' = Without(users, {requests[r].target}) /\ lastSession' = lastSession
                /\ sessions' = Without(sessions, SessionsOf(requests[r].target))
  BY <1>8 DEF DeleteUser, counters
<1>9. ASSUME NEW email \in Emails, SignUp(email)
      PROVE  Same
  BY <1>9 DEF SignUp, With
<1>10. ASSUME NEW u \in DOMAIN users, AskForLink(u) \/ SetPassword(u)
       PROVE  Same \/ Fewer
  BY <1>3, <1>10 DEF AskForLink, SetPassword, counters
<1>11. ASSUME Tick PROVE Same
  BY <1>11 DEF Tick, counters
<1> HIDE DEF Same, Fewer
<1>12. ASSUME NEW r \in Requests, RequestStep(r)
       PROVE  \/ Same \/ Fewer
              \/ CreateSession(r) /\ Storable(requests[r].user)
              \/ RefreshSession(r) /\ requests[r].session \in DOMAIN sessions
              \/ /\ DeleteUser(r) /\ lastSession' = lastSession
                 /\ users' = Without(users, {requests[r].target})
                 /\ sessions' = Without(sessions, SessionsOf(requests[r].target))
  <2>1. CASE CreateSession(r)
    BY <1>6, <2>1
  <2>2. CASE RefreshSession(r)
    BY <1>7, <2>2
  <2>3. CASE DeleteUser(r)
    BY <1>8, <2>3
  <2> QED
    BY <1>2, <1>4, <1>5, <1>12, <2>1, <2>2, <2>3 DEF RequestStep
<1>13. \/ Same \/ Fewer \/ \E r \in Requests : RequestStep(r)
  BY <1>1, <1>9, <1>10, <1>11 DEF Next
<1> QED
  BY <1>12, <1>13 DEF Same, Fewer

\* A step leaves every session an owner.
LEMMA OwnersKept ==
  ASSUME TypeOK, SessionsHaveOwners, [Next]_vars
  PROVE  SessionsHaveOwners'
<1>1. CASE sessions' = sessions /\ DOMAIN users \subseteq DOMAIN users'
  BY <1>1 DEF SessionsHaveOwners
<1>2. ASSUME NEW gone \in SUBSET DOMAIN sessions, sessions' = Without(sessions, gone),
             DOMAIN users \subseteq DOMAIN users'
      PROVE  SessionsHaveOwners'
  BY <1>2 DEF Without, SessionsHaveOwners
<1>3. ASSUME NEW r \in Requests, CreateSession(r), Storable(requests[r].user)
      PROVE  SessionsHaveOwners'
  BY <1>3 DEF CreateSession, Storable, With, SessionsHaveOwners
<1>4. ASSUME NEW r \in Requests, RefreshSession(r), requests[r].session \in DOMAIN sessions
      PROVE  SessionsHaveOwners'
  <2>1. /\ DOMAIN sessions' = DOMAIN sessions /\ users' = users
        /\ \A s \in DOMAIN sessions : sessions'[s].user = sessions[s].user
    BY <1>4 DEF RefreshSession, Extended, TypeOK, SessionType
  <2> QED
    BY <2>1 DEF SessionsHaveOwners
<1>5. ASSUME NEW u, users' = Without(users, {u}), sessions' = Without(sessions, SessionsOf(u))
      PROVE  SessionsHaveOwners'
  <2>1. DOMAIN users' = DOMAIN users \ {u} /\ DOMAIN sessions' = DOMAIN sessions \ SessionsOf(u)
    BY <1>5, WithoutRows
  <2>2. \A s \in DOMAIN sessions' : sessions'[s] = sessions[s]
    BY <1>5 DEF Without
  <2> QED
    BY <2>1, <2>2 DEF SessionsHaveOwners, SessionsOf
<1> QED
  BY <1>1, <1>2, <1>3, <1>4, <1>5, SessionsRewritten

\* No session is ever without its account (SessionsHaveOwners), although the
\* account may be deleted while a sign-in is on its way to storing one.
THEOREM EverySessionHasAnOwner == Spec => []SessionsHaveOwners
<1>1. Init => SessionsHaveOwners
  BY DEF Init, SessionsHaveOwners
<1>2. TypeOK /\ SessionsHaveOwners /\ [Next]_vars => SessionsHaveOwners'
  BY OwnersKept
<1> QED
  BY <1>1, <1>2, InitTyped, NextTyped, PTL DEF Spec

-----------------------------------------------------------------------------
(* How long a session lasts.                                               *)

\* What a request in flight knows of its session is never more than the session
\* has: expiries only grow.
ReadsAreOld ==
  \A r \in Requests : requests[r].session \in DOMAIN sessions =>
    requests[r].expires <= sessions[requests[r].session].expires
Issued == \A r \in Requests : requests[r].session <= lastSession
SeenBefore == \A s \in DOMAIN sessions : sessions[s].seen <= now
Lasting == VisitorsStay /\ ReadsAreOld /\ Issued /\ SeenBefore

\* What a step does to what a request knows of its session: nothing, forgets it,
\* or reads it from the table.
LEMMA ReadsRewritten ==
  ASSUME TypeOK, [Next]_vars, NEW q \in Requests
  PROVE  \/ requests'[q].session = requests[q].session /\ requests'[q].expires = requests[q].expires
         \/ requests'[q].session = 0
         \/ \E s \in DOMAIN sessions : /\ requests'[q].session = s
                                      /\ requests'[q].expires = sessions[s].expires
                                      /\ sessions' = sessions
<1> DEFINE Kept == /\ requests'[q].session = requests[q].session
                   /\ requests'[q].expires = requests[q].expires
           Forgotten == requests'[q].session = 0
<1>1. ASSUME requests' = requests PROVE Kept
  BY <1>1
<1>2. ASSUME NEW r \in Requests, Ends(r) PROVE Kept \/ Forgotten
  BY <1>2 DEF Ends, Idle, TypeOK
<1>3. ASSUME NEW r \in Requests, NEW step, Continues(r, step) PROVE Kept
  BY <1>3 DEF Continues, TypeOK, RequestType
<1>4. ASSUME NEW r \in Requests, NEW step, NEW u,
             requests' = [requests EXCEPT ![r] = [Idle EXCEPT !.step = step, !.user = u]]
      PROVE  Kept \/ Forgotten
  BY <1>4 DEF Idle, TypeOK
<1>5. ASSUME NEW r \in Requests, NEW s \in DOMAIN sessions, NEW kind \in Kinds,
             NEW target \in DOMAIN users \cup {0}, Arrive(r, s, kind, target)
      PROVE  \/ Kept
             \/ /\ requests'[q].session = s /\ requests'[q].expires = sessions[s].expires
                /\ sessions' = sessions
  BY <1>5 DEF Arrive, TypeOK
<1> HIDE DEF Kept, Forgotten
<1>6. ASSUME NEW r \in Requests,
             \/ DeleteExpiredSessions(r) \/ CreateSession(r) \/ Admit(r) \/ RefreshSession(r)
             \/ SignOut(r) \/ CheckPassword(r) \/ UpdatePassword(r) \/ ToggleApproved(r)
             \/ MailApproval(r) \/ DeleteUser(r) \/ MailLink(r) \/ ResetPassword(r) \/ GiveUp(r)
      PROVE  Kept \/ Forgotten
  <2>1. Ends(r) \/ \E step : Continues(r, step)
    BY <1>6 DEF DeleteExpiredSessions, CreateSession, Admit, RefreshSession, SignOut,
       CheckPassword, UpdatePassword, ToggleApproved, MailApproval, DeleteUser, MailLink,
       ResetPassword, GiveUp
  <2> QED
    BY <1>2, <1>3, <2>1
<1>7. ASSUME NEW r \in Requests,
             (\E u \in DOMAIN users : Authenticate(r, u)) \/ \E link \in links : FollowLink(r, link)
      PROVE  Kept \/ Forgotten
  BY <1>4, <1>7 DEF Authenticate, FollowLink
<1>8. ASSUME \/ UNCHANGED vars \/ \E email \in Emails : SignUp(email)
             \/ \E u \in DOMAIN users : AskForLink(u) \/ SetPassword(u)
             \/ Tick
      PROVE  Kept
  BY <1>1, <1>8 DEF vars, SignUp, AskForLink, SetPassword, Tick
<1>9. ASSUME NEW r \in Requests, RequestStep(r)
      PROVE  \/ Kept \/ Forgotten
             \/ \E s \in DOMAIN sessions : /\ requests'[q].session = s
                                          /\ requests'[q].expires = sessions[s].expires
                                          /\ sessions' = sessions
  BY <1>5, <1>6, <1>7, <1>9 DEF RequestStep
<1>10. Kept \/ \E r \in Requests : RequestStep(r)
  BY <1>8 DEF Next
<1> QED
  BY <1>9, <1>10 DEF Kept, Forgotten

\* The clock never goes back.
LEMMA ClockGoesOn ==
  ASSUME TypeOK, [Next]_vars
  PROVE  now' >= now
<1>1. now \in Nat
  BY AccountsAssumption DEF TypeOK
<1>2. CASE Tick
  BY <1>1, <1>2 DEF Tick
<1>3. ASSUME ~Tick PROVE now' = now
  <2>1. ASSUME NEW r \in Requests, RequestStep(r) PROVE now' = now
    BY <2>1 DEF RequestStep, Authenticate, DeleteExpiredSessions, CreateSession, Arrive, Admit,
       RefreshSession, SignOut, CheckPassword, UpdatePassword, ToggleApproved, MailApproval,
       DeleteUser, MailLink, FollowLink, ResetPassword, GiveUp
  <2> QED
    BY <1>3, <2>1 DEF Next, vars, SignUp, AskForLink, SetPassword
<1> QED
  BY <1>1, <1>2, <1>3

\* A step takes nothing from a session that stays, and numbers a new one next.
Grown ==
  /\ \A s \in DOMAIN sessions' \cap DOMAIN sessions : sessions'[s].expires >= sessions[s].expires
  /\ lastSession' >= lastSession
  /\ \A s \in DOMAIN sessions' \ DOMAIN sessions : s > lastSession /\ s <= lastSession'

\* The sessions a step leaves are as long as visits make them, and none shrank.
LEMMA SessionsLast ==
  ASSUME TypeOK, Lasting, [Next]_vars
  PROVE  VisitorsStay' /\ SeenBefore' /\ Grown
<1> USE AccountsAssumption
<1>1. now \in Nat /\ lastSession \in Nat /\ lastSession' \in Nat /\ now' \in Nat /\ now' >= now
  BY ClockGoesOn, NextTyped DEF TypeOK
<1>2. \A s \in DOMAIN sessions : /\ sessions[s].expires \in Nat /\ sessions[s].seen \in Nat
                                /\ sessions[s] \in SessionType
                                /\ s <= lastSession
  BY DEF TypeOK, SessionType
<1>3. ASSUME DOMAIN sessions' \subseteq DOMAIN sessions, lastSession' = lastSession,
             \A s \in DOMAIN sessions' : sessions'[s] = sessions[s]
      PROVE  VisitorsStay' /\ SeenBefore' /\ Grown
  <2>1. Grown
    BY <1>1, <1>2, <1>3 DEF Grown
  <2>2. VisitorsStay'
    BY <1>3 DEF Lasting, VisitorsStay
  <2>3. SeenBefore'
    BY <1>1, <1>2, <1>3 DEF Lasting, SeenBefore
  <2> QED
    BY <2>1, <2>2, <2>3
<1>4. ASSUME NEW gone, sessions' = Without(sessions, gone), lastSession' = lastSession
      PROVE  VisitorsStay' /\ SeenBefore' /\ Grown
  BY <1>3, <1>4 DEF Without
<1>5. ASSUME NEW r \in Requests, CreateSession(r), Storable(requests[r].user)
      PROVE  VisitorsStay' /\ SeenBefore' /\ Grown
  <2> DEFINE new == lastSession + 1
             row == [user |-> requests[r].user, expires |-> now + SessionLifetime, seen |-> now]
  <2>1. sessions' = With(sessions, new, row) /\ lastSession' = new /\ now' = now
    BY <1>5 DEF CreateSession
  <2>2. row.expires = now + SessionLifetime /\ row.seen = now
    OBVIOUS
  <2> HIDE DEF row
  <2>3. /\ DOMAIN sessions' = DOMAIN sessions \cup {new} /\ sessions'[new] = row
        /\ \A s \in DOMAIN sessions : s # new => sessions'[s] = sessions[s]
    BY <2>1 DEF With
  <2>4. new \notin DOMAIN sessions /\ new > lastSession
    BY <1>1, <1>2
  <2> HIDE DEF new
  <2>5. Grown
    BY <1>1, <1>2, <2>1, <2>3, <2>4 DEF Grown
  <2>6. VisitorsStay'
    BY <1>1, <2>2, <2>3, <2>4 DEF Lasting, VisitorsStay
  <2>7. SeenBefore'
    BY <1>1, <2>1, <2>2, <2>3, <2>4 DEF Lasting, SeenBefore
  <2> QED
    BY <2>5, <2>6, <2>7
<1>6. ASSUME NEW r \in Requests, RefreshSession(r), requests[r].session \in DOMAIN sessions,
             sessions' # sessions
      PROVE  VisitorsStay' /\ SeenBefore' /\ Grown
  <2> DEFINE s == requests[r].session
  <2>1. /\ DOMAIN sessions' = DOMAIN sessions /\ now' = now /\ lastSession' = lastSession
        /\ \A k \in DOMAIN sessions : k # s => sessions'[k] = sessions[k]
        /\ sessions'[s].seen = now
        /\ \/ sessions'[s].expires = now + SessionLifetime
           \/ /\ sessions'[s].expires = sessions[s].expires
              /\ ~RunsOutSoon(requests[r].expires)
    <3>1. now' = now /\ lastSession' = lastSession
      BY <1>6 DEF RefreshSession, counters
    <3>2. CASE sessions' = Extended(s, requests[r].user)
      BY <1>2, <1>6, <3>1, <3>2 DEF Extended, SessionType
    <3>3. CASE ~RunsOutSoon(requests[r].expires) /\ sessions' = [sessions EXCEPT ![s].seen = now]
      BY <1>2, <1>6, <3>1, <3>3 DEF SessionType
    <3> QED
      BY <1>6, <3>2, <3>3 DEF RefreshSession
  <2>2. requests[r].expires <= sessions[s].expires /\ requests[r].expires \in Nat
    BY <1>6 DEF Lasting, ReadsAreOld, TypeOK, RequestType
  <2>3. /\ sessions[s].expires <= sessions[s].seen + SessionLifetime
        /\ sessions[s].seen <= now
    BY <1>6 DEF Lasting, VisitorsStay, SeenBefore
  <2>4. /\ sessions'[s].expires >= sessions[s].expires
        /\ sessions'[s].expires >= now + RefreshWindow
        /\ sessions'[s].expires <= now + SessionLifetime
    BY <1>1, <1>2, <1>6, <2>1, <2>2, <2>3 DEF RunsOutSoon
  <2> HIDE DEF s
  <2>5. Grown
    BY <1>1, <1>2, <2>1, <2>4 DEF Grown
  <2>6. VisitorsStay'
    BY <1>1, <2>1, <2>4 DEF Lasting, VisitorsStay
  <2>7. SeenBefore'
    BY <1>1, <2>1 DEF Lasting, SeenBefore
  <2> QED
    BY <2>5, <2>6, <2>7
<1>7. ASSUME sessions' = sessions, lastSession' = lastSession
      PROVE  VisitorsStay' /\ SeenBefore' /\ Grown
  BY <1>3, <1>7
<1>8. ASSUME NEW r \in Requests, RefreshSession(r) PROVE lastSession' = lastSession
  BY <1>8 DEF RefreshSession, counters
<1> QED
  BY <1>4, <1>5, <1>6, <1>7, <1>8, SessionsRewritten

\* What requests know stays old.
LEMMA LastingKept ==
  ASSUME TypeOK, Lasting, [Next]_vars
  PROVE  Lasting'
<1> USE AccountsAssumption
<1>1. VisitorsStay' /\ SeenBefore' /\ Grown
  BY SessionsLast
<1>2. ASSUME NEW q \in Requests
      PROVE  /\ requests'[q].session <= lastSession'
             /\ requests'[q].session \in DOMAIN sessions' =>
                  requests'[q].expires <= sessions'[requests'[q].session].expires
  <2>1. /\ lastSession \in Nat /\ lastSession' \in Nat /\ lastSession' >= lastSession
        /\ DOMAIN sessions \subseteq 1 .. lastSession /\ DOMAIN sessions' \subseteq 1 .. lastSession'
        /\ requests[q].session \in Nat /\ requests[q].expires \in Nat
    BY <1>1, NextTyped DEF TypeOK, RequestType, Grown
  <2>2. \A s \in DOMAIN sessions : sessions[s].expires \in Nat
    BY DEF TypeOK, SessionType
  <2>3. \A s \in DOMAIN sessions' : sessions'[s].expires \in Nat
    BY NextTyped DEF TypeOK, SessionType
  <2>4. CASE requests'[q].session = requests[q].session /\ requests'[q].expires = requests[q].expires
    <3>1. requests[q].session <= lastSession
      BY DEF Lasting, Issued
    <3>2. ASSUME requests[q].session \in DOMAIN sessions'
          PROVE  requests[q].expires <= sessions'[requests[q].session].expires
      <4>1. requests[q].session \in DOMAIN sessions
        BY <1>1, <2>1, <3>1, <3>2 DEF Grown
      <4>2. requests[q].expires <= sessions[requests[q].session].expires
        BY <4>1 DEF Lasting, ReadsAreOld
      <4> QED
        BY <1>1, <2>1, <2>2, <2>3, <3>2, <4>1, <4>2 DEF Grown
    <3> QED
      BY <2>1, <2>4, <3>1, <3>2
  <2>5. CASE requests'[q].session = 0
    BY <2>1, <2>5
  <2>6. ASSUME NEW s \in DOMAIN sessions, requests'[q].session = s,
               requests'[q].expires = sessions[s].expires, sessions' = sessions
        PROVE  /\ requests'[q].session <= lastSession'
               /\ requests'[q].expires <= sessions'[requests'[q].session].expires
    BY <2>1, <2>2, <2>6
  <2> QED
    BY <2>4, <2>5, <2>6, ReadsRewritten
<1> QED
  BY <1>1, <1>2 DEF Lasting, ReadsAreOld, Issued

\* For any lifetime longer than the refresh window, and any number of requests:
\* every session is good for the window after the last visit and for no longer
\* than its lifetime (VisitorsStay).
THEOREM VisitorsAlwaysStay == Spec => []VisitorsStay
<1>1. Init => Lasting
  BY AccountsAssumption DEF Init, Lasting, VisitorsStay, ReadsAreOld, Issued, SeenBefore, Idle
<1>2. TypeOK /\ Lasting /\ [Next]_vars => Lasting'
  BY LastingKept
<1>3. Lasting => VisitorsStay
  BY DEF Lasting
<1> QED
  BY <1>1, <1>2, <1>3, InitTyped, NextTyped, PTL DEF Spec

-----------------------------------------------------------------------------
(* Approval and its mail.                                                  *)

\* A request that has turned a switch stays there until it mails.
LEMMA RereadStays ==
  ASSUME TypeOK, [Next]_vars, NEW q \in Requests, At(q, "reread"), ~MailApproval(q),
         ~GiveUp(q)
  PROVE  requests'[q] = requests[q]
<1>1. ASSUME NEW r \in Requests, r # q,
             \/ Ends(r) \/ \E step : Continues(r, step)
             \/ \E new : requests' = [requests EXCEPT ![r] = new]
      PROVE  requests'[q] = requests[q]
  BY <1>1 DEF Ends, Continues, TypeOK
<1>2. ASSUME NEW r \in Requests, RequestStep(r), r # q
      PROVE  requests'[q] = requests[q]
  <2>1. \/ Ends(r) \/ \E step : Continues(r, step)
        \/ \E new : requests' = [requests EXCEPT ![r] = new]
    BY <1>2 DEF RequestStep, Authenticate, DeleteExpiredSessions, CreateSession, Arrive, Admit,
       RefreshSession, SignOut, CheckPassword, UpdatePassword, ToggleApproved, MailApproval,
       DeleteUser, MailLink, FollowLink, ResetPassword, GiveUp
  <2> QED
    BY <1>1, <1>2, <2>1
<1>3. ~RequestStep(q)
  BY DEF RequestStep, Authenticate, DeleteExpiredSessions, CreateSession, Arrive, Admit,
     RefreshSession, SignOut, CheckPassword, UpdatePassword, ToggleApproved, DeleteUser,
     MailLink, FollowLink, ResetPassword, At
<1>4. CASE requests' = requests
  BY <1>4
<1> QED
  BY <1>2, <1>3, <1>4 DEF Next, vars, SignUp, AskForLink, SetPassword, Tick

\* Only a switch and a deletion forget that an account was told, or a mail missed.
LEMMA ToldStays ==
  ASSUME [Next]_vars, \A r \in Requests : ~ToggleApproved(r) /\ ~DeleteUser(r)
  PROVE  told \subseteq told' /\ missed \subseteq missed'
<1>1. ASSUME NEW r \in Requests, RequestStep(r)
      PROVE  told \subseteq told' /\ missed \subseteq missed'
  BY <1>1 DEF RequestStep, Authenticate, DeleteExpiredSessions, CreateSession, Arrive, Admit,
     RefreshSession, SignOut, CheckPassword, UpdatePassword, MailApproval, MailLink, FollowLink,
     ResetPassword, GiveUp, mails
<1> QED
  BY <1>1 DEF Next, vars, SignUp, AskForLink, SetPassword, Tick, mails

\* An account that is approved after a step was so before it, unless the step
\* turned its switch.
LEMMA ApprovedBefore ==
  ASSUME TypeOK, [Next]_vars, NEW u \in DOMAIN users', users'[u].approved, ~users'[u].admin,
         \A r \in Requests : ToggleApproved(r) /\ Switchable(requests[r].target) =>
           requests[r].target # u
  PROVE  u \in DOMAIN users /\ users[u].approved /\ ~users[u].admin
<1>1. ASSUME NEW email \in Emails, SignUp(email)
      PROVE  u \in DOMAIN users /\ users'[u] = users[u]
  BY <1>1 DEF SignUp, With
<1>2. ASSUME NEW v \in DOMAIN users, users' = [users EXCEPT ![v].digest = lastDigest + 1]
      PROVE  u \in DOMAIN users /\ users[u].approved /\ ~users[u].admin
  BY <1>2 DEF TypeOK, UserType
<1>3. ASSUME NEW r \in Requests, ToggleApproved(r)
      PROVE  u \in DOMAIN users /\ users'[u] = users[u]
  BY <1>3 DEF ToggleApproved, Switchable, TypeOK
<1>4. ASSUME NEW r \in Requests, DeleteUser(r)
      PROVE  u \in DOMAIN users /\ users'[u] = users[u]
  BY <1>4 DEF DeleteUser, Without
<1> QED
  BY <1>1, <1>2, <1>3, <1>4, UsersRewritten

Telling(u) == \E q \in Requests : At(q, "reread") /\ requests[q].target = u

\* What ApprovedIsTold says of one account.
Settled(u) == u \in told \/ u \in missed \/ Telling(u)

\* An account that was told, missed its mail or is about to be told, stays so.
LEMMA ToldKept ==
  ASSUME TypeOK, [Next]_vars, NEW u \in DOMAIN users', users'[u].approved, Settled(u)
  PROVE  Settled(u)'
<1>1. ASSUME NEW q \in Requests, At(q, "reread"), requests[q].target = u, ~MailApproval(q),
             ~GiveUp(q)
      PROVE  Telling(u)'
  <2>1. requests'[q] = requests[q]
    BY <1>1, RereadStays
  <2> QED
    BY <1>1, <2>1 DEF Telling, At
<1>2. ASSUME NEW q \in Requests, At(q, "reread"), requests[q].target = u,
             MailApproval(q) \/ GiveUp(q)
      PROVE  u \in told' \/ u \in missed'
  BY <1>2 DEF MailApproval, GiveUp, Mailed
<1>3. ASSUME NEW r \in Requests, ToggleApproved(r), u \in told \/ u \in missed
      PROVE  Settled(u)'
  <2>1. CASE requests[r].target = u /\ Switchable(u)
    <3>1. requests'[r].step = "reread" /\ requests'[r].target = u
      BY <1>3, <2>1 DEF ToggleApproved, Continues, TypeOK, RequestType
    <3> QED
      BY <3>1 DEF Settled, Telling, At
  <2>2. CASE ~(requests[r].target = u /\ Switchable(u))
    BY <1>3, <2>2 DEF ToggleApproved, Settled, mails
  <2> QED
    BY <2>1, <2>2
<1>4. ASSUME NEW r \in Requests, DeleteUser(r), u \in told \/ u \in missed
      PROVE  u \in told' \/ u \in missed'
  BY <1>4, WithoutRows DEF DeleteUser, Without, mails
<1>5. ASSUME u \in told \/ u \in missed PROVE Settled(u)'
  BY <1>3, <1>4, <1>5, ToldStays DEF Settled
<1> QED
  BY <1>1, <1>2, <1>5 DEF Settled, Telling

\* A step leaves nobody approved whom no mail set out to and none was to.
LEMMA ApprovedIsToldKept ==
  ASSUME TypeOK, ApprovedIsTold, [Next]_vars
  PROVE  ApprovedIsTold'
<1> SUFFICES ASSUME NEW u \in DOMAIN users', users'[u].approved, ~users'[u].admin
             PROVE  Settled(u)'
  BY DEF ApprovedIsTold, Settled, Telling, At
<1>1. ASSUME NEW r \in Requests, ToggleApproved(r), Switchable(requests[r].target),
             requests[r].target = u
      PROVE  Settled(u)'
  <2>1. requests'[r].step = "reread" /\ requests'[r].target = u
    BY <1>1 DEF ToggleApproved, Continues, TypeOK, RequestType
  <2> QED
    BY <2>1 DEF Settled, Telling, At
<1>2. ASSUME \A r \in Requests : ToggleApproved(r) /\ Switchable(requests[r].target) =>
               requests[r].target # u
      PROVE  Settled(u)'
  <2>1. u \in DOMAIN users /\ users[u].approved /\ ~users[u].admin
    BY <1>2, ApprovedBefore
  <2>2. Settled(u)
    BY <2>1 DEF ApprovedIsTold, Settled, Telling
  <2> QED
    BY <2>2, ToldKept
<1> QED
  BY <1>1, <1>2

\* However many switches of however many accounts cross, whoever stays approved
\* has a mail set out to them, unless it or the request that was to send it
\* failed, or a request is about to (ApprovedIsTold).
THEOREM ApprovedAreAlwaysTold == Spec => []ApprovedIsTold
<1>1. Init => ApprovedIsTold
  BY DEF Init, ApprovedIsTold
<1>2. TypeOK /\ ApprovedIsTold /\ [Next]_vars => ApprovedIsTold'
  BY ApprovedIsToldKept
<1> QED
  BY <1>1, <1>2, InitTyped, NextTyped, PTL DEF Spec

\* An approval that changes was switched.
LEMMA SwitchTurned ==
  ASSUME TypeOK, [Next]_vars, NEW u \in DOMAIN users \cap DOMAIN users',
         users'[u].approved # users[u].approved
  PROVE  \E r \in Requests : /\ ToggleApproved(r) /\ Switchable(u) /\ requests[r].target = u
<1>1. ASSUME NEW email \in Emails, SignUp(email)
      PROVE  FALSE
  <2>1. u # lastUser + 1
    BY AccountsAssumption DEF TypeOK
  <2>2. PICK row : users' = With(users, lastUser + 1, row)
    BY <1>1 DEF SignUp
  <2>3. users'[u] = users[u]
    BY <2>1, <2>2 DEF With
  <2> QED
    BY <2>3
<1>2. ASSUME NEW v \in DOMAIN users, users' = [users EXCEPT ![v].digest = lastDigest + 1]
      PROVE  FALSE
  BY <1>2 DEF TypeOK, UserType
<1>3. ASSUME NEW r \in Requests, ToggleApproved(r)
      PROVE  Switchable(u) /\ requests[r].target = u
  BY <1>3 DEF ToggleApproved, TypeOK
<1>4. ASSUME NEW r \in Requests, DeleteUser(r)
      PROVE  FALSE
  BY <1>4 DEF DeleteUser, Without
<1> QED
  BY <1>1, <1>2, <1>3, <1>4, UsersRewritten

\* An approval takes every session its account has: no session of a blocked
\* account comes back to life (NoSessionComesBack).
THEOREM BlockedSessionsStayDead == Spec => NoSessionComesBack
<1>1. ASSUME TypeOK, [Next]_vars, NEW s \in DOMAIN sessions,
             NEW u \in DOMAIN users \cap DOMAIN users',
             s \in SessionsOf(u), ~users[u].approved, users'[u].approved
      PROVE  s \notin DOMAIN sessions'
  <2>1. PICK r \in Requests : ToggleApproved(r) /\ Switchable(u) /\ requests[r].target = u
    BY <1>1, SwitchTurned
  <2>2. sessions' = Without(sessions, SessionsOf(u))
    BY <2>1 DEF ToggleApproved, Loses
  <2>3. DOMAIN sessions' = DOMAIN sessions \ SessionsOf(u)
    BY <2>2 DEF Without
  <2> QED
    BY <1>1, <2>3
<1>2. TypeOK /\ [Next]_vars =>
        [\A s \in DOMAIN sessions : \A u \in DOMAIN users \cap DOMAIN users' :
           s \in SessionsOf(u) /\ ~users[u].approved /\ users'[u].approved =>
             s \notin DOMAIN sessions']_vars
  BY <1>1
<1> QED
  BY <1>2, InitTyped, NextTyped, PTL DEF Spec, NoSessionComesBack

-----------------------------------------------------------------------------
(* Links and the reasons a session ends.                                   *)

\* Digests are handed out in order, so a new one is in nobody's row or mail.
DigestsIssued ==
  /\ \A u \in DOMAIN users : users[u].digest <= lastDigest
  /\ \A link \in links : link.digest <= lastDigest

\* What a step does to the links and the digests.
LEMMA LinksRewritten ==
  ASSUME [Next]_vars
  PROVE  \/ links' = links
         \/ \E u \in DOMAIN users : Mailing(u) /\ users' = users /\ lastDigest' = lastDigest
<1>1. ASSUME NEW r \in Requests, RequestStep(r)
      PROVE  \/ links' = links
             \/ \E u \in DOMAIN users : Mailing(u) /\ users' = users /\ lastDigest' = lastDigest
  <2>1. CASE MailLink(r)
    BY <2>1 DEF MailLink, counters
  <2> QED
    BY <1>1, <2>1 DEF RequestStep, Authenticate, DeleteExpiredSessions, CreateSession, Arrive,
       Admit, RefreshSession, SignOut, CheckPassword, UpdatePassword, ToggleApproved, MailApproval,
       DeleteUser, FollowLink, ResetPassword, GiveUp
<1> QED
  BY <1>1 DEF Next, vars, SignUp, AskForLink, SetPassword, Tick, counters

\* What a step does to the digests of accounts.
LEMMA DigestsRewritten ==
  ASSUME TypeOK, [Next]_vars
  PROVE  /\ lastDigest' = lastDigest \/ lastDigest' = lastDigest + 1
         /\ \A u \in DOMAIN users' :
              \/ u \in DOMAIN users /\ users'[u].digest = users[u].digest
              \/ users'[u].digest = lastDigest + 1 /\ lastDigest' = lastDigest + 1 /\ links' = links
                 /\ now' = now
<1> DEFINE Fine == /\ lastDigest' = lastDigest \/ lastDigest' = lastDigest + 1
                   /\ \A u \in DOMAIN users' :
                        \/ u \in DOMAIN users /\ users'[u].digest = users[u].digest
                        \/ users'[u].digest = lastDigest + 1 /\ lastDigest' = lastDigest + 1
                           /\ links' = links /\ now' = now
<1>1. ASSUME users' = users, lastDigest' = lastDigest PROVE Fine
  BY <1>1
<1>2. ASSUME NEW v \in DOMAIN users, users' = [users EXCEPT ![v].digest = lastDigest + 1],
             lastDigest' = lastDigest + 1, links' = links, now' = now
      PROVE  Fine
  BY <1>2 DEF TypeOK, UserType
<1>3. ASSUME NEW email \in Emails, SignUp(email) PROVE Fine
  BY <1>3 DEF SignUp, With
<1>4. ASSUME NEW r \in Requests, ToggleApproved(r) PROVE Fine
  BY <1>4 DEF ToggleApproved, TypeOK, UserType, counters
<1>5. ASSUME NEW r \in Requests, DeleteUser(r) PROVE Fine
  BY <1>5 DEF DeleteUser, Without, counters
<1> HIDE DEF Fine
<1>6. ASSUME NEW r \in Requests, UpdatePassword(r) \/ ResetPassword(r) PROVE Fine
  BY <1>1, <1>2, <1>6 DEF UpdatePassword, ResetPassword, Reset
<1>7. ASSUME NEW r \in Requests, RequestStep(r), ~ToggleApproved(r), ~DeleteUser(r),
             ~UpdatePassword(r), ~ResetPassword(r)
      PROVE  users' = users /\ lastDigest' = lastDigest
  BY <1>7 DEF RequestStep, Authenticate, DeleteExpiredSessions, CreateSession, Arrive, Admit,
     RefreshSession, SignOut, CheckPassword, MailApproval, MailLink, FollowLink, GiveUp, counters
<1>8. ASSUME NEW u \in DOMAIN users, AskForLink(u) \/ SetPassword(u) PROVE Fine
  BY <1>1, <1>2, <1>8 DEF AskForLink, SetPassword, Reset, counters
<1>9. ASSUME UNCHANGED vars \/ Tick PROVE Fine
  BY <1>1, <1>9 DEF vars, Tick, counters
<1>10. Fine
  BY <1>1, <1>3, <1>4, <1>5, <1>6, <1>7, <1>8, <1>9 DEF Next
<1> QED
  BY <1>10 DEF Fine

\* A step leaves every digest in a row or a mail an issued one.
LEMMA DigestsKept ==
  ASSUME TypeOK, DigestsIssued, [Next]_vars
  PROVE  DigestsIssued'
<1>1. /\ lastDigest \in Nat
      /\ \A u \in DOMAIN users : users[u].digest \in Nat
      /\ \A link \in links : link.digest \in Nat
  BY AccountsAssumption DEF TypeOK, UserType, LinkType
<1>2. \A u \in DOMAIN users' : users'[u].digest <= lastDigest'
  BY <1>1, DigestsRewritten DEF DigestsIssued
<1>3. \A link \in links' : link.digest <= lastDigest'
  <2>1. CASE links' = links
    BY <1>1, <2>1, DigestsRewritten DEF DigestsIssued
  <2>2. ASSUME NEW u \in DOMAIN users, Mailing(u), lastDigest' = lastDigest
        PROVE  \A link \in links' : link.digest <= lastDigest'
    BY <1>1, <2>2 DEF DigestsIssued, Mailing
  <2> QED
    BY <2>1, <2>2, LinksRewritten
<1> QED
  BY <1>2, <1>3 DEF DigestsIssued

\* Whoever changes the password, and however: no link that was mailed before is
\* accepted from then on (OldLinksFail).
THEOREM OldLinksAlwaysFail == Spec => OldLinksFail
<1>1. Init => DigestsIssued
  BY DEF Init, DigestsIssued
<1>2. TypeOK /\ DigestsIssued /\ [Next]_vars => DigestsIssued'
  BY DigestsKept
<1>3. ASSUME TypeOK, DigestsIssued, [Next]_vars, NEW u \in DOMAIN users \cap DOMAIN users',
             users'[u].digest # users[u].digest, NEW link \in links, link.user = u
      PROVE  ~Accepted(link)'
  <2>1. users'[u].digest = lastDigest + 1
    BY <1>3, DigestsRewritten
  <2>2. link.digest <= lastDigest /\ link.digest \in Nat /\ lastDigest \in Nat
    BY AccountsAssumption, <1>3 DEF DigestsIssued, TypeOK, LinkType
  <2>3. users'[link.user].digest # link.digest
    BY <1>3, <2>1, <2>2
  <2> QED
    BY <2>3 DEF Accepted
<1>4. TypeOK /\ DigestsIssued /\ [Next]_vars =>
        [\A u \in DOMAIN users \cap DOMAIN users' : users'[u].digest # users[u].digest =>
           \A link \in links : link.user = u => ~Accepted(link)']_vars
  BY <1>3
<1> QED
  BY <1>1, <1>2, <1>4, InitTyped, NextTyped, PTL DEF Spec, OldLinksFail

\* Why one session ended in one step.
EndedFor(s) ==
  \/ sessions[s].expires < now
  \/ \E r \in Requests : /\ requests[r].step = "act" /\ requests[r].kind = "sign_out"
                         /\ requests[r].session = s /\ requests'[r] = Idle
  \/ sessions[s].user \notin DOMAIN users'
  \/ users'[sessions[s].user] # users[sessions[s].user]

\* A session that a reset deletes ends because its account's digest changed.
LEMMA ResetEnds ==
  ASSUME TypeOK, DigestsIssued, NEW u, Reset(u), NEW s \in DOMAIN sessions \ DOMAIN sessions'
  PROVE  EndedFor(s)
<1>1. sessions[s].user = u /\ u \in DOMAIN users
  BY DEF Reset, Without, SessionsOf
<1>2. users'[u].digest = lastDigest + 1
  BY <1>1 DEF Reset, TypeOK, UserType
<1>3. users[u].digest <= lastDigest /\ users[u].digest \in Nat /\ lastDigest \in Nat
  BY AccountsAssumption, <1>1 DEF DigestsIssued, TypeOK, UserType
<1>4. users'[u] # users[u]
  BY <1>2, <1>3
<1> QED
  BY <1>1, <1>4 DEF EndedFor

\* Whichever step deletes a session, one of the reasons holds of it.
LEMMA EveryEndHasAReason ==
  ASSUME TypeOK, DigestsIssued, [Next]_vars, NEW s \in DOMAIN sessions \ DOMAIN sessions'
  PROVE  EndedFor(s)
<1>1. ASSUME NEW r \in Requests, DeleteExpiredSessions(r) PROVE EndedFor(s)
  BY <1>1 DEF DeleteExpiredSessions, Pruned, Without, EndedFor
<1>2. ASSUME NEW r \in Requests, SignOut(r) PROVE EndedFor(s)
  <2>1. /\ requests[r].step = "act" /\ requests[r].kind = "sign_out"
        /\ requests[r].session = s
    BY <1>2 DEF SignOut, At, Without
  <2>2. requests'[r] = Idle
    BY <1>2 DEF SignOut, Ends, TypeOK
  <2> QED
    BY <2>1, <2>2 DEF EndedFor
<1>3. ASSUME NEW r \in Requests, ToggleApproved(r) PROVE EndedFor(s)
  <2>1. /\ Switchable(requests[r].target) /\ sessions[s].user = requests[r].target
        /\ users' = [users EXCEPT ![requests[r].target].approved = ~@]
    BY <1>3 DEF ToggleApproved, Loses, SessionsOf, Without
  <2>2. users'[sessions[s].user].approved = ~users[sessions[s].user].approved
    BY <2>1 DEF Switchable, TypeOK, UserType
  <2>3. users'[sessions[s].user] # users[sessions[s].user]
    <3>1. users[sessions[s].user].approved \in BOOLEAN
      BY <2>1 DEF Switchable, TypeOK, UserType
    <3> QED
      BY <2>2, <3>1
  <2> QED
    BY <2>3 DEF EndedFor
<1>4. ASSUME NEW r \in Requests, DeleteUser(r) PROVE EndedFor(s)
  BY <1>4 DEF DeleteUser, SessionsOf, Without, EndedFor
<1>5. ASSUME NEW r \in Requests, CreateSession(r) \/ RefreshSession(r) PROVE FALSE
  BY <1>5 DEF CreateSession, RefreshSession, Extended, With
<1>6. ASSUME NEW r \in Requests, ResetPassword(r) PROVE EndedFor(s)
  BY <1>6, ResetEnds DEF ResetPassword
<1>7. ASSUME NEW u \in DOMAIN users, AskForLink(u) \/ SetPassword(u) PROVE EndedFor(s)
  BY <1>7, ResetEnds DEF AskForLink, SetPassword
<1>8. ASSUME NEW r \in Requests, RequestStep(r), sessions' # sessions
      PROVE  \/ DeleteExpiredSessions(r) \/ SignOut(r) \/ ToggleApproved(r) \/ DeleteUser(r)
             \/ CreateSession(r) \/ RefreshSession(r) \/ ResetPassword(r)
  BY <1>8 DEF RequestStep, Authenticate, Arrive, Admit, CheckPassword, UpdatePassword,
     MailApproval, MailLink, FollowLink, GiveUp
<1>9. sessions' # sessions
  OBVIOUS
<1>10. ~UNCHANGED vars /\ ~Tick /\ \A email \in Emails : ~SignUp(email)
  BY <1>9 DEF vars, Tick, SignUp
<1> QED
  BY <1>1, <1>2, <1>3, <1>4, <1>5, <1>6, <1>7, <1>8, <1>9, <1>10 DEF Next

\* No session that is still good ends without a reason: it was signed out of, or
\* its account was switched, reset or deleted (SessionsEndForAReason).
THEOREM SessionsAlwaysEndForAReason == Spec => SessionsEndForAReason
<1>1. Init => DigestsIssued
  BY DEF Init, DigestsIssued
<1>2. TypeOK /\ DigestsIssued /\ [Next]_vars => DigestsIssued'
  BY DigestsKept
<1>3. TypeOK /\ DigestsIssued /\ [Next]_vars =>
        [\A s \in DOMAIN sessions \ DOMAIN sessions' :
           \/ sessions[s].expires < now
           \/ \E r \in Requests : /\ requests[r].step = "act" /\ requests[r].kind = "sign_out"
                                  /\ requests[r].session = s /\ requests'[r] = Idle
           \/ sessions[s].user \notin DOMAIN users'
           \/ users'[sessions[s].user] # users[sessions[s].user]]_vars
  BY EveryEndHasAReason DEF EndedFor
<1> QED
  BY <1>1, <1>2, <1>3, InitTyped, NextTyped, PTL DEF Spec, SessionsEndForAReason

\* However requests with it cross, a session that has ended never comes back: the
\* only sessions that appear are sign-ins', under ids never used (EndedForGood).
THEOREM EndedSessionsStayEnded == Spec => EndedForGood
<1>1. ASSUME TypeOK, [Next]_vars, NEW s \in DOMAIN sessions' \ DOMAIN sessions
      PROVE  /\ s > lastSession
             /\ \E r \in Requests : At(r, "store") /\ requests[r].user = sessions'[s].user
  <2>1. ASSUME NEW r \in Requests, CreateSession(r), Storable(requests[r].user)
        PROVE  s > lastSession /\ At(r, "store") /\ requests[r].user = sessions'[s].user
    <3>1. s = lastSession + 1 /\ requests[r].user = sessions'[s].user
      BY <1>1, <2>1 DEF CreateSession, With
    <3>2. lastSession \in Int
      BY <1>1 DEF TypeOK
    <3> QED
      BY <2>1, <3>1, <3>2 DEF CreateSession
  <2>2. ASSUME NEW gone, sessions' = Without(sessions, gone) PROVE FALSE
    BY <1>1, <2>2 DEF Without
  <2>3. ASSUME NEW r \in Requests, RefreshSession(r) PROVE FALSE
    BY <1>1, <2>3 DEF RefreshSession, Extended
  <2> QED
    BY <1>1, <2>1, <2>2, <2>3, SessionsRewritten
<1>2. TypeOK /\ [Next]_vars =>
        [\A s \in DOMAIN sessions' \ DOMAIN sessions :
           /\ s > lastSession
           /\ \E r \in Requests : At(r, "store") /\ requests[r].user = sessions'[s].user]_vars
  BY <1>1
<1> QED
  BY <1>2, InitTyped, NextTyped, PTL DEF Spec, EndedForGood
===============================================================================
