------------------------------ MODULE Accounts ------------------------------
(***************************************************************************)
(* Who may come in: accounts, the admin's switch over them, sessions that  *)
(* refresh and run out, and the links that reset a password.               *)
(*                                                                         *)
(* A store call is one action (one statement or one transaction on the one *)
(* connection), and a handler is a sequence of them: requests run side by  *)
(* side and carry what they read in `requests`.  An error page or redirect *)
(* is a request that ends, and one can end at any step, because its        *)
(* context is cancelled, the database fails or the process dies (GiveUp).  *)
(* A password is its digest, and every digest is new (bcrypt salts it), so *)
(* digests are numbers handed out in order; a request that presents a      *)
(* wrong password ends where it began.                                     *)
(***************************************************************************)
EXTENDS Integers, FiniteSets

CONSTANTS
  Emails,           (* addresses people sign up with                         *)
  Requests,         (* requests the server handles at the same time          *)
  SessionLifetime,  (* sessions.go: 30 days                                  *)
  RefreshWindow,    (* auth.go: 7 days                                       *)
  LinkLifetime,     (* passwordreset.go: 15 minutes                          *)
  Kinds,            (* bound: the handlers that are asked for                *)
  MaxUsers,         (* bound: accounts ever created                          *)
  MaxSessions,      (* bound: sessions ever stored                           *)
  MaxDigests,       (* bound: passwords ever set                             *)
  MaxLinks,         (* bound: links in mailboxes                             *)
  Horizon           (* bound: the last moment looked at                      *)

\* What the handlers do with a session, and which of them are behind adminOnly.
AdminKinds == {"toggle", "delete", "mail"}
AllKinds == {"look", "sign_out", "change"} \cup AdminKinds

ASSUME AccountsAssumption ==
  /\ SessionLifetime \in Nat /\ RefreshWindow \in Nat /\ LinkLifetime \in Nat
  /\ RefreshWindow < SessionLifetime
  /\ Kinds \subseteq AllKinds
  /\ MaxUsers \in Nat /\ MaxSessions \in Nat /\ MaxDigests \in Nat
  /\ MaxLinks \in Nat /\ Horizon \in Nat

VARIABLES
  users,       (* the users table, by id                                     *)
  sessions,    (* the sessions table, by id; `seen` is history: the last     *)
               (* moment a request was let in with it and did not fail to    *)
               (* extend it                                                  *)
  links,       (* reset links that were mailed                               *)
  requests,    (* what each request in flight has read, or Idle              *)
  now,         (* the clock                                                  *)
  lastUser, lastSession, lastDigest,   (* what was handed out last           *)
  told,        (* history: accounts a mail of their approval set out to      *)
               (* since the switch was last turned                           *)
  missed       (* history: accounts whose mail failed since then, or the     *)
               (* request that was to send it                                *)

counters == <<lastUser, lastSession, lastDigest>>
mails == <<told, missed>>
vars == <<users, sessions, links, requests, now, counters, mails>>

Idle == [step |-> "idle", session |-> 0, user |-> 0, expires |-> 0, kind |-> "look",
         target |-> 0, label |-> FALSE]
Without(table, ids) == [k \in DOMAIN table \ ids |-> table[k]]
With(table, id, row) == [k \in DOMAIN table \cup {id} |-> IF k = id THEN row ELSE table[k]]
SessionsOf(u) == {s \in DOMAIN sessions : sessions[s].user = u}

Ends(r) == requests' = [requests EXCEPT ![r] = Idle]
Continues(r, step) == requests' = [requests EXCEPT ![r].step = step]
At(r, step) == requests[r].step = step

-----------------------------------------------------------------------------
(* Signing up and signing in.                                              *)

\* "Is this the first user" and the insert are one transaction.
SignUp(email) ==
  LET first == DOMAIN users = {}
  IN  /\ lastUser < MaxUsers /\ lastDigest < MaxDigests
      /\ \A u \in DOMAIN users : users[u].email # email
      /\ users' = With(users, lastUser + 1,
           [email |-> email, admin |-> first, approved |-> first, digest |-> lastDigest + 1])
      /\ lastUser' = lastUser + 1 /\ lastDigest' = lastDigest + 1
      /\ UNCHANGED <<sessions, links, requests, now, lastSession, mails>>

\* AnyUsers, then Authenticate: the row it reads is the one Approved comes from.
Authenticate(r, u) ==
  /\ At(r, "idle")
  /\ u \in DOMAIN users
  /\ users[u].approved
  /\ requests' = [requests EXCEPT ![r] = [Idle EXCEPT !.step = "prune", !.user = u]]
  /\ UNCHANGED <<users, sessions, links, now, counters, mails>>

\* DeleteExpiredSessions.
Pruned(u) == Without(sessions, {s \in SessionsOf(u) : sessions[s].expires < now})

DeleteExpiredSessions(r) ==
  /\ At(r, "prune")
  /\ sessions' = Pruned(requests[r].user)
  /\ Continues(r, "store")
  /\ UNCHANGED <<users, links, now, counters, mails>>

\* A faulty insert, into a table with no foreign key.
StorableForAnyone(u) == TRUE
\* CreateSession fails on its foreign key for an account that is gone.
Storable(u) == u \in DOMAIN users

CreateSession(r) ==
  /\ At(r, "store")
  /\ IF Storable(requests[r].user)
     THEN /\ lastSession < MaxSessions
          /\ lastSession' = lastSession + 1
          /\ sessions' = With(sessions, lastSession + 1,
               [user |-> requests[r].user, expires |-> now + SessionLifetime, seen |-> now])
     ELSE UNCHANGED <<sessions, lastSession>>
  /\ Ends(r)
  /\ UNCHANGED <<users, links, now, lastUser, lastDigest, mails>>

-----------------------------------------------------------------------------
(* A request with a session: what every route behind requireAuthentication *)
(* goes through before its own handler runs.                               *)

\* ActiveSession.  `label` is what the page the request was sent from said of
\* the target's approval: the admin list's button says which way it will go.
Arrive(r, s, kind, target) ==
  /\ At(r, "idle")
  /\ s \in DOMAIN sessions
  /\ sessions[s].expires >= now
  /\ kind \in AdminKinds <=> target \in DOMAIN users
  /\ requests' = [requests EXCEPT ![r] =
       [step |-> "user", session |-> s, user |-> sessions[s].user,
        expires |-> sessions[s].expires, kind |-> kind, target |-> target,
        label |-> kind = "toggle" /\ users[target].approved]]
  /\ UNCHANGED <<users, sessions, links, now, counters, mails>>

\* UserByID, Approved, and adminOnly on the row that was read.
Admit(r) ==
  LET u == requests[r].user
      admitted == u \in DOMAIN users /\ users[u].approved
      allowed == requests[r].kind \in AdminKinds => users[u].admin
  IN  /\ At(r, "user")
      /\ IF admitted /\ allowed THEN Continues(r, "refresh")
         ELSE IF admitted THEN Continues(r, "redirect")
         ELSE Ends(r)
      /\ UNCHANGED <<users, sessions, links, now, counters, mails>>

\* Faulty: extends only what has run out.
RunsOutLate(expires) == expires <= now
\* refreshSessionIfNeeded returns early if ExpiresAt.After(now + 7 days).
RunsOutSoon(expires) == expires <= now + RefreshWindow

\* Faulty: writes the row again if it has gone since it was read.
ExtendedOrRestored(s, u) ==
  With(sessions, s, [user |-> u, expires |-> now + SessionLifetime, seen |-> now])
\* ExtendSession updates the row if it is there still.
Extended(s, u) ==
  IF s \in DOMAIN sessions
  THEN [sessions EXCEPT ![s].expires = now + SessionLifetime, ![s].seen = now]
  ELSE sessions

\* A failure to extend is only logged, whether the row is gone or the database
\* fails, and the request goes on.
RefreshSession(r) ==
  LET s == requests[r].session  late == RunsOutSoon(requests[r].expires)
  IN  /\ requests[r].step \in {"refresh", "redirect"}
      /\ \/ late /\ sessions' = Extended(s, requests[r].user)
         \/ late /\ UNCHANGED sessions
         \/ /\ ~late
            /\ sessions' = IF s \in DOMAIN sessions THEN [sessions EXCEPT ![s].seen = now]
                           ELSE sessions
      /\ IF At(r, "redirect") \/ requests[r].kind = "look" THEN Ends(r) ELSE Continues(r, "act")
      /\ UNCHANGED <<users, links, now, counters, mails>>

\* handleSessionDestroy; a row that is already gone is the outcome asked for.
SignOut(r) ==
  /\ At(r, "act") /\ requests[r].kind = "sign_out"
  /\ sessions' = Without(sessions, {requests[r].session})
  /\ Ends(r)
  /\ UNCHANGED <<users, links, now, counters, mails>>

\* UpdatePassword reads the row and compares, and writes in a second statement.
CheckPassword(r) ==
  /\ At(r, "act") /\ requests[r].kind = "change"
  /\ IF requests[r].user \in DOMAIN users THEN Continues(r, "write") ELSE Ends(r)
  /\ UNCHANGED <<users, sessions, links, now, counters, mails>>

UpdatePassword(r) ==
  LET u == requests[r].user
  IN  /\ At(r, "write")
      /\ IF u \in DOMAIN users
         THEN /\ lastDigest < MaxDigests
              /\ lastDigest' = lastDigest + 1
              /\ users' = [users EXCEPT ![u].digest = lastDigest + 1]
         ELSE UNCHANGED <<users, lastDigest>>
      /\ Ends(r)
      /\ UNCHANGED <<sessions, links, now, lastUser, lastSession, mails>>

-----------------------------------------------------------------------------
(* The admin list.                                                         *)

\* Faulty: the switch also turns for an admin.
SwitchableAll(u) == u \in DOMAIN users
\* ToggleApproved refuses an approved admin.
Switchable(u) == u \in DOMAIN users /\ ~(users[u].approved /\ users[u].admin)

\* Faulty: an approval "has no live sessions to lose", so only a block deletes.
LosesOnBlock(u) == IF users[u].approved THEN SessionsOf(u) ELSE {}
\* The sessions ToggleApproved deletes.
Loses(u) == SessionsOf(u)

ToggleApproved(r) ==
  LET u == requests[r].target
  IN  /\ At(r, "act") /\ requests[r].kind = "toggle"
      /\ IF Switchable(u)
         THEN /\ users' = [users EXCEPT ![u].approved = ~@]
              /\ sessions' = Without(sessions, Loses(u))
              /\ told' = told \ {u} /\ missed' = missed \ {u}
              /\ Continues(r, "reread")
         ELSE UNCHANGED <<users, sessions, mails>> /\ Ends(r)
      /\ UNCHANGED <<links, now, counters>>

\* Faulty: decided by the page the click came from.
MailedByLabel(r) == ~requests[r].label
\* The row ToggleApproved reads back, outside its transaction, says approved.
Mailed(r) == users[requests[r].target].approved

\* handleAdminUserApprove mails who it reads back as approved.  A mail that
\* fails is logged, and the handler answers as if it had not.
MailApproval(r) ==
  LET u == requests[r].target
  IN  /\ At(r, "reread")
      /\ \/ u \in DOMAIN users /\ Mailed(r) /\ told' = told \cup {u} /\ UNCHANGED missed
         \/ u \in DOMAIN users /\ Mailed(r) /\ missed' = missed \cup {u} /\ UNCHANGED told
         \/ ~(u \in DOMAIN users /\ Mailed(r)) /\ UNCHANGED mails
      /\ Ends(r)
      /\ UNCHANGED <<users, sessions, links, now, counters>>

\* DeleteUser, with everything the account owns.
DeleteUser(r) ==
  LET u == requests[r].target
  IN  /\ At(r, "act") /\ requests[r].kind = "delete"
      /\ IF u \in DOMAIN users /\ ~users[u].approved /\ ~users[u].admin
         THEN /\ sessions' = Without(sessions, SessionsOf(u))
              /\ users' = Without(users, {u})
              /\ told' = told \ {u} /\ missed' = missed \ {u}
         ELSE UNCHANGED <<users, sessions, mails>>
      /\ Ends(r)
      /\ UNCHANGED <<links, now, counters>>

-----------------------------------------------------------------------------
(* Links that reset a password.                                            *)

\* passwordResetToken, of the row that was read, mailed.
Mailing(u) ==
  /\ u \in DOMAIN users
  /\ Cardinality(links) < MaxLinks
  /\ links' = links \cup {[user |-> u, expires |-> now + LinkLifetime, digest |-> users[u].digest]}

\* handlePasswordCreate: anyone who knows the address can ask.
AskForLink(u) ==
  /\ Mailing(u)
  /\ UNCHANGED <<users, sessions, requests, now, counters, mails>>

\* handleAdminUserPasswordReset: the admin asks for them.
MailLink(r) ==
  /\ At(r, "act") /\ requests[r].kind = "mail"
  /\ IF requests[r].target \in DOMAIN users THEN Mailing(requests[r].target) ELSE UNCHANGED links
  /\ Ends(r)
  /\ UNCHANGED <<users, sessions, now, counters, mails>>

\* Faulty: no look at the fingerprint.
AcceptedUntilExpiry(link) == now < link.expires /\ link.user \in DOMAIN users
\* userFromPasswordResetToken.
Accepted(link) ==
  /\ now < link.expires
  /\ link.user \in DOMAIN users
  /\ users[link.user].digest = link.digest

\* handlePasswordUpdate checks the link first and resets in a second call.
FollowLink(r, link) ==
  /\ At(r, "idle")
  /\ link \in links
  /\ Accepted(link)
  /\ requests' = [requests EXCEPT ![r] = [Idle EXCEPT !.step = "reset", !.user = link.user]]
  /\ UNCHANGED <<users, sessions, links, now, counters, mails>>

\* ResetPassword: the new digest, and every session of the user gone.
Reset(u) ==
  /\ u \in DOMAIN users
  /\ lastDigest < MaxDigests
  /\ lastDigest' = lastDigest + 1
  /\ users' = [users EXCEPT ![u].digest = lastDigest + 1]
  /\ sessions' = Without(sessions, SessionsOf(u))

ResetPassword(r) ==
  /\ At(r, "reset")
  /\ \/ Reset(requests[r].user)
     \/ requests[r].user \notin DOMAIN users /\ UNCHANGED <<users, sessions, lastDigest>>
  /\ Ends(r)
  /\ UNCHANGED <<links, now, lastUser, lastSession, mails>>

\* tinystart set-password, run beside the server.
SetPassword(u) ==
  /\ Reset(u)
  /\ UNCHANGED <<links, requests, now, lastUser, lastSession, mails>>

\* The request fails between two of its steps.
GiveUp(r) ==
  /\ ~At(r, "idle")
  /\ missed' = IF At(r, "reread") THEN missed \cup {requests[r].target} ELSE missed
  /\ Ends(r)
  /\ UNCHANGED <<users, sessions, links, now, counters, told>>

Tick ==
  /\ now < Horizon
  /\ now' = now + 1
  /\ UNCHANGED <<users, sessions, links, requests, counters, mails>>

-----------------------------------------------------------------------------
Init ==
  /\ users = [u \in {} |-> Idle]
  /\ sessions = [s \in {} |-> Idle]
  /\ links = {}
  /\ requests = [r \in Requests |-> Idle]
  /\ now = 0
  /\ lastUser = 0 /\ lastSession = 0 /\ lastDigest = 0
  /\ told = {} /\ missed = {}

RequestStep(r) ==
  \/ \E u \in DOMAIN users : Authenticate(r, u)
  \/ DeleteExpiredSessions(r)
  \/ CreateSession(r)
  \/ \E s \in DOMAIN sessions, kind \in Kinds, target \in DOMAIN users \cup {0} :
       Arrive(r, s, kind, target)
  \/ Admit(r)
  \/ RefreshSession(r)
  \/ SignOut(r)
  \/ CheckPassword(r)
  \/ UpdatePassword(r)
  \/ ToggleApproved(r)
  \/ MailApproval(r)
  \/ DeleteUser(r)
  \/ MailLink(r)
  \/ \E link \in links : FollowLink(r, link)
  \/ ResetPassword(r)
  \/ GiveUp(r)

Next ==
  \/ \E email \in Emails : SignUp(email)
  \/ \E r \in Requests : RequestStep(r)
  \/ \E u \in DOMAIN users : AskForLink(u) \/ SetPassword(u)
  \/ Tick

Spec == Init /\ [][Next]_vars

-----------------------------------------------------------------------------
(* Properties.                                                             *)

UserType == [email: Emails, admin: BOOLEAN, approved: BOOLEAN, digest: 1 .. MaxDigests]
SessionType == [user: 1 .. MaxUsers, expires: 0 .. Horizon + SessionLifetime, seen: 0 .. Horizon]
LinkType == [user: 1 .. MaxUsers, expires: 0 .. Horizon + LinkLifetime, digest: 1 .. MaxDigests]
Steps == {"idle", "prune", "store", "user", "redirect", "refresh", "act", "write", "reread", "reset"}
RequestType ==
  [step: Steps, session: 0 .. MaxSessions, user: 0 .. MaxUsers,
   expires: 0 .. Horizon + SessionLifetime, kind: AllKinds, target: 0 .. MaxUsers, label: BOOLEAN]

TypeOK ==
  /\ lastUser \in 0 .. MaxUsers /\ lastSession \in 0 .. MaxSessions
  /\ lastDigest \in 0 .. MaxDigests /\ now \in 0 .. Horizon
  /\ DOMAIN users \subseteq 1 .. lastUser
  /\ users \in [DOMAIN users -> UserType]
  /\ DOMAIN sessions \subseteq 1 .. lastSession
  /\ sessions \in [DOMAIN sessions -> SessionType]
  /\ links \subseteq LinkType
  /\ requests \in [Requests -> RequestType]
  /\ told \subseteq 1 .. MaxUsers /\ missed \subseteq 0 .. MaxUsers

\* From the first sign-up on there is exactly one admin, it is the first
\* account, and it can come in: no order of sign-ups, switches and deletions
\* makes a second one or locks out "the only account that can unblock anyone".
AlwaysAWayIn ==
  lastUser > 0 =>
    /\ {u \in DOMAIN users : users[u].admin} = {1}
    /\ users[1].approved

\* No session outlives its account, though a sign-in that was checked before
\* the account was deleted stores its session afterwards.
SessionsHaveOwners == \A s \in DOMAIN sessions : sessions[s].user \in DOMAIN users

\* "Someone who visits every week is never signed out.  Someone who disappears
\* for a month is" (sessionRefreshWindow): a session stays good for the window
\* after every request, whatever requests ran beside it, and for no longer than
\* its lifetime.
VisitorsStay ==
  \A s \in DOMAIN sessions :
    /\ sessions[s].expires >= sessions[s].seen + RefreshWindow
    /\ sessions[s].expires <= sessions[s].seen + SessionLifetime

\* "An approval has no live sessions to lose" (ToggleApproved), because it
\* deletes them: a session that a blocked account still has, stored by a
\* sign-in that was under way, never comes back to life with an approval.
NoSessionComesBack ==
  [][\A s \in DOMAIN sessions : \A u \in DOMAIN users \cap DOMAIN users' :
       s \in SessionsOf(u) /\ ~users[u].approved /\ users'[u].approved => s \notin DOMAIN sessions']_vars

\* A session that has not run out ends for one of three reasons: it was signed
\* out of, or its account was switched, reset or deleted.  In particular the
\* clean-up of one sign-in never signs out the other browsers.
SessionsEndForAReason ==
  [][\A s \in DOMAIN sessions \ DOMAIN sessions' :
       \/ sessions[s].expires < now
       \/ \E r \in Requests : /\ requests[r].step = "act" /\ requests[r].kind = "sign_out"
                              /\ requests[r].session = s /\ requests'[r] = Idle
       \/ sessions[s].user \notin DOMAIN users'
       \/ users'[sessions[s].user] # users[sessions[s].user]]_vars

\* A session that has ended stays ended: a request that read it before a
\* sign-out, a clean-up or a deletion and extends it afterwards does not bring it
\* back, and every session that appears is a sign-in's, under an id never used.
EndedForGood ==
  [][\A s \in DOMAIN sessions' \ DOMAIN sessions :
       /\ s > lastSession
       /\ \E r \in Requests : At(r, "store") /\ requests[r].user = sessions'[s].user]_vars

\* "Resetting the password changes the digest ... which makes every token
\* issued before then fail verification" (passwordResetToken): after a change
\* or a reset, none of the links already mailed is accepted.
OldLinksFail ==
  [][\A u \in DOMAIN users \cap DOMAIN users' : users'[u].digest # users[u].digest =>
       \A link \in links : link.user = u => ~Accepted(link)']_vars

\* Nobody is approved in silence: once no switch of an account is under way, an
\* account that an admin approved has had a mail set out since its last switch,
\* or the mail, or the request that was to send it, failed ("a mail failure here
\* is logged and swallowed").  However switches cross, none leaves the telling
\* to another that does not do it.
ApprovedIsTold ==
  \A u \in DOMAIN users :
    users[u].approved /\ ~users[u].admin =>
      \/ u \in told
      \/ u \in missed
      \/ \E r \in Requests : At(r, "reread") /\ requests[r].target = u
=============================================================================
