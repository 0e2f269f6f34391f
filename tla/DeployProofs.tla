----------------------------- MODULE DeployProofs -----------------------------
(***************************************************************************)
(* Theorems about Deploy, for any number of containers, images, requests   *)
(* and crashes.  Whoever holds the write lock is the only one in a         *)
(* transaction, and its draft is the committed database with its own work  *)
(* on top, so that what it commits is exactly that work.                   *)
(***************************************************************************)
EXTENDS Deploy, TLAPS

-----------------------------------------------------------------------------
(* The invariant.                                                          *)

Transaction == {"laying", "laid", "altering", "recording", "recorded"}

\* A container in a transaction has the lock, and so has a request that writes.
Locked(c) == at[c] \in Transaction => lock = c
Writing(r) == requests[r].step = "writing" => lock = r

\* What the draft has beyond what is committed, at every step.
New(c, v) == IsNext(c, v) /\ v \notin db.changes
Drafted(c) ==
  /\ at[c] \in {"laying", "altering"} => draft[c] = db
  /\ at[c] = "laid" => ~db.tables /\ draft[c] = [db EXCEPT !.tables = TRUE]
  /\ at[c] = "recording" =>
       \E v : New(c, v) /\ draft[c] = [db EXCEPT !.changes = @ \cup {v}]
  /\ at[c] = "recorded" =>
       \E v : New(c, v) /\ draft[c] = [db EXCEPT !.changes = @ \cup {v}, !.ledger = @ \cup {v}]

\* What a process knows of the ledger is still there, and what it needs as well.
Listed(c) ==
  /\ applied[c] \subseteq db.ledger
  /\ at[c] \in {"listing", "pending", "altering", "recording", "recorded"} \cup Up => db.tables
  /\ at[c] \in Up => Files[c] \subseteq applied[c]

Sound(c) == Locked(c) /\ Drafted(c) /\ Listed(c)
IInv ==
  /\ TypeOK /\ LedgerIsTrue
  /\ \A c \in Containers : Sound(c)
  /\ \A r \in Requests : Writing(r)

-----------------------------------------------------------------------------
(* Types.                                                                  *)

\* The ways to move a process, and to end it, keep the types.
LEMMA GoesType ==
  ASSUME TypeOK, NEW c \in Containers, NEW step \in Booting \cup Up \cup {"down", "stopped"},
         Goes(c, step)
  PROVE  at' \in [Containers -> Booting \cup Up \cup {"absent", "down", "stopped"}]
BY DEF Goes, TypeOK

LEMMA EndsType ==
  ASSUME TypeOK, NEW c \in Containers, NEW step \in {"down", "stopped"}, Ends(c, step),
         faults' \in 0 .. MaxFaults
  PROVE  TypeOK'
<1>1. at' \in [Containers -> Booting \cup Up \cup {"absent", "down", "stopped"}]
  BY GoesType DEF Ends
<1>2. db' \in DbType /\ draft' \in [Containers -> DbType]
  BY DEF Ends, TypeOK, DbType, NoDraft
<1>3. lock' \in Containers \cup Requests \cup {NoOne}
  BY DEF Ends, TypeOK
<1>4. applied' \in [Containers -> SUBSET Versions] /\ waited' \in [Containers -> 0 .. Grace]
  BY DeployAssumption DEF Ends, TypeOK
<1>5. conn' \in [Containers -> Requests \cup {NoOne}]
  BY DEF Ends, TypeOK
<1>6. requests' \in [Requests -> [on : Containers \cup {NoOne},
                                  step : InHandler \cup {"none", "answered", "left", "cut"}]]
  BY DEF Ends, TypeOK
<1> QED
  BY <1>1, <1>2, <1>3, <1>4, <1>5, <1>6 DEF TypeOK

\* So do the steps of Migrate,
LEMMA MigrateType ==
  ASSUME TypeOK, NEW c \in Containers, Migrate(c)
  PROVE  TypeOK'
<1>1. CASE SchemaInstalled(c)
  <2>1. at' \in [Containers -> Booting \cup Up \cup {"absent", "down", "stopped"}]
    BY <1>1, GoesType DEF SchemaInstalled, Booting
  <2> QED
    BY <1>1, <2>1 DEF SchemaInstalled, file, TypeOK
<1>2. CASE BeginTx(c)
  <2>1. at' \in [Containers -> Booting \cup Up \cup {"absent", "down", "stopped"}]
    BY <1>2, GoesType DEF BeginTx, Booting
  <2> QED
    BY <1>2, <2>1 DEF BeginTx, TypeOK
<1>3. CASE InstallSchema(c)
  <2>1. at' \in [Containers -> Booting \cup Up \cup {"absent", "down", "stopped"}]
    BY <1>3, GoesType DEF InstallSchema, Booting
  <2>2. draft' \in [Containers -> DbType]
    BY <1>3 DEF InstallSchema, TypeOK, DbType
  <2> QED
    BY <1>3, <2>1, <2>2 DEF InstallSchema, TypeOK
<1>4. CASE InstallFails(c)
  <2>1. faults' \in 0 .. MaxFaults
    BY <1>4 DEF InstallFails, TypeOK
  <2> QED
    BY <1>4, <2>1, EndsType DEF InstallFails
<1>5. CASE CommitSchema(c)
  <2>1. at' \in [Containers -> Booting \cup Up \cup {"absent", "down", "stopped"}]
    BY <1>5, GoesType DEF CommitSchema, Booting
  <2>2. db' \in DbType /\ draft' \in [Containers -> DbType]
    BY <1>5 DEF CommitSchema, Commit, TypeOK, DbType, NoDraft
  <2> QED
    BY <1>5, <2>1, <2>2 DEF CommitSchema, Commit, TypeOK
<1>6. CASE AppliedVersions(c)
  <2>1. at' \in [Containers -> Booting \cup Up \cup {"absent", "down", "stopped"}]
    BY <1>6, GoesType DEF AppliedVersions, Loop, Booting, Up
  <2>2. applied' \in [Containers -> SUBSET Versions]
    BY <1>6 DEF AppliedVersions, Loop, Recorded, TypeOK, DbType
  <2> QED
    BY <1>6, <2>1, <2>2 DEF AppliedVersions, file, TypeOK
<1>7. ASSUME NEW v \in Versions, Alter(c, v)
      PROVE  TypeOK'
  <2>1. at' \in [Containers -> Booting \cup Up \cup {"absent", "down", "stopped"}]
    BY <1>7, GoesType DEF Alter, Booting
  <2>2. draft' \in [Containers -> DbType]
    BY <1>7 DEF Alter, TypeOK, DbType
  <2> QED
    BY <1>7, <2>1, <2>2 DEF Alter, TypeOK
<1>8. ASSUME NEW v \in Versions, AlterFails(c, v)
      PROVE  TypeOK'
  <2>1. faults' \in 0 .. MaxFaults
    BY <1>8 DEF AlterFails, TypeOK
  <2> QED
    BY <1>8, <2>1, EndsType DEF AlterFails
<1>9. ASSUME NEW v \in Versions, Record(c, v)
      PROVE  TypeOK'
  <2>1. at' \in [Containers -> Booting \cup Up \cup {"absent", "down", "stopped"}]
    BY <1>9, GoesType DEF Record, Booting
  <2>2. draft' \in [Containers -> DbType]
    BY <1>9 DEF Record, TypeOK, DbType
  <2> QED
    BY <1>9, <2>1, <2>2 DEF Record, TypeOK
<1>10. ASSUME NEW v \in Versions, CommitMigration(c, v)
       PROVE  TypeOK'
  <2>1. at' \in [Containers -> Booting \cup Up \cup {"absent", "down", "stopped"}]
    BY <1>10, GoesType DEF CommitMigration, Loop, Booting, Up
  <2>2. db' \in DbType /\ draft' \in [Containers -> DbType]
    BY <1>10 DEF CommitMigration, Commit, TypeOK, DbType, NoDraft
  <2>3. applied' \in [Containers -> SUBSET Versions]
    BY <1>10 DEF CommitMigration, Loop, TypeOK
  <2> QED
    BY <1>10, <2>1, <2>2, <2>3 DEF CommitMigration, Commit, TypeOK
<1> QED
  BY <1>1, <1>2, <1>3, <1>4, <1>5, <1>6, <1>7, <1>8, <1>9, <1>10 DEF Migrate

\* and those of a request.
RequestStep ==
  \/ \E c \in Containers, r \in Requests : Serve(c, r)
  \/ \E r \in Requests : Handle(r) \/ BusyRequest(r) \/ GiveUp(r)

LEMMA RequestType ==
  ASSUME TypeOK, RequestStep
  PROVE  TypeOK'
<1> DEFINE Type == [Requests -> [on : Containers \cup {NoOne},
                                 step : InHandler \cup {"none", "answered", "left", "cut"}]]
<1>1. ASSUME NEW r \in Requests,
             NEW step \in InHandler \cup {"answered", "left", "cut"}, Steps(r, step)
      PROVE  requests' \in Type
  BY <1>1 DEF Steps, TypeOK
<1>2. ASSUME NEW r \in Requests, Takes(r) \/ Frees(r)
      PROVE  conn' \in [Containers -> Requests \cup {NoOne}]
  BY <1>2 DEF Takes, Frees, TypeOK
<1> HIDE DEF Type
<1>3. ASSUME NEW c \in Containers, NEW r \in Requests, Serve(c, r)
      PROVE  TypeOK'
  <2>1. requests' \in Type
    BY <1>3 DEF Serve, TypeOK, InHandler, Type
  <2> QED
    BY <1>3, <2>1 DEF Serve, file, TypeOK, Type
<1>4. ASSUME NEW r \in Requests, Handle(r)
      PROVE  TypeOK'
  <2>1. requests' \in Type
    BY <1>1, <1>4 DEF Handle, Query, CloseRows, Connect, Lock, CommitWrite, Answer, InHandler
  <2>2. conn' \in [Containers -> Requests \cup {NoOne}]
    BY <1>2, <1>4 DEF Handle, Query, CloseRows, Connect, Lock, CommitWrite, Answer, TypeOK
  <2>3. lock' \in Containers \cup Requests \cup {NoOne}
    BY <1>4 DEF Handle, Query, CloseRows, Connect, Lock, CommitWrite, Answer, file, TypeOK
  <2>4. UNCHANGED <<db, draft, at, applied, waited, faults>>
    BY <1>4 DEF Handle, Query, CloseRows, Connect, Lock, CommitWrite, Answer, file
  <2> QED
    BY <2>1, <2>2, <2>3, <2>4 DEF TypeOK, Type
<1>5. ASSUME NEW r \in Requests, BusyRequest(r)
      PROVE  TypeOK'
  <2>1. requests' \in Type /\ conn' \in [Containers -> Requests \cup {NoOne}]
    BY <1>1, <1>2, <1>5 DEF BusyRequest
  <2>2. faults' \in 0 .. MaxFaults
    BY <1>5, DeployAssumption DEF BusyRequest, TypeOK
  <2> QED
    BY <1>5, <2>1, <2>2 DEF BusyRequest, file, TypeOK, Type
<1>6. ASSUME NEW r \in Requests, GiveUp(r)
      PROVE  TypeOK'
  <2>1. requests' \in Type /\ conn' \in [Containers -> Requests \cup {NoOne}]
    BY <1>1, <1>2, <1>6 DEF GiveUp
  <2> QED
    BY <1>6, <2>1 DEF GiveUp, TypeOK, Type
<1> QED
  BY <1>3, <1>4, <1>5, <1>6 DEF RequestStep

LEMMA InitType == Init => TypeOK
<1> SUFFICES ASSUME Init PROVE TypeOK
  OBVIOUS
<1>1. db \in DbType
  BY DEF Init, DbType
<1>2. requests \in [Requests -> [on : Containers \cup {NoOne},
                                 step : InHandler \cup {"none", "answered", "left", "cut"}]]
  BY DEF Init
<1> QED
  BY <1>1, <1>2, DeployAssumption DEF Init, TypeOK, DbType, NoDraft

\* The rest of what happens to a container.
LifeStep(c) ==
  Stop(c) \/ Start(c) \/ Restart(c) \/ Crash(c) \/ Busy(c) \/ StopBooting(c) \/ Shutdown(c)
LEMMA Cases ==
  Next <=> \/ \E c \in Containers : Migrate(c) \/ LifeStep(c)
           \/ RequestStep
           \/ Tick
BY DEF Next, LifeStep, RequestStep

LEMMA NextType == TypeOK /\ [Next]_vars => TypeOK'
<1> SUFFICES ASSUME TypeOK, [Next]_vars PROVE TypeOK'
  OBVIOUS
<1>1. ASSUME NEW c \in Containers, LifeStep(c) PROVE TypeOK'
  <2>1. CASE Start(c) \/ Restart(c) \/ Shutdown(c)
    <3>1. at' \in [Containers -> Booting \cup Up \cup {"absent", "down", "stopped"}]
      BY <2>1, GoesType DEF Start, Restart, Shutdown, Booting, Up
    <3> QED
      BY <2>1, <3>1 DEF Start, Restart, Shutdown, file, TypeOK
  <2>2. CASE Crash(c) \/ Busy(c) \/ StopBooting(c) \/ Stop(c)
    <3>1. faults' \in 0 .. MaxFaults
      BY <2>2, DeployAssumption DEF Crash, Busy, StopBooting, Stop, Drained, DeadlineExceeded, TypeOK
    <3>2. Ends(c, "down") \/ Ends(c, "stopped")
      BY <2>2 DEF Crash, Busy, StopBooting, Stop, Drained, DeadlineExceeded
    <3> QED
      BY <3>1, <3>2, EndsType
  <2> QED
    BY <1>1, <2>1, <2>2 DEF LifeStep
<1>2. CASE Tick
  <2>1. waited' \in [Containers -> 0 .. Grace]
    BY <1>2, DeployAssumption DEF Tick, TypeOK
  <2> QED
    BY <1>2, <2>1 DEF Tick, file, TypeOK
<1>3. CASE UNCHANGED vars
  BY <1>3 DEF vars, file, TypeOK
<1> QED
  BY <1>1, <1>2, <1>3, MigrateType, RequestType, Cases

\* Every variable keeps its type.
THEOREM TypeCorrect == Spec => []TypeOK
BY InitType, NextType, PTL DEF Spec

-----------------------------------------------------------------------------
(* The invariant is inductive.                                             *)

\* A container that nobody touched stays sound when others add to the database,
\* as long as it is left alone while it is in a transaction.
LEMMA Untouched ==
  ASSUME NEW d \in Containers, Sound(d),
         at'[d] = at[d], draft'[d] = draft[d], applied'[d] = applied[d],
         lock = d => lock' = d,
         at[d] \in Transaction => db' = db,
         db.ledger \subseteq db'.ledger, db.tables => db'.tables
  PROVE  Sound(d)'
<1>1. Locked(d)'
  BY DEF Sound, Locked
<1>2. Listed(d)'
  BY DEF Sound, Listed
<1>3. Drafted(d)'
  <2>1. CASE at[d] \in Transaction
    <3>1. \A v : New(d, v) => New(d, v)'
      BY <2>1 DEF New, IsNext
    <3>2. db' = db
      BY <2>1
    <3> QED
      BY <3>1, <3>2 DEF Sound, Drafted
  <2>2. CASE at[d] \notin Transaction
    BY <2>2 DEF Drafted, Transaction
  <2> QED
    BY <2>1, <2>2
<1> QED
  BY <1>1, <1>2, <1>3 DEF Sound

\* What ends loses its own lock and draft, and takes nothing from the others.
LEMMA EndsInv ==
  ASSUME IInv, NEW c \in Containers, NEW step \in {"down", "stopped"}, Ends(c, step)
  PROVE  LedgerIsTrue' /\ (\A d \in Containers : Sound(d)') /\ (\A r \in Requests : Writing(r)')
<1>1. LedgerIsTrue'
  BY DEF IInv, LedgerIsTrue, Ends
<1>2. Sound(c)'
  <2>1. at'[c] = step /\ applied'[c] = {}
    BY DEF Ends, Goes, IInv, TypeOK
  <2> QED
    BY <2>1 DEF Sound, Locked, Drafted, Listed, Transaction, Up
<1>3. ASSUME NEW d \in Containers \ {c} PROVE Sound(d)'
  <2>1. at'[d] = at[d] /\ draft'[d] = draft[d] /\ applied'[d] = applied[d] /\ db' = db
    BY DEF Ends, Goes, IInv, TypeOK
  <2>2. lock = d => lock' = d
    BY DeployAssumption DEF Ends, InFlight
  <2>3. Sound(d)
    BY DEF IInv
  <2> QED
    BY <2>1, <2>2, <2>3, Untouched
<1>4. ASSUME NEW r \in Requests PROVE Writing(r)'
  <2>1. CASE r \in InFlight(c)
    <3>1. requests'[r].step = "cut"
      BY <2>1 DEF Ends, IInv, TypeOK
    <3> QED
      BY <3>1 DEF Writing
  <2>2. CASE r \notin InFlight(c)
    <3>1. requests'[r] = requests[r]
      BY <2>2 DEF Ends
    <3>2. lock = r => lock' = r
      BY <2>2, DeployAssumption DEF Ends
    <3> QED
      BY <3>1, <3>2 DEF IInv, Writing
  <2> QED
    BY <2>1, <2>2
<1> QED
  BY <1>1, <1>2, <1>3, <1>4

\* There is one next file.
LEMMA OneNext ==
  ASSUME NEW c \in Containers, NEW v, NEW w, IsNext(c, v), IsNext(c, w)
  PROVE  v = w
<1>1. v \in Nat /\ w \in Nat /\ v <= w /\ w <= v
  BY DeployAssumption DEF IsNext
<1> QED
  BY <1>1

\* A step of Migrate that commits nothing is sound if it is for its own container.
LEMMA StepInv ==
  ASSUME IInv, NEW c \in Containers, db' = db, requests' = requests,
         \A d \in Containers \ {c} : /\ at'[d] = at[d] /\ draft'[d] = draft[d]
                                     /\ applied'[d] = applied[d],
         lock' = lock \/ (lock = NoOne /\ lock' = c),
         Sound(c)'
  PROVE  LedgerIsTrue' /\ (\A d \in Containers : Sound(d)') /\ (\A r \in Requests : Writing(r)')
<1>1. LedgerIsTrue'
  BY DEF IInv, LedgerIsTrue
<1>2. ASSUME NEW d \in Containers \ {c} PROVE Sound(d)'
  <2>1. lock = d => lock' = d
    BY DeployAssumption
  <2>2. Sound(d)
    BY DEF IInv
  <2> QED
    BY <2>1, <2>2, Untouched
<1>3. ASSUME NEW r \in Requests PROVE Writing(r)'
  BY DeployAssumption DEF IInv, Writing
<1> QED
  BY <1>1, <1>2, <1>3

\* Nor does a commit disturb anybody: nobody else is in a transaction.
LEMMA CommitInv ==
  ASSUME IInv, NEW c \in Containers, at[c] \in Transaction, Commit(c),
         \A d \in Containers \ {c} : at'[d] = at[d] /\ applied'[d] = applied[d],
         LedgerIsTrue', db.ledger \subseteq db'.ledger, db.tables => db'.tables,
         Sound(c)'
  PROVE  LedgerIsTrue' /\ (\A d \in Containers : Sound(d)') /\ (\A r \in Requests : Writing(r)')
<1>1. lock = c
  BY DEF IInv, Sound, Locked
<1>2. ASSUME NEW d \in Containers \ {c} PROVE Sound(d)'
  <2>1. Sound(d) /\ at[d] \notin Transaction
    BY <1>1 DEF IInv, Sound, Locked
  <2>2. draft'[d] = draft[d] /\ lock # d
    BY <1>1 DEF Commit, IInv, TypeOK
  <2> QED
    BY <2>1, <2>2, Untouched
<1>3. ASSUME NEW r \in Requests PROVE Writing(r)'
  <2>1. requests[r].step # "writing"
    BY <1>1, DeployAssumption DEF IInv, Writing
  <2> QED
    BY <2>1 DEF Commit, Writing
<1> QED
  BY <1>2, <1>3

LEMMA MigrateInv ==
  ASSUME IInv, NEW c \in Containers, Migrate(c)
  PROVE  LedgerIsTrue' /\ (\A d \in Containers : Sound(d)') /\ (\A r \in Requests : Writing(r)')
<1>0. Sound(c) /\ c # NoOne
  BY DeployAssumption DEF IInv
<1>1. CASE SchemaInstalled(c)
  <2>1. at'[c] = IF db.tables THEN "listing" ELSE "installing"
    BY <1>1 DEF SchemaInstalled, Goes, IInv, TypeOK
  <2>2. Sound(c)'
    BY <1>0, <1>1, <2>1
       DEF SchemaInstalled, file, Sound, Locked, Drafted, Listed, Transaction, Up
  <2> QED
    BY <1>1, <2>2, StepInv DEF SchemaInstalled, Goes, file, IInv, TypeOK
<1>2. CASE BeginTx(c)
  <2>1. /\ at'[c] = IF at[c] = "installing" THEN "laying" ELSE "altering"
        /\ draft'[c] = db /\ lock' = c
    BY <1>2 DEF BeginTx, Goes, IInv, TypeOK
  <2>2. Sound(c)'
    BY <1>0, <1>2, <2>1
       DEF BeginTx, Sound, Locked, Drafted, Listed, Transaction, Up
  <2> QED
    BY <1>2, <2>2, StepInv DEF BeginTx, LockFree, Goes, IInv, TypeOK
<1>3. CASE InstallSchema(c)
  <2>1. at'[c] = "laid" /\ draft'[c] = [draft[c] EXCEPT !.tables = TRUE]
    BY <1>3 DEF InstallSchema, Goes, IInv, TypeOK
  <2>2. draft[c] = db /\ lock = c
    BY <1>0, <1>3 DEF InstallSchema, Sound, Locked, Drafted, Transaction
  <2>3. Sound(c)'
    BY <1>0, <1>3, <2>1, <2>2
       DEF InstallSchema, Sound, Locked, Drafted, Listed, Transaction, Up
  <2> QED
    BY <1>3, <2>3, StepInv DEF InstallSchema, Goes, IInv, TypeOK
<1>4. CASE InstallFails(c)
  BY <1>4, EndsInv DEF InstallFails
<1>5. CASE CommitSchema(c)
  <2>1. at'[c] = "listing" /\ db' = [db EXCEPT !.tables = TRUE] /\ ~db.tables
    BY <1>0, <1>5 DEF CommitSchema, Commit, Goes, Sound, Drafted, IInv, TypeOK
  <2>2. db'.tables /\ db'.changes = db.changes /\ db'.ledger = db.ledger
    BY <2>1 DEF IInv, TypeOK, DbType
  <2>3. Sound(c)'
    BY <1>0, <1>5, <2>1, <2>2
       DEF CommitSchema, Sound, Locked, Drafted, Listed, Transaction, Up
  <2>4. LedgerIsTrue'
    BY <2>2 DEF IInv, LedgerIsTrue
  <2> QED
    BY <1>5, <2>2, <2>3, <2>4, CommitInv DEF CommitSchema, Goes, Transaction, IInv, TypeOK
<1>6. CASE AppliedVersions(c)
  <2>1. /\ at'[c] = IF Files[c] \subseteq db.ledger THEN "serving" ELSE "pending"
        /\ applied'[c] = db.ledger
    BY <1>6 DEF AppliedVersions, Loop, Recorded, Goes, IInv, TypeOK
  <2>2. Sound(c)'
    BY <1>0, <1>6, <2>1
       DEF AppliedVersions, file, Sound, Locked, Drafted, Listed, Transaction, Up
  <2> QED
    BY <1>6, <2>2, StepInv DEF AppliedVersions, Loop, Goes, file, IInv, TypeOK
<1>7. ASSUME NEW v \in Versions, Alter(c, v)
      PROVE  LedgerIsTrue' /\ (\A d \in Containers : Sound(d)') /\ (\A r \in Requests : Writing(r)')
  <2>1. at'[c] = "recording" /\ draft'[c] = [draft[c] EXCEPT !.changes = @ \cup {v}]
    BY <1>7 DEF Alter, Goes, IInv, TypeOK
  <2>2. draft[c] = db /\ lock = c /\ db' = db /\ applied' = applied
    BY <1>0, <1>7 DEF Alter, Sound, Locked, Drafted, Transaction
  <2>3. New(c, v)'
    BY <1>7, <2>2 DEF Alter, New, IsNext
  <2>4. draft'[c] = [db EXCEPT !.changes = @ \cup {v}]'
    BY <2>1, <2>2
  <2>5. Drafted(c)'
    BY <2>1, <2>3, <2>4 DEF Drafted
  <2>6. Sound(c)'
    BY <1>0, <1>7, <2>1, <2>2, <2>5 DEF Alter, Sound, Locked, Listed, Transaction, Up
  <2> QED
    BY <1>7, <2>6, StepInv DEF Alter, Goes, IInv, TypeOK
<1>8. ASSUME NEW v \in Versions, AlterFails(c, v)
      PROVE  LedgerIsTrue' /\ (\A d \in Containers : Sound(d)') /\ (\A r \in Requests : Writing(r)')
  BY <1>8, EndsInv DEF AlterFails
<1>9. ASSUME NEW v \in Versions, Record(c, v)
      PROVE  LedgerIsTrue' /\ (\A d \in Containers : Sound(d)') /\ (\A r \in Requests : Writing(r)')
  <2>1. at'[c] = "recorded" /\ draft'[c] = [draft[c] EXCEPT !.ledger = @ \cup {v}]
    BY <1>9 DEF Record, Goes, IInv, TypeOK
  <2>2. PICK w : New(c, w) /\ draft[c] = [db EXCEPT !.changes = @ \cup {w}]
    BY <1>0, <1>9 DEF Record, Sound, Drafted
  <2>3. v = w
    BY <1>9, <2>2, OneNext DEF Record, New
  <2>4. lock = c /\ db' = db /\ applied' = applied
    BY <1>0, <1>9 DEF Record, Sound, Locked, Transaction
  <2>5. New(c, v)'
    BY <2>2, <2>3, <2>4 DEF New, IsNext
  <2>6. draft'[c] = [db EXCEPT !.changes = @ \cup {v}, !.ledger = @ \cup {v}]'
    BY <2>1, <2>2, <2>3, <2>4 DEF IInv, TypeOK, DbType
  <2>7. Drafted(c)'
    BY <2>1, <2>5, <2>6 DEF Drafted
  <2>8. Sound(c)'
    BY <1>0, <1>9, <2>1, <2>4, <2>7 DEF Record, Sound, Locked, Listed, Transaction, Up
  <2> QED
    BY <1>9, <2>8, StepInv DEF Record, Goes, IInv, TypeOK
<1>10. ASSUME NEW v \in Versions, CommitMigration(c, v)
       PROVE  LedgerIsTrue' /\ (\A d \in Containers : Sound(d)') /\ (\A r \in Requests : Writing(r)')
  <2>1. PICK w : /\ New(c, w)
                 /\ draft[c] = [db EXCEPT !.changes = @ \cup {w}, !.ledger = @ \cup {w}]
    BY <1>0, <1>10 DEF CommitMigration, Sound, Drafted
  <2>2. v = w
    BY <1>10, <2>1, OneNext DEF CommitMigration, New
  <2>3. /\ db'.tables = db.tables
        /\ db'.changes = db.changes \cup {v} /\ db'.ledger = db.ledger \cup {v}
    BY <1>10, <2>1, <2>2 DEF CommitMigration, Commit, IInv, TypeOK, DbType
  <2>4. /\ applied'[c] = applied[c] \cup {v}
        /\ at'[c] = IF Files[c] \subseteq applied[c] \cup {v} THEN "serving" ELSE "pending"
    BY <1>10 DEF CommitMigration, Loop, Goes, IInv, TypeOK
  <2>5. db.tables
    BY <1>0, <1>10 DEF CommitMigration, Sound, Listed
  <2>6. Sound(c)'
    BY <1>0, <2>3, <2>4, <2>5 DEF Sound, Locked, Drafted, Listed, Transaction, Up
  <2>7. LedgerIsTrue'
    BY <2>3, <2>5 DEF IInv, LedgerIsTrue
  <2> QED
    BY <1>10, <2>3, <2>6, <2>7, CommitInv DEF CommitMigration, Loop, Goes, Transaction, IInv, TypeOK
<1> QED
  BY <1>1, <1>2, <1>3, <1>4, <1>5, <1>6, <1>7, <1>8, <1>9, <1>10 DEF Migrate

LEMMA RequestInv ==
  ASSUME IInv, RequestStep
  PROVE  LedgerIsTrue' /\ (\A d \in Containers : Sound(d)') /\ (\A r \in Requests : Writing(r)')
<1>1. UNCHANGED <<db, draft, at, applied>>
  BY DEF RequestStep, Handle, Serve, Query, CloseRows, Connect, Lock, CommitWrite, Answer,
         BusyRequest, GiveUp, file
<1>2. PICK r \in Requests :
        /\ \A q \in Requests \ {r} : requests'[q] = requests[q]
        /\ requests'[r].step = "writing" => lock' = r
        /\ lock' # lock => {lock, lock'} = {r, NoOne}
  <2>1. CASE \E c \in Containers, r \in Requests : Serve(c, r)
    BY <2>1 DEF Serve, file, IInv, TypeOK
  <2>2. ASSUME NEW r \in Requests, Handle(r) \/ BusyRequest(r) \/ GiveUp(r)
        PROVE  /\ \A q \in Requests \ {r} : requests'[q] = requests[q]
               /\ requests'[r].step = "writing" => lock' = r
               /\ lock' # lock => {lock, lock'} = {r, NoOne}
    <3>1. CASE Lock(r) \/ CommitWrite(r)
      <4>1. requests[r].step = "writing" => lock = r
        BY DEF IInv, Writing
      <4> QED
        BY <3>1, <4>1 DEF Lock, CommitWrite, Steps, IInv, TypeOK
    <3>2. CASE GiveUp(r)
      BY <3>2 DEF GiveUp, Steps, IInv, TypeOK
    <3>3. CASE Query(r) \/ CloseRows(r) \/ Connect(r) \/ Answer(r) \/ BusyRequest(r)
      BY <3>3 DEF Query, CloseRows, Connect, Answer, BusyRequest, Steps, file, IInv, TypeOK
    <3> QED
      BY <2>2, <3>1, <3>2, <3>3 DEF Handle
  <2> QED
    BY <2>1, <2>2 DEF RequestStep
<1>3. ASSUME NEW d \in Containers PROVE Sound(d)'
  <2>1. lock = d => lock' = d
    BY <1>2, DeployAssumption
  <2>2. Sound(d)
    BY DEF IInv
  <2> QED
    BY <1>1, <2>1, <2>2, Untouched
<1>4. ASSUME NEW q \in Requests PROVE Writing(q)'
  <2>1. lock = q /\ q # r => lock' = q
    BY <1>2, DeployAssumption
  <2> QED
    BY <1>2, <2>1 DEF IInv, Writing
<1>5. LedgerIsTrue'
  BY <1>1 DEF IInv, LedgerIsTrue
<1> QED
  BY <1>3, <1>4, <1>5

LEMMA LifeInv ==
  ASSUME IInv, NEW c \in Containers, LifeStep(c)
  PROVE  LedgerIsTrue' /\ (\A d \in Containers : Sound(d)') /\ (\A r \in Requests : Writing(r)')
<1>1. CASE Start(c) \/ Restart(c) \/ Shutdown(c)
  <2>1. /\ (at'[c] = "checking" \/ (at[c] = "serving" /\ at'[c] = "draining"))
        /\ UNCHANGED <<db, lock, draft, applied, requests>>
    BY <1>1 DEF Start, Restart, Shutdown, Goes, file, IInv, TypeOK
  <2>2. Sound(c)'
    BY <2>1 DEF IInv, Sound, Locked, Drafted, Listed, Transaction, Up
  <2>3. \A d \in Containers \ {c} : at'[d] = at[d]
    BY <1>1 DEF Start, Restart, Shutdown, Goes, IInv, TypeOK
  <2> QED
    BY <2>1, <2>2, <2>3, StepInv
<1>2. CASE Crash(c) \/ Busy(c) \/ StopBooting(c) \/ Stop(c)
  BY <1>2, EndsInv DEF Crash, Busy, StopBooting, Stop, Drained, DeadlineExceeded
<1> QED
  BY <1>1, <1>2 DEF LifeStep

LEMMA Idle ==
  ASSUME IInv, UNCHANGED <<db, lock, draft, at, applied, requests>>
  PROVE  LedgerIsTrue' /\ (\A d \in Containers : Sound(d)') /\ (\A r \in Requests : Writing(r)')
BY Untouched DEF IInv, LedgerIsTrue, Writing

LEMMA NextInv == IInv /\ [Next]_vars => IInv'
<1> SUFFICES ASSUME IInv, [Next]_vars PROVE IInv'
  OBVIOUS
<1>1. TypeOK'
  BY NextType DEF IInv
<1>2. CASE Tick \/ UNCHANGED vars
  BY <1>1, <1>2, Idle DEF Tick, vars, file, IInv
<1>3. CASE \E c \in Containers : Migrate(c) \/ LifeStep(c)
  BY <1>1, <1>3, MigrateInv, LifeInv DEF IInv
<1>4. CASE RequestStep
  BY <1>1, <1>4, RequestInv DEF IInv
<1> QED
  BY <1>2, <1>3, <1>4, Cases

LEMMA InitInv == Init => IInv
<1> SUFFICES ASSUME Init PROVE IInv
  OBVIOUS
<1>1. TypeOK /\ LedgerIsTrue
  BY InitType DEF Init, LedgerIsTrue
<1>2. ASSUME NEW c \in Containers PROVE Sound(c)
  BY DEF Init, Sound, Locked, Drafted, Listed, Transaction, Up
<1>3. \A r \in Requests : Writing(r)
  BY DEF Init, Writing
<1> QED
  BY <1>1, <1>2, <1>3 DEF IInv

LEMMA AlwaysInv == Spec => []IInv
BY InitInv, NextInv, PTL DEF Spec

-----------------------------------------------------------------------------

\* A migration is committed with its line in the ledger or not at all, whoever
\* boots, crashes or is stopped meanwhile.
THEOREM LedgerIsAlwaysTrue == Spec => []LedgerIsTrue
<1>1. IInv => LedgerIsTrue
  BY DEF IInv
<1> QED
  BY <1>1, AlwaysInv, PTL

\* What serves has its tables and every change its queries name.
THEOREM ServersHaveTheirSchema == Spec => []ServesItsSchema
<1>1. IInv => ServesItsSchema
  BY DEF IInv, LedgerIsTrue, Sound, Listed, ServesItsSchema
<1> QED
  BY <1>1, AlwaysInv, PTL

\* Requests are in the hands of processes that serve.
Served == \A c \in Containers : InFlight(c) # {} => at[c] \in Up

LEMMA NextServed ==
  ASSUME TypeOK, Served, [Next]_vars
  PROVE  Served'
<1> SUFFICES ASSUME NEW d \in Containers, NEW r \in Requests,
                    requests'[r].on = d, requests'[r].step \in InHandler
             PROVE  at'[d] \in Up
  BY DEF Served, InFlight
<1>1. ASSUME NEW c \in Containers, NEW step, Ends(c, step)
      PROVE  at'[d] \in Up
  <2>1. r \notin InFlight(c) /\ requests'[r] = requests[r]
    BY <1>1 DEF Ends, InHandler, TypeOK
  <2>2. d # c /\ at[d] \in Up
    BY <2>1 DEF InFlight, Served
  <2> QED
    BY <1>1, <2>2 DEF Ends, Goes, TypeOK
<1>2. ASSUME NEW c \in Containers, ~(\E step : Ends(c, step)), Migrate(c) \/ LifeStep(c)
      PROVE  at'[d] \in Up
  <2>1. /\ requests' = requests
        /\ at[c] \in Up => at[c] = "serving" /\ Goes(c, "draining")
        /\ \E step : Goes(c, step)
    BY <1>2
       DEF Migrate, LifeStep, Stop, SchemaInstalled, BeginTx, InstallSchema, InstallFails,
           CommitSchema, Commit, AppliedVersions, Loop, Alter, AlterFails, Record,
           CommitMigration, Start, Restart, Crash, Busy, StopBooting, Shutdown, Drained,
           DeadlineExceeded, Up
  <2>2. at[d] \in Up
    BY <2>1 DEF Served, InFlight
  <2> QED
    BY <2>1, <2>2 DEF Goes, TypeOK, Up
<1>3. CASE RequestStep
  <2>1. at' = at
    BY <1>3 DEF RequestStep, Handle, Serve, Query, CloseRows, Connect, Lock, CommitWrite, Answer,
                BusyRequest, GiveUp, file
  <2>2. at[d] \in Up
    <3>1. ASSUME NEW c \in Containers, NEW q \in Requests, Serve(c, q)
          PROVE  at[d] \in Up
      BY <3>1 DEF Serve, Served, InFlight, Up, TypeOK
    <3>2. ASSUME NEW q \in Requests, Handle(q) \/ BusyRequest(q) \/ GiveUp(q)
          PROVE  at[d] \in Up
      <4>1. requests[q].step \in InHandler /\ \E step : Steps(q, step)
        BY <3>2 DEF Handle, Query, CloseRows, Connect, Lock, CommitWrite, Answer, BusyRequest,
                    GiveUp, InHandler
      <4>2. requests[r].on = d /\ requests[r].step \in InHandler
        BY <4>1 DEF Steps, TypeOK
      <4> QED
        BY <4>2 DEF Served, InFlight
    <3> QED
      BY <1>3, <3>1, <3>2 DEF RequestStep
  <2> QED
    BY <2>1, <2>2
<1>4. CASE Tick \/ UNCHANGED vars
  BY <1>4 DEF Tick, vars, file, Served, InFlight
<1> QED
  BY <1>1, <1>2, <1>3, <1>4, Cases

\* Only a crash, or the end of the ten seconds, cuts off a request.
THEOREM RequestsAreLetFinish == Spec => LetFinish
<1>1. Init => Served
  BY DEF Init, Served, InFlight, InHandler
<1>2. TypeOK /\ Served /\ [Next]_vars => Served'
  BY NextServed
<1>3. TypeOK /\ Served /\ [Next]_vars =>
        [\A r \in Requests :
           requests[r].step # "cut" /\ requests'[r].step = "cut" =>
             faults' # faults \/ waited[requests[r].on] >= Grace]_vars
  <2> SUFFICES ASSUME TypeOK, Served, Next, NEW r \in Requests,
                      requests[r].step # "cut", requests'[r].step = "cut"
               PROVE  faults' # faults \/ waited[requests[r].on] >= Grace
    BY DEF vars
  <2>1. ASSUME NEW c \in Containers, Migrate(c) \/ LifeStep(c)
        PROVE  faults' # faults \/ waited[requests[r].on] >= Grace
    <3>1. CASE Crash(c) \/ Busy(c)
      BY <3>1 DEF Crash, Busy, TypeOK
    <3>2. CASE ~Crash(c) /\ ~Busy(c)
      <4>1. PICK step : Ends(c, step)
        BY <2>1, <3>2
           DEF Migrate, LifeStep, Stop, SchemaInstalled, BeginTx, InstallSchema, InstallFails,
               CommitSchema, Commit, AppliedVersions, Alter, AlterFails, Record,
               CommitMigration, Start, Restart, StopBooting, Shutdown, Drained,
               DeadlineExceeded, file
      <4>2. r \in InFlight(c) /\ at[c] \in Up
        BY <4>1 DEF Ends, Served
      <4>3. DeadlineExceeded(c)
        BY <2>1, <3>2, <4>1, <4>2
           DEF Migrate, LifeStep, Stop, SchemaInstalled, BeginTx, InstallSchema, InstallFails,
               CommitSchema, AppliedVersions, Alter, AlterFails, Record, CommitMigration,
               Start, Restart, StopBooting, Shutdown, Drained, Goes, Booting, Up, Ends, TypeOK
      <4> QED
        BY <4>2, <4>3 DEF DeadlineExceeded, Timeout, InFlight
    <3> QED
      BY <3>1, <3>2
  <2>2. CASE RequestStep
    BY <2>2 DEF RequestStep, Handle, Serve, Query, CloseRows, Connect, Lock, CommitWrite,
                Answer, BusyRequest, GiveUp, Steps, TypeOK
  <2>3. CASE Tick
    BY <2>3 DEF Tick
  <2> QED
    BY <2>1, <2>2, <2>3, Cases
<1> QED
  BY <1>1, <1>2, <1>3, TypeCorrect, PTL DEF Spec, LetFinish

\* Every step of every container is one of Migrate's promise, or none: the
\* tables are laid down once, by a database without them, and a change is made
\* once, by the container whose next file it is.
THEOREM SchemaIsImplemented == Spec => ImplementsSchema
<1>1. Init => S!Init
  BY DEF Init, S!Init
<1>2. IInv /\ [Next]_vars => [S!Next]_<<db.tables, db.changes>>
  <2> SUFFICES ASSUME IInv, Next, db' # db
               PROVE  S!Next \/ UNCHANGED <<db.tables, db.changes>>
    BY DEF vars, file
  <2>1. ASSUME NEW c \in Containers, CommitSchema(c)
        PROVE  S!Install
    <3>1. db' = [db EXCEPT !.tables = TRUE] /\ ~db.tables
      BY <2>1 DEF CommitSchema, Commit, IInv, Sound, Drafted
    <3> QED
      BY <3>1 DEF S!Install, IInv, TypeOK, DbType
  <2>2. ASSUME NEW c \in Containers, NEW v \in Versions, CommitMigration(c, v)
        PROVE  S!Apply(v)
    <3>1. Sound(c)
      BY DEF IInv
    <3>2. PICK w : /\ New(c, w)
                   /\ draft[c] = [db EXCEPT !.changes = @ \cup {w}, !.ledger = @ \cup {w}]
      BY <2>2, <3>1 DEF CommitMigration, Sound, Drafted
    <3>3. v = w
      BY <2>2, <3>2, OneNext DEF CommitMigration, New
    <3>4. db'.tables = db.tables /\ db'.changes = db.changes \cup {v}
      BY <2>2, <3>2, <3>3 DEF CommitMigration, Commit, IInv, TypeOK, DbType
    <3>5. db.tables /\ v \notin db.changes
      BY <2>2, <3>1, <3>2, <3>3 DEF CommitMigration, Sound, Listed, New
    <3> QED
      BY <3>4, <3>5 DEF S!Apply
  <2>3. ASSUME NEW c \in Containers, Migrate(c)
        PROVE  S!Next
    <3>1. ~(\E step : Ends(c, step))
      BY DEF Ends
    <3>2. CommitSchema(c) \/ \E v \in Versions : CommitMigration(c, v)
      BY <2>3, <3>1
         DEF Migrate, SchemaInstalled, BeginTx, InstallSchema, InstallFails, AppliedVersions,
             Alter, AlterFails, Record, file
    <3> QED
      BY <2>1, <2>2, <3>2 DEF S!Next
  <2>4. ASSUME NEW c \in Containers, LifeStep(c)
        PROVE  FALSE
    BY <2>4
       DEF LifeStep, Stop, Start, Restart, Crash, Busy, StopBooting, Shutdown, Drained,
           DeadlineExceeded, Ends, file
  <2>5. CASE RequestStep \/ Tick
    BY <2>5
       DEF RequestStep, Handle, Serve, Query, CloseRows, Connect, Lock, CommitWrite, Answer,
           BusyRequest, GiveUp, Tick, file
  <2> QED
    BY <2>3, <2>4, <2>5, Cases
<1> QED
  BY <1>1, <1>2, AlwaysInv, PTL DEF Spec, ImplementsSchema, S!Spec
=============================================================================
