-------------------------------- MODULE Deploy --------------------------------
(***************************************************************************)
(* The program from start to stop, in containers that share one database   *)
(* file, as they do while one version takes over from another: Open and    *)
(* Migrate, requests being served, and the shutdown.                       *)
(*                                                                         *)
(* A transaction is a copy of the database (`draft`) and the write lock,   *)
(* which BEGIN IMMEDIATE takes; what ends before its commit leaves neither.*)
(* A statement outside of one is a step.  Everybody inside a process       *)
(* shares its one connection.                                              *)
(***************************************************************************)
EXTENDS Integers, FiniteSets

CONSTANTS
  Containers,
  Files,       (* the migrations embedded in each container's binary         *)
  Requests,
  NoOne,
  Grace,       (* ticks in ten seconds                                       *)
  MaxFaults    (* bound: crashes, and locks held longer than busy_timeout    *)

Versions == UNION {Files[c] : c \in Containers}

ASSUME DeployAssumption ==
  /\ Files \in [Containers -> SUBSET Nat]
  /\ Containers \cap Requests = {} /\ NoOne \notin Containers \cup Requests
  /\ Grace \in Nat /\ MaxFaults \in Nat

VARIABLES
  db,          (* committed: whether the tables are there, the changes they  *)
               (* carry, and the versions schema_migrations lists            *)
  lock,        (* who holds the write lock: a booting container or a request *)
  draft,       (* what each booting container's transaction sees             *)
  at,          (* where the process in each container is                     *)
  applied,     (* what Migrate read of the ledger, and added to it           *)
  waited,      (* ticks since it was told to stop                            *)
  conn,        (* the request that has the process's connection              *)
  requests,    (* where each request went, and its step                      *)
  faults

file == <<db, lock, draft>>
vars == <<file, at, applied, waited, conn, requests, faults>>

Booting == {"checking", "installing", "laying", "laid", "listing", "pending",
            "altering", "recording", "recorded"}
Up == {"serving", "draining"}
InHandler == {"asked", "reading", "read", "connected", "writing", "mailing"}
NoDraft == [tables |-> FALSE, changes |-> {}, ledger |-> {}]

Goes(c, step) == at' = [at EXCEPT ![c] = step]
InFlight(c) == {r \in Requests : requests[r].on = c /\ requests[r].step \in InHandler}

\* Every way a process ends: its transactions are rolled back, by the driver or
\* when the file is opened again, and what it was serving is cut off.
Ends(c, step) ==
  /\ Goes(c, step)
  /\ lock' = IF lock \in {c} \cup InFlight(c) THEN NoOne ELSE lock
  /\ draft' = [draft EXCEPT ![c] = NoDraft]
  /\ applied' = [applied EXCEPT ![c] = {}]
  /\ waited' = [waited EXCEPT ![c] = 0]
  /\ conn' = [conn EXCEPT ![c] = NoOne]
  /\ requests' = [r \in Requests |->
       IF r \in InFlight(c) THEN [requests[r] EXCEPT !.step = "cut"] ELSE requests[r]]
  /\ UNCHANGED db

-----------------------------------------------------------------------------
(* Starting: Open and Migrate, up to listening.                            *)

Start(c) ==
  /\ at[c] = "absent"
  /\ Goes(c, "checking")
  /\ UNCHANGED <<file, applied, waited, conn, requests, faults>>
Crash(c) ==
  /\ at[c] \in Booting \cup Up /\ faults < MaxFaults
  /\ faults' = faults + 1
  /\ Ends(c, "down")
\* A container that ended by itself is started again by docker.
Restart(c) ==
  /\ at[c] = "down"
  /\ Goes(c, "checking")
  /\ UNCHANGED <<file, applied, waited, conn, requests, faults>>

SchemaInstalled(c) ==
  /\ at[c] = "checking"
  /\ Goes(c, IF db.tables THEN "listing" ELSE "installing")
  /\ UNCHANGED <<file, applied, waited, conn, requests, faults>>

\* Faulty: deferred, the lock being asked for by the first write.
LockDeferred == TRUE
\* _txlock=immediate.
LockFree == lock = NoOne
\* BeginTx, for the schema or for the next file.
BeginTx(c) ==
  /\ at[c] \in {"installing", "pending"} /\ LockFree
  /\ lock' = c
  /\ draft' = [draft EXCEPT ![c] = db]
  /\ Goes(c, IF at[c] = "installing" THEN "laying" ELSE "altering")
  /\ UNCHANGED <<db, applied, waited, conn, requests, faults>>
\* busy_timeout passes and the lock is still taken: run returns the error.
Busy(c) ==
  /\ at[c] \in {"installing", "pending"} /\ lock # NoOne /\ faults < MaxFaults
  /\ faults' = faults + 1
  /\ Ends(c, "down")

\* installSchema does not ask again; CREATE INDEX fails on what has indexes.
InstallSchema(c) ==
  /\ at[c] = "laying" /\ ~draft[c].tables
  /\ draft' = [draft EXCEPT ![c].tables = TRUE]
  /\ Goes(c, "laid")
  /\ UNCHANGED <<db, lock, applied, waited, conn, requests, faults>>
InstallFails(c) ==
  /\ at[c] = "laying" /\ draft[c].tables
  /\ Ends(c, "down")
  /\ UNCHANGED faults

\* Commit.
Commit(c) ==
  /\ db' = draft[c]
  /\ draft' = [draft EXCEPT ![c] = NoDraft]
  /\ lock' = NoOne
  /\ UNCHANGED <<waited, conn, requests, faults>>
CommitSchema(c) ==
  /\ at[c] = "laid"
  /\ Goes(c, "listing")
  /\ Commit(c) /\ UNCHANGED applied

\* Faulty: every version up to the last one recorded.
RecordedUpTo(c) == {v \in Files[c] : \E w \in db.ledger : v <= w}
\* The versions whose files are not run.
Recorded(c) == db.ledger
\* The loop goes on to the first file that is not recorded, or out.
Loop(c, known) ==
  /\ applied' = [applied EXCEPT ![c] = known]
  /\ Goes(c, IF Files[c] \subseteq known THEN "serving" ELSE "pending")
AppliedVersions(c) ==
  /\ at[c] = "listing"
  /\ Loop(c, Recorded(c))
  /\ UNCHANGED <<file, waited, conn, requests, faults>>
IsNext(c, v) ==
  /\ v \in Files[c] \ applied[c]
  /\ \A w \in Files[c] \ applied[c] : v <= w

\* Faulty: the file is executed outside of the transaction.
AlterByItself(c, v) ==
  /\ at[c] = "altering" /\ IsNext(c, v) /\ v \notin draft[c].changes
  /\ draft' = [draft EXCEPT ![c].changes = @ \cup {v}]
  /\ db' = [db EXCEPT !.changes = @ \cup {v}]
  /\ Goes(c, "recording")
  /\ UNCHANGED <<lock, applied, waited, conn, requests, faults>>
\* A file changes the tables, and cannot change them twice.
Alter(c, v) ==
  /\ at[c] = "altering" /\ IsNext(c, v) /\ v \notin draft[c].changes
  /\ draft' = [draft EXCEPT ![c].changes = @ \cup {v}]
  /\ Goes(c, "recording")
  /\ UNCHANGED <<db, lock, applied, waited, conn, requests, faults>>
AlterFails(c, v) ==
  /\ at[c] = "altering" /\ IsNext(c, v) /\ v \in draft[c].changes
  /\ Ends(c, "down")
  /\ UNCHANGED faults
\* The version is a primary key, so that it is not there yet.
Record(c, v) ==
  /\ at[c] = "recording" /\ IsNext(c, v) /\ v \notin draft[c].ledger
  /\ draft' = [draft EXCEPT ![c].ledger = @ \cup {v}]
  /\ Goes(c, "recorded")
  /\ UNCHANGED <<db, lock, applied, waited, conn, requests, faults>>
CommitMigration(c, v) ==
  /\ at[c] = "recorded" /\ IsNext(c, v)
  /\ Loop(c, applied[c] \cup {v})
  /\ Commit(c)

-----------------------------------------------------------------------------
(* Serving: what a handler does with the connection and the lock.  It loads *)
(* the user, may write, and may then wait for Postmark.                    *)

Serve(c, r) ==
  /\ at[c] = "serving" /\ requests[r].step = "none"
  /\ requests' = [requests EXCEPT ![r] = [on |-> c, step |-> "asked"]]
  /\ UNCHANGED <<file, at, applied, waited, conn, faults>>

Steps(r, step) == requests' = [requests EXCEPT ![r].step = step]
Takes(r) ==
  /\ conn[requests[r].on] = NoOne
  /\ conn' = [conn EXCEPT ![requests[r].on] = r]
Frees(r) ==
  conn' = [conn EXCEPT ![requests[r].on] = IF @ = r THEN NoOne ELSE @]

Query(r) ==
  /\ requests[r].step = "asked"
  /\ Steps(r, "reading") /\ Takes(r)
  /\ UNCHANGED <<file, at, applied, waited, faults>>
CloseRows(r) ==
  /\ requests[r].step = "reading"
  /\ Steps(r, "read") /\ Frees(r)
  /\ UNCHANGED <<file, at, applied, waited, faults>>
\* BeginTx has the connection first and then asks SQLite for the lock.
Connect(r) ==
  /\ requests[r].step = "read"
  /\ Steps(r, "connected") /\ Takes(r)
  /\ UNCHANGED <<file, at, applied, waited, faults>>
Lock(r) ==
  /\ requests[r].step = "connected" /\ lock = NoOne
  /\ lock' = r
  /\ Steps(r, "writing")
  /\ UNCHANGED <<db, draft, at, applied, waited, conn, faults>>
BusyRequest(r) ==
  /\ requests[r].step = "connected" /\ lock # NoOne /\ faults < MaxFaults
  /\ faults' = faults + 1
  /\ Steps(r, "answered") /\ Frees(r)
  /\ UNCHANGED <<file, at, applied, waited>>
\* Faulty: a statement inside fn is asked of db, which waits for a connection.
OnDb(r) == conn[requests[r].on] = NoOne
\* It is asked of the *sql.Tx.
OnTx(r) == conn[requests[r].on] = r
CommitWrite(r) ==
  /\ requests[r].step = "writing" /\ OnTx(r)
  /\ lock' = NoOne
  /\ Steps(r, "mailing") /\ Frees(r)
  /\ UNCHANGED <<db, draft, at, applied, waited, faults>>
Answer(r) ==
  /\ requests[r].step \in {"read", "mailing"}
  /\ Steps(r, "answered")
  /\ UNCHANGED <<file, at, applied, waited, conn, faults>>
\* The client goes away: the handler's next call fails, and a tx rolls back.
GiveUp(r) ==
  /\ requests[r].step \in InHandler
  /\ lock' = IF lock = r THEN NoOne ELSE lock
  /\ Steps(r, "left") /\ Frees(r)
  /\ UNCHANGED <<db, draft, at, applied, waited, faults>>

-----------------------------------------------------------------------------
(* Stopping: SIGTERM, and the rest of run.                                 *)

\* Migrate's next call finds its context cancelled.
StopBooting(c) ==
  /\ at[c] \in Booting
  /\ Ends(c, "stopped")
  /\ UNCHANGED faults
\* The contexts of the requests are not cancelled, and none are taken any more.
Shutdown(c) ==
  /\ at[c] = "serving"
  /\ Goes(c, "draining")
  /\ UNCHANGED <<file, applied, waited, conn, requests, faults>>
Tick ==
  /\ \E c \in Containers : at[c] = "draining" /\ waited[c] < Grace
  /\ waited' = [c \in Containers |->
       IF at[c] = "draining" /\ waited[c] < Grace THEN waited[c] + 1 ELSE waited[c]]
  /\ UNCHANGED <<file, at, applied, conn, requests, faults>>
Drained(c) ==
  /\ at[c] = "draining" /\ InFlight(c) = {}
  /\ Ends(c, "stopped")
  /\ UNCHANGED faults
\* Faulty: the deadline of a context that SIGTERM has cancelled.
TimeoutCancelled == 0
\* That of one without the cancellation.
Timeout == Grace
DeadlineExceeded(c) ==
  /\ at[c] = "draining" /\ InFlight(c) # {} /\ waited[c] >= Timeout
  /\ Ends(c, "stopped")
  /\ UNCHANGED faults

-----------------------------------------------------------------------------
\* The file is empty, or Rails or an earlier version left it.
Init ==
  /\ \E f \in SUBSET Versions, t \in BOOLEAN :
       /\ t \/ f = {}
       /\ db = [tables |-> t, changes |-> f, ledger |-> f]
  /\ lock = NoOne /\ draft = [c \in Containers |-> NoDraft]
  /\ at = [c \in Containers |-> "absent"]
  /\ applied = [c \in Containers |-> {}]
  /\ waited = [c \in Containers |-> 0]
  /\ conn = [c \in Containers |-> NoOne]
  /\ requests = [r \in Requests |-> [on |-> NoOne, step |-> "none"]]
  /\ faults = 0

Migrate(c) ==
  \/ SchemaInstalled(c) \/ BeginTx(c) \/ InstallSchema(c) \/ InstallFails(c)
  \/ CommitSchema(c) \/ AppliedVersions(c)
  \/ \E v \in Versions : Alter(c, v) \/ AlterFails(c, v) \/ Record(c, v) \/ CommitMigration(c, v)
Handle(r) ==
  Query(r) \/ CloseRows(r) \/ Connect(r) \/ Lock(r) \/ CommitWrite(r) \/ Answer(r)
Stop(c) == Drained(c) \/ DeadlineExceeded(c)

Next ==
  \/ \E c \in Containers :
       \/ Migrate(c) \/ Stop(c)
       \/ Start(c) \/ Restart(c) \/ Crash(c) \/ Busy(c) \/ StopBooting(c) \/ Shutdown(c)
       \/ \E r \in Requests : Serve(c, r)
  \/ \E r \in Requests : Handle(r) \/ BusyRequest(r) \/ GiveUp(r)
  \/ Tick

\* The process goes on, docker starts it again, and time passes.
Fairness ==
  /\ \A c \in Containers : WF_vars(Migrate(c)) /\ WF_vars(Restart(c)) /\ WF_vars(Stop(c))
  /\ \A r \in Requests : WF_vars(Handle(r))
  /\ WF_vars(Tick)

Spec == Init /\ [][Next]_vars /\ Fairness

-----------------------------------------------------------------------------
(* Properties.                                                             *)

DbType == [tables : BOOLEAN, changes : SUBSET Versions, ledger : SUBSET Versions]
TypeOK ==
  /\ db \in DbType /\ draft \in [Containers -> DbType]
  /\ lock \in Containers \cup Requests \cup {NoOne}
  /\ at \in [Containers -> Booting \cup Up \cup {"absent", "down", "stopped"}]
  /\ applied \in [Containers -> SUBSET Versions]
  /\ waited \in [Containers -> 0 .. Grace]
  /\ conn \in [Containers -> Requests \cup {NoOne}]
  /\ requests \in [Requests -> [on : Containers \cup {NoOne},
                                step : InHandler \cup {"none", "answered", "left", "cut"}]]
  /\ faults \in 0 .. MaxFaults

\* "A migration that fails half way leaves nothing behind": at every moment, and
\* so after every crash, the committed ledger lists the changes the committed
\* tables carry and no others, and there is none without tables.
LedgerIsTrue ==
  /\ db.changes = db.ledger
  /\ db.tables \/ db.changes = {}

\* A process that takes requests does so on a database that has everything its
\* queries name, whatever versions ran before, whoever migrated it, and in
\* whatever order the files were written.
ServesItsSchema ==
  \A c \in Containers : at[c] \in Up => db.tables /\ Files[c] \subseteq db.changes

\* Nobody lays the tables down twice, repeats a change or undoes one, though
\* each of them decides what to do before it has the lock.
S == INSTANCE Schema WITH installed <- db.tables, applied <- db.changes
ImplementsSchema == S!Spec

\* Once crashes and long waits cease, a container that was started serves,
\* unless it is stopped first: what another one did meanwhile makes a boot fail,
\* and the next one finds it done.
ComesUp ==
  \A c \in Containers :
    at[c] \in Booting \cup {"down"} ~> at[c] \in Up \cup {"stopped"}

\* Only a crash or ten seconds of shutdown take the answer from a request that
\* was accepted ("otherwise it expires immediately and in-flight requests get
\* cut off").
LetFinish ==
  [][\A r \in Requests :
       requests[r].step # "cut" /\ requests'[r].step = "cut" =>
         faults' # faults \/ waited[requests[r].on] >= Grace]_vars

\* Nobody waits for ever for the one connection, for the lock that another
\* process has, or for the process to end.
RequestsEnd ==
  \A r \in Requests :
    requests[r].step \in InHandler ~> requests[r].step \in {"answered", "left", "cut"}
=============================================================================
