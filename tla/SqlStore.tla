------------------------------ MODULE SqlStore ------------------------------
(***************************************************************************)
(* The two SQL backends (sqlite.c and odbc.c), statement by statement.      *)
(* They keep the same table and run the same statements, and differ in what *)
(* surrounds them:                                                          *)
(*   - odbc.c holds a mutex for the whole of every call and asks the        *)
(*     statement itself how many rows it touched;                           *)
(*   - sqlite.c holds no lock.  All threads of a process share one          *)
(*     connection, and sqlite_update asks the connection, in a call of its  *)
(*     own, what the last statement of any thread touched.  Processes that  *)
(*     share the file meet in its locks, and without a busy timeout the one *)
(*     that comes second gets SQLITE_BUSY.                                  *)
(* A statement runs atomically; anything may happen between two of them.    *)
(***************************************************************************)
EXTENDS Session, FiniteSets

CONSTANTS
  Threads,
  Connections,     \* one per process
  Inputs,          \* the sessions callers pass in
  Deployments,     \* the ways the store is used, see Deployment
  FaultsPossible,  \* whether statements and allocations fail, processes crash
  MaxTime          \* bound on the clock

\* Which backend the store was made with, and the process each thread runs in.
Deployment == [backend: {"sqlite", "odbc"}, conn: [Threads -> Connections]]

ASSUME SqlAssumption ==
  /\ Inputs \subseteq Session
  /\ \A s1, s2 \in Inputs : s1.id = s2.id => s1.created_at = s2.created_at
  /\ Deployments \subseteq Deployment
  /\ FaultsPossible \in BOOLEAN
  /\ MaxTime \in Nat
  /\ Nil \notin Threads

VARIABLES
  store,    \* the deployment: it never changes
  rows,     \* the table sessions, by primary key
  now,      \* time(NULL)
  at,       \* where each thread is, and what its call has read
  changes,  \* per connection: whether sqlite3_changes is above zero
  owner,    \* per connection: who holds odbc.c's mutex
  deleted   \* history: removed with success, not created since

vars == <<store, rows, now, at, changes, owner, deleted>>

Sqlite == store.backend = "sqlite"

Conn(t) == store.conn[t]

Functions == {"create", "get", "update", "delete", "get_by_user_id", "delete_by_user_id"}

\* pc: lock (waits for the mutex), exec (its statement is next), rows (a SELECT
\* is open), sweep (expired rows are to be deleted), changes (sqlite3_changes is
\* next), return (rc is set).  History: hit, whether its statement found a row;
\* steady, the live sessions of the user that were there all along; missed, those
\* of them that its listing lacks.
Idle ==
  [pc |-> "idle", fn |-> "none", arg |-> Nil, clock |-> 0, left |-> {},
   live |-> {}, expired |-> {}, rc |-> 0, hit |-> FALSE, steady |-> {}, missed |-> {}]

-----------------------------------------------------------------------------
\* format_rfc3339_utc and parse_rfc3339_utc: a time is stored as text.
format_rfc3339_utc(t) == [rfc3339 |-> t]

parse_rfc3339_utc(text) == text.rfc3339

\* A row of the table: the times are text.
Row ==
  [id: Ids, user_id: Users, state: {"active", "bound"},
   public_key: Keys \cup {Nil}, algorithm: Algorithms \cup {Nil},
   challenge: ChallengeValues, expires_at: [rfc3339: Nat] \cup {Nil},
   created_at: [rfc3339: Nat]]

ASSUME NilRowAssumption == Nil \notin Row /\ Nil \notin [rfc3339: Nat]

\* The parameters bound for a session: text columns, or NULL.
Columns(s) ==
  [s EXCEPT !.expires_at = IF @ = Nil THEN Nil ELSE format_rfc3339_utc(@),
            !.created_at = format_rfc3339_utc(@)]

\* session_from_stmt, session_from_row
session_from_stmt(row) ==
  [row EXCEPT !.expires_at = IF @ = Nil THEN Nil ELSE parse_rfc3339_utc(@),
              !.created_at = parse_rfc3339_utc(@)]

Stored(id) == session_from_stmt(rows[id])

Present == {id \in Ids : rows[id] # Nil}

Owned(u) == {id \in Present : rows[id].user_id = u}

ExpiredBy(clock) == {id \in Present : IsExpired(Stored(id), clock)}

-----------------------------------------------------------------------------
Init ==
  /\ store \in Deployments
  /\ rows = [id \in Ids |-> Nil]
  /\ now = 0
  /\ at = [t \in Threads |-> Idle]
  /\ changes = [c \in Connections |-> FALSE]
  /\ owner = [c \in Connections |-> Nil]
  /\ deleted = {}

\* A SELECT that is open in SQLite holds the file's shared lock: sqlite_get
\* deletes an expired row before it finalizes the statement that read it.
Reading(t) == at[t].pc = "rows" \/ (at[t].pc = "sweep" /\ at[t].fn = "get")

\* No other process has the file open for reading.
Unlocked(t) ==
  Sqlite => \A u \in Threads : Conn(u) # Conn(t) => ~Reading(u)

\* An error, or SQLITE_BUSY because another process is at the file.
MayFail(t) ==
  \/ FaultsPossible
  \/ Sqlite /\ \E u \in Threads : Conn(u) # Conn(t) /\ at[u].pc # "idle"

\* A call up to its first statement.
Begin(t, fn, arg, clock, watched) ==
  /\ at[t].pc = "idle"
  /\ at' = [at EXCEPT ![t] =
       [Idle EXCEPT !.pc = IF Sqlite THEN "exec" ELSE "lock", !.fn = fn,
                    !.arg = arg, !.clock = clock, !.steady = watched]]
  /\ UNCHANGED <<store, rows, now, changes, owner, deleted>>

\* get_by_user_id reads the clock once, before it takes the mutex.
Call(t) ==
  \/ \E s \in Inputs, fn \in {"create", "update"} : Begin(t, fn, s, 0, {})
  \/ \E id \in Ids, fn \in {"get", "delete"} : Begin(t, fn, id, 0, {})
  \/ \E u \in Users : Begin(t, "delete_by_user_id", u, 0, {})
  \/ \E u \in Users :
       Begin(t, "get_by_user_id", u, now, Owned(u) \ ExpiredBy(now))

\* Mutant of Lock: no mutex.
LockNothing(t) ==
  /\ at[t].pc = "lock"
  /\ at' = [at EXCEPT ![t].pc = "exec"]
  /\ UNCHANGED <<store, rows, now, changes, owner, deleted>>

\* pthread_mutex_lock
Lock(t) ==
  /\ at[t].pc = "lock"
  /\ owner[Conn(t)] = Nil
  /\ owner' = [owner EXCEPT ![Conn(t)] = t]
  /\ at' = [at EXCEPT ![t].pc = "exec"]
  /\ UNCHANGED <<store, rows, now, changes, deleted>>

\* Sessions that are gone, have expired or changed hands were not live and the
\* user's all along.
Unsteady(ids) == [u \in Threads |-> [at[u] EXCEPT !.steady = @ \ ids]]

\* The call has its result: rc, and the sessions listed.
Result(t, rc, hit, listed, gone) ==
  /\ at' = [Unsteady(gone) EXCEPT ![t] =
       [Idle EXCEPT !.pc = "return", !.fn = at[t].fn, !.rc = rc, !.hit = hit,
                    !.missed = (at[t].steady \ ExpiredBy(now)) \ listed]]
  /\ UNCHANGED owner

\* Mutant of Unlock: the early returns forget the mutex.
UnlockOnSuccess(t) ==
  owner' = [owner EXCEPT ![Conn(t)] = IF @ = t /\ at[t].rc = 0 THEN Nil ELSE @]

\* pthread_mutex_unlock, on every way out of odbc.c.
Unlock(t) == owner' = [owner EXCEPT ![Conn(t)] = IF @ = t THEN Nil ELSE @]

Return(t) ==
  /\ at[t].pc = "return"
  /\ at' = [at EXCEPT ![t] = Idle]
  /\ Unlock(t)
  /\ UNCHANGED <<store, rows, now, changes, deleted>>

\* A statement writes the table and counts the rows it touched.
Write(t, table, touched) ==
  /\ Unlocked(t)
  /\ rows' = table
  /\ changes' = [changes EXCEPT ![Conn(t)] = Sqlite /\ touched]

Without(ids) == [id \in Ids |-> IF id \in ids THEN Nil ELSE rows[id]]

Executing(t, fn) == at[t].pc = "exec" /\ at[t].fn = fn

\* Prepare, bind, step or a copy fails before the table is touched; an open
\* statement is finalized.  (When the bind of sqlite_get_by_user_id fails, its
\* exit reads counters that are not initialized yet: it returns -1, or the
\* process dies, which is Restart.)
StatementFails(t) ==
  /\ at[t].pc \in {"exec", "rows"}
  /\ MayFail(t)
  /\ changes' = changes \/ changes' = [changes EXCEPT ![Conn(t)] = FALSE]
  /\ Result(t, -1, FALSE, {}, {})
  /\ UNCHANGED <<store, rows, now, deleted>>

-----------------------------------------------------------------------------
\* create: the primary key refuses a second row.
Insert(t) ==
  LET s == at[t].arg
  IN  /\ Executing(t, "create")
      /\ \/ /\ rows[s.id] = Nil
            /\ Write(t, [rows EXCEPT ![s.id] = Columns(s)], TRUE)
            /\ Result(t, 0, TRUE, {}, {})
            /\ deleted' = deleted \ {s.id}
         \/ /\ rows[s.id] # Nil
            /\ Write(t, rows, FALSE)
            /\ Result(t, -1, FALSE, {}, {})
            /\ UNCHANGED deleted
      /\ UNCHANGED <<store, now>>

\* Mutant of Assigned: INSERT OR REPLACE.
AssignedOrInserted(s) == Columns(s)

\* UPDATE leaves created_at alone, and touches nothing if there is no row.
Assigned(s) ==
  IF rows[s.id] = Nil THEN Nil
  ELSE [Columns(s) EXCEPT !.created_at = rows[s.id].created_at]

\* update.  SQLRowCount may fail, and some drivers count changed rows, not
\* matched ones.  (ODBC drivers also report an UPDATE without rows as
\* SQL_NO_DATA, which odbc.c takes for a failure: the outcome is the same.)
UpdateRow(t) ==
  LET s == at[t].arg
      hit == rows[s.id] # Nil
      stale == IF IsExpired(s, now) \/ s.id \notin Owned(s.user_id) THEN {s.id} ELSE {}
  IN  /\ Executing(t, "update")
      /\ Write(t, [rows EXCEPT ![s.id] = Assigned(s)], hit)
      /\ \/ /\ Sqlite
            /\ at' = [Unsteady(stale) EXCEPT ![t].pc = "changes", ![t].hit = hit]
            /\ UNCHANGED owner
         \/ ~Sqlite /\ Result(t, IF hit THEN 0 ELSE -1, hit, {}, stale)
         \/ /\ ~Sqlite
            /\ FaultsPossible \/ rows' = rows
            /\ Result(t, -1, hit, {}, stale)
      /\ UNCHANGED <<store, now, deleted>>

\* Mutant of Touched: sqlite3_changes is not asked.
TouchedAlways(t) == TRUE

Touched(t) == changes[Conn(t)]

\* sqlite3_changes, after the step and by itself.
ReadChanges(t) ==
  /\ at[t].pc = "changes"
  /\ Result(t, IF Touched(t) THEN 0 ELSE -1, at[t].hit, {}, {})
  /\ UNCHANGED <<store, rows, now, changes, deleted>>

\* DELETE of the rows gone, and what it returns: an ODBC driver reports a
\* statement that touched no row as SQL_SUCCESS or as SQL_NO_DATA.
DeleteRows(t, gone) ==
  LET touched == gone \cap Present
  IN  /\ Write(t, Without(gone), touched # {})
      /\ \/ /\ Result(t, 0, touched # {}, {}, gone)
            /\ deleted' = deleted \cup gone
         \/ /\ ~Sqlite /\ touched = {}
            /\ Result(t, -1, FALSE, {}, gone)
            /\ UNCHANGED deleted
      /\ UNCHANGED <<store, now>>

Delete(t) == Executing(t, "delete") /\ DeleteRows(t, {at[t].arg})

DeleteByUserId(t) == Executing(t, "delete_by_user_id") /\ DeleteRows(t, Owned(at[t].arg))

-----------------------------------------------------------------------------
\* Go on to delete the expired rows.
Sweep(t, live, expired) ==
  /\ at' = [at EXCEPT ![t].pc = "sweep", ![t].live = live, ![t].expired = expired]
  /\ UNCHANGED owner

\* get: no row, a live one, or an expired one, which is deleted next.
SelectById(t) ==
  LET id == at[t].arg
  IN  /\ Executing(t, "get")
      /\ \/ rows[id] = Nil /\ Result(t, -1, FALSE, {}, {})
         \/ id \in Present \ ExpiredBy(now) /\ Result(t, 0, TRUE, {}, {})
         \/ id \in ExpiredBy(now) /\ Sweep(t, {}, {id})
      /\ UNCHANGED <<store, rows, now, changes, deleted>>

\* The end of the loop over the rows.
Listed(t, live, expired) ==
  \/ expired # {} /\ Sweep(t, live, expired)
  \/ expired = {} /\ Result(t, 0, TRUE, live, {})

\* get_by_user_id in odbc.c: the rows are those of the moment it ran in.
SelectByUserId(t) ==
  LET found == Owned(at[t].arg)
      stale == ExpiredBy(at[t].clock)
  IN  /\ Executing(t, "get_by_user_id")
      /\ ~Sqlite
      /\ Listed(t, found \ stale, found \cap stale)
      /\ UNCHANGED <<store, rows, now, changes, deleted>>

\* get_by_user_id in sqlite.c: the loop begins.
OpenByUserId(t) ==
  /\ Executing(t, "get_by_user_id")
  /\ Sqlite
  /\ at' = [at EXCEPT ![t].pc = "rows", ![t].left = Owned(at[t].arg)]
  /\ UNCHANGED <<store, rows, now, changes, owner, deleted>>

\* The next row: one of those left that is still there, or one that was inserted
\* behind the cursor, which SQLite may show or not.
StepRow(t) ==
  /\ at[t].pc = "rows"
  /\ \E id \in Owned(at[t].arg) \ (at[t].live \cup at[t].expired) :
       at' = [at EXCEPT ![t].left = @ \ {id},
                ![t].live = @ \cup ({id} \ ExpiredBy(at[t].clock)),
                ![t].expired = @ \cup ({id} \cap ExpiredBy(at[t].clock))]
  /\ UNCHANGED <<store, rows, now, changes, owner, deleted>>

\* Mutant of Exhausted: the loop stops at the first expired row.
ExhaustedOrExpired(t) == at[t].left \cap Owned(at[t].arg) = {} \/ at[t].expired # {}

Exhausted(t) == at[t].left \cap Owned(at[t].arg) = {}

\* SQLITE_DONE
StepDone(t) ==
  /\ at[t].pc = "rows"
  /\ Exhausted(t)
  /\ Listed(t, at[t].live, at[t].expired)
  /\ UNCHANGED <<store, rows, now, changes, deleted>>

\* The sweep deletes by identifier, whatever the row holds by now, and does not
\* look at the result.
SweepOne(t, id) ==
  LET rest == at[t].expired \ {id}
  IN  /\ at[t].pc = "sweep"
      /\ id \in at[t].expired
      /\ \/ Write(t, Without({id}), rows[id] # Nil)
         \/ (MayFail(t) \/ ~Unlocked(t)) /\ UNCHANGED <<rows, changes>>
      /\ \/ /\ rest # {}
            /\ at' = [Unsteady({id}) EXCEPT ![t].expired = rest]
            /\ UNCHANGED owner
         \/ /\ rest = {}
            /\ LET listing == at[t].fn = "get_by_user_id"
               IN  Result(t, IF listing THEN 0 ELSE -1, listing, at[t].live, {id})
      /\ UNCHANGED <<store, now, deleted>>

-----------------------------------------------------------------------------
\* A process ends, with all its threads, and opens the store again: CREATE
\* TABLE IF NOT EXISTS leaves the rows alone.
Restart(c) ==
  /\ FaultsPossible
  /\ \E t \in Threads : Conn(t) = c /\ at[t].pc # "idle"
  /\ at' = [t \in Threads |-> IF Conn(t) = c THEN Idle ELSE at[t]]
  /\ changes' = [changes EXCEPT ![c] = FALSE]
  /\ owner' = [owner EXCEPT ![c] = Nil]
  /\ UNCHANGED <<store, rows, now, deleted>>

Tick ==
  /\ now < MaxTime
  /\ now' = now + 1
  /\ UNCHANGED <<store, rows, at, changes, owner, deleted>>

\* The next statement of the call a thread is in.
Statement(t) ==
  \/ StatementFails(t)
  \/ Insert(t)
  \/ UpdateRow(t)
  \/ ReadChanges(t)
  \/ Delete(t)
  \/ DeleteByUserId(t)
  \/ SelectById(t)
  \/ SelectByUserId(t)
  \/ OpenByUserId(t)
  \/ StepRow(t)
  \/ StepDone(t)
  \/ \E id \in Ids : SweepOne(t, id)
  \/ Return(t)

Next ==
  \/ \E t \in Threads : Call(t) \/ Lock(t) \/ Statement(t)
  \/ \E c \in Connections : Restart(c)
  \/ Tick

\* A thread in a call, and not waiting for the mutex, goes on.
Fairness == \A t \in Threads : WF_vars(Statement(t))

Spec == Init /\ [][Next]_vars /\ Fairness

-----------------------------------------------------------------------------
\* Every variable holds a value of its type, a row reads back as a session, and
\* a thread has the mutex of odbc.c exactly while it runs statements.
SqlTypeOK ==
  /\ store \in Deployments
  /\ \A id \in Present : Stored(id) \in Inputs /\ Stored(id).id = id
  /\ now \in 0..MaxTime
  /\ \A t \in Threads :
       /\ at[t].pc \in {"idle", "lock", "exec", "rows", "sweep", "changes", "return"}
       /\ at[t].fn \in Functions \cup {"none"}
       /\ at[t].live \cup at[t].expired \cup at[t].left \subseteq Ids
  /\ changes \in [Connections -> BOOLEAN]
  /\ deleted \subseteq Ids
  /\ \A t \in Threads :
       (owner[Conn(t)] = t) <=> (~Sqlite /\ at[t].pc \notin {"idle", "lock"})

\* A session whose deletion was reported as done stays gone until it is created
\* again: an update in flight finds no row and cannot bring it back.
RowsStayDeleted == \A id \in deleted : rows[id] = Nil

\* An update that reports success found the session it was to replace.
UpdateIsTruthful ==
  \A t \in Threads :
    at[t].pc = "return" /\ at[t].fn = "update" /\ at[t].rc = 0 => at[t].hit

\* No two threads share a SQLite connection.
Unshared == Sqlite => \A t, u \in Threads : Conn(t) = Conn(u) => t = u

\* The same, where the count an update reads is that of its own statement.
UnsharedUpdateIsTruthful == Unshared => UpdateIsTruthful

\* A listing that succeeds contains every session of the user that was there
\* all along and has not expired, whatever other threads wrote between its rows.
ListingComplete ==
  \A t \in Threads :
    at[t].pc = "return" /\ at[t].fn = "get_by_user_id" /\ at[t].rc = 0
      => at[t].missed = {}

\* Calls on the store do not overlap: one process, and odbc.c's mutex.
Exclusive == ~Sqlite /\ \A t, u \in Threads : Conn(t) = Conn(u)

\* A session that disappears while it is read, by get or by get_by_user_id, has
\* expired: no refresh that was acknowledged is undone by the sweep of what a
\* reader saw before it.
SweptWasExpired ==
  [][Exclusive => \A id \in Present : rows'[id] = Nil =>
       \/ id \in ExpiredBy(now)
       \/ \E t \in Threads :
            /\ at[t].pc = "exec" /\ at'[t].pc = "return"
            /\ at[t].fn \in {"delete", "delete_by_user_id"}]_vars

\* Whoever takes the mutex gives it back, on error paths too.
MutexReleased == \A c \in Connections : owner[c] # Nil ~> owner[c] = Nil
=============================================================================
