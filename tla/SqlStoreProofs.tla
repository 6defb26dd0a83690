--------------------------- MODULE SqlStoreProofs ---------------------------
(***************************************************************************)
(* Proofs about the SQL backends, for any number of threads, processes and  *)
(* sessions, and with or without failing statements and crashes.            *)
(*                                                                         *)
(* A step is described by two things: what it does to the call of the thread *)
(* that takes it, and which sessions it takes out of the histories of the   *)
(* others (Disturbs).  The invariant on a listing in progress then has one  *)
(* argument for the thread itself and one for everybody else.               *)
(***************************************************************************)
EXTENDS SqlStore, TLAPS

Pcs == {"idle", "lock", "exec", "rows", "sweep", "changes", "return"}

Thread ==
  [pc: Pcs, fn: Functions \cup {"none"}, arg: Inputs \cup Ids \cup Users \cup {Nil},
   clock: Nat, left: SUBSET Ids, live: SUBSET Ids, expired: SUBSET Ids,
   rc: {0, -1}, hit: BOOLEAN, steady: SUBSET Ids, missed: SUBSET Ids]

InCall(t) == at[t].pc \notin {"idle", "return"}

Holds(t) == at[t].pc \notin {"idle", "lock"}

StoreOK ==
  /\ store \in Deployments
  /\ now \in 0..MaxTime
  /\ changes \in [Connections -> BOOLEAN]
  /\ owner \in [Connections -> Threads \cup {Nil}]
  /\ deleted \subseteq Ids

\* Every row is one that was bound for a session a caller passed in.
RowsOK ==
  /\ rows \in [Ids -> Row \cup {Nil}]
  /\ \A id \in Ids : rows[id] = Nil \/ \E s \in Inputs : s.id = id /\ rows[id] = Columns(s)

\* A call has arguments of its function, and reaches no place that its function
\* or its backend does not have.
CallOK(t) ==
  /\ at[t].clock <= now
  /\ InCall(t) =>
       /\ at[t].fn \in {"create", "update"} => at[t].arg \in Inputs
       /\ at[t].fn \in {"get", "delete"} => at[t].arg \in Ids
       /\ at[t].fn \in {"get_by_user_id", "delete_by_user_id"} => at[t].arg \in Users
  /\ at[t].pc = "lock" => ~Sqlite
  /\ at[t].pc = "rows" => Sqlite /\ at[t].fn = "get_by_user_id"
  /\ at[t].pc = "changes" => Sqlite /\ at[t].fn = "update"
  /\ at[t].pc = "sweep" => at[t].fn \in {"get", "get_by_user_id"}

MutexOK(t) == (owner[Conn(t)] = t) <=> (~Sqlite /\ Holds(t))

\* A listing in progress: the sessions that were the user's all along still are,
\* had not expired when the call read the clock, and are not lost on the way.
ListingOK(t) ==
  InCall(t) /\ at[t].fn = "get_by_user_id" =>
    /\ at[t].steady \subseteq Owned(at[t].arg) \ ExpiredBy(at[t].clock)
    /\ at[t].pc = "rows" => at[t].steady \subseteq at[t].left \cup at[t].live
    /\ at[t].pc = "sweep" => at[t].steady \subseteq at[t].live

\* A listing that returns has missed nothing.
ReturnOK(t) ==
  at[t].pc = "return" /\ at[t].fn = "get_by_user_id" /\ at[t].rc = 0 => at[t].missed = {}

ThreadOK(t) == CallOK(t) /\ MutexOK(t) /\ ListingOK(t) /\ ReturnOK(t)

SqlInv ==
  /\ StoreOK
  /\ RowsOK
  /\ RowsStayDeleted
  /\ at \in [Threads -> Thread]
  /\ \A t \in Threads : ThreadOK(t)

\* Between the step of an update and the question, the connection remembers it.
ChangesKept ==
  \A t \in Threads : at[t].pc = "changes" => changes[Conn(t)] = at[t].hit

UpdateInv == Unshared => ChangesKept /\ UpdateIsTruthful

\* What a reader is about to sweep has expired, while nobody else runs.
SweepOK ==
  Exclusive => \A t \in Threads :
    at[t].pc = "sweep" => at[t].expired \cap Present \subseteq ExpiredBy(now)

-----------------------------------------------------------------------------
\* The text columns of a session read back as the session, and are not NULL.
LEMMA ColumnsReadBack ==
  ASSUME NEW s \in Session
  PROVE  /\ Columns(s) \in Row
         /\ Columns(s) # Nil
         /\ session_from_stmt(Columns(s)) = s
         /\ Columns(s).id = s.id
         /\ Columns(s).user_id = s.user_id
         /\ Columns(s).created_at = format_rfc3339_utc(s.created_at)
<1>1. Columns(s) \in Row
  BY DEF Columns, Row, Session, format_rfc3339_utc
<1>2. Columns(s) # Nil
  BY <1>1, NilRowAssumption
<1>3. /\ Columns(s).id = s.id
      /\ Columns(s).user_id = s.user_id
      /\ Columns(s).state = s.state
      /\ Columns(s).public_key = s.public_key
      /\ Columns(s).algorithm = s.algorithm
      /\ Columns(s).challenge = s.challenge
      /\ Columns(s).created_at = format_rfc3339_utc(s.created_at)
      /\ Columns(s).expires_at = IF s.expires_at = Nil THEN Nil ELSE format_rfc3339_utc(s.expires_at)
  BY DEF Columns, Session
<1>4. /\ s.expires_at # Nil => format_rfc3339_utc(s.expires_at) # Nil
      /\ parse_rfc3339_utc(format_rfc3339_utc(s.expires_at)) = s.expires_at
      /\ parse_rfc3339_utc(format_rfc3339_utc(s.created_at)) = s.created_at
  BY NilRowAssumption DEF format_rfc3339_utc, parse_rfc3339_utc, Session
<1>5. session_from_stmt(Columns(s)) = s
  BY <1>1, <1>3, <1>4 DEF session_from_stmt, Row, Session
<1> QED
  BY <1>1, <1>2, <1>3, <1>5

\* The end of a call, for the thread itself and for the others.
LEMMA ResultShape ==
  ASSUME at \in [Threads -> Thread], NEW t \in Threads, NEW rc \in {0, -1},
         NEW hit \in BOOLEAN, NEW listed, NEW gone, Result(t, rc, hit, listed, gone)
  PROVE  /\ at' \in [Threads -> Thread]
         /\ at'[t].pc = "return"
         /\ at'[t].fn = at[t].fn
         /\ at'[t].clock = 0
         /\ at'[t].rc = rc
         /\ at'[t].hit = hit
         /\ at'[t].missed = (at[t].steady \ ExpiredBy(now)) \ listed
         /\ \A u \in Threads \ {t} : at'[u] = [at[u] EXCEPT !.steady = @ \ gone]
<1> DEFINE r == [Idle EXCEPT !.pc = "return", !.fn = at[t].fn, !.rc = rc, !.hit = hit,
                    !.missed = (at[t].steady \ ExpiredBy(now)) \ listed]
<1>1. /\ r \in Thread
      /\ r.pc = "return" /\ r.fn = at[t].fn /\ r.clock = 0 /\ r.rc = rc /\ r.hit = hit
      /\ r.missed = (at[t].steady \ ExpiredBy(now)) \ listed
  BY DEF Thread, Idle, Pcs
<1>2. Unsteady(gone) \in [Threads -> Thread]
  BY DEF Unsteady, Thread
<1>3. at' = [Unsteady(gone) EXCEPT ![t] = r]
  BY DEF Result
<1> HIDE DEF r
<1>4. at' \in [Threads -> Thread] /\ at'[t] = r
  BY <1>1, <1>2, <1>3
<1>5. \A u \in Threads \ {t} : at'[u] = [at[u] EXCEPT !.steady = @ \ gone]
  BY <1>3 DEF Unsteady
<1> QED
  BY <1>1, <1>4, <1>5

\* A step by t takes the sessions gone out of the histories of the others, and
\* keeps all other sessions the user's and live.
Disturbs(t, gone) ==
  /\ store' = store
  /\ now' = now
  /\ \A u \in Threads \ {t} : at'[u] = [at[u] EXCEPT !.steady = @ \ gone]
  /\ \A id \in Ids \ gone : rows[id] # Nil =>
       /\ rows'[id] # Nil
       /\ rows'[id].user_id = rows[id].user_id
       /\ rows'[id] = rows[id] \/ ~IsExpired(session_from_stmt(rows'[id]), now)

\* The other threads' mutexes stay with their owners.
OwnersKept(t) ==
  \A u \in Threads \ {t} : (owner'[Conn(u)] = u) <=> (owner[Conn(u)] = u)

\* Every thread has a connection.
LEMMA ConnType ==
  ASSUME StoreOK, NEW t \in Threads
  PROVE  Conn(t) \in Connections
BY SqlAssumption DEF StoreOK, Conn, Deployment

\* A row reads back as a session that a caller passed in.
LEMMA RowReads ==
  ASSUME RowsOK, NEW id \in Ids, rows[id] # Nil
  PROVE  /\ Stored(id) \in Inputs
         /\ Stored(id) \in Session
         /\ Stored(id).id = id
         /\ rows[id].user_id = Stored(id).user_id
         /\ rows[id] = Columns(Stored(id))
<1>1. PICK s \in Inputs : s.id = id /\ rows[id] = Columns(s)
  BY DEF RowsOK
<1>2. s \in Session
  BY SqlAssumption
<1> QED
  BY <1>1, <1>2, ColumnsReadBack DEF Stored

\* What has not expired now had not expired when a call read the clock.
LEMMA NotExpiredBefore ==
  ASSUME NEW s \in Session, NEW n \in Nat, NEW c \in Nat, c <= n, ~IsExpired(s, n)
  PROVE  ~IsExpired(s, c)
<1>1. CASE s.expires_at = Nil
  BY <1>1 DEF IsExpired
<1>2. CASE s.expires_at # Nil
  <2>1. s.expires_at \in Nat
    BY <1>2 DEF Session
  <2> QED BY <1>2, <2>1 DEF IsExpired
<1> QED BY <1>1, <1>2

\* A step of one thread leaves the calls of the others in order.
LEMMA OthersKeep ==
  ASSUME SqlInv, NEW t \in Threads, NEW gone, Disturbs(t, gone), RowsOK',
         OwnersKept(t), NEW u \in Threads \ {t}
  PROVE  ThreadOK(u)'
<1>1. at[u] \in Thread /\ ThreadOK(u) /\ now \in Nat
  BY DEF SqlInv, StoreOK
<1>2. /\ at'[u].pc = at[u].pc /\ at'[u].fn = at[u].fn /\ at'[u].arg = at[u].arg
      /\ at'[u].clock = at[u].clock /\ at'[u].left = at[u].left /\ at'[u].live = at[u].live
      /\ at'[u].rc = at[u].rc /\ at'[u].missed = at[u].missed
      /\ at'[u].steady = at[u].steady \ gone
  BY <1>1 DEF Disturbs, Thread
<1>3. CallOK(u)'
  BY <1>1, <1>2 DEF Disturbs, ThreadOK, CallOK, InCall, Sqlite
<1>4. MutexOK(u)'
  BY <1>1, <1>2 DEF Disturbs, OwnersKept, ThreadOK, MutexOK, Holds, Sqlite, Conn
<1>5. ReturnOK(u)'
  BY <1>1, <1>2 DEF ThreadOK, ReturnOK
<1>6. ASSUME NEW id \in at'[u].steady, InCall(u), at[u].fn = "get_by_user_id"
      PROVE  id \in (Owned(at[u].arg) \ ExpiredBy(at[u].clock))'
  <2>1. id \in at[u].steady /\ id \notin gone
    BY <1>2, <1>6
  <2>2. id \in Owned(at[u].arg) \ ExpiredBy(at[u].clock)
    BY <1>1, <1>6, <2>1 DEF ThreadOK, ListingOK
  <2>3. id \in Ids /\ rows[id] # Nil /\ rows[id].user_id = at[u].arg
        /\ ~IsExpired(Stored(id), at[u].clock)
    BY <2>2 DEF Owned, ExpiredBy, Present
  <2>4. rows'[id] # Nil /\ rows'[id].user_id = at[u].arg
        /\ (rows'[id] = rows[id] \/ ~IsExpired(session_from_stmt(rows'[id]), now))
    BY <2>1, <2>3 DEF Disturbs
  <2>5. ~IsExpired(Stored(id)', at[u].clock)
    <3>1. CASE rows'[id] = rows[id]
      BY <2>3, <3>1 DEF Stored
    <3>2. CASE ~IsExpired(session_from_stmt(rows'[id]), now)
      <4>1. PICK s \in Inputs : rows'[id] = Columns(s)
        BY <2>3, <2>4 DEF RowsOK
      <4>2. s \in Session /\ session_from_stmt(rows'[id]) = s
        BY <4>1, SqlAssumption, ColumnsReadBack
      <4>3. at[u].clock \in Nat /\ at[u].clock <= now
        BY <1>1 DEF Thread, ThreadOK, CallOK
      <4> QED BY <1>1, <3>2, <4>2, <4>3, NotExpiredBefore DEF Stored
    <3> QED BY <2>4, <3>1, <3>2
  <2> QED BY <1>2, <2>3, <2>4, <2>5 DEF Owned, ExpiredBy, Present
<1>7. ListingOK(u)'
  <2> SUFFICES ASSUME InCall(u)', at'[u].fn = "get_by_user_id"
               PROVE  /\ at'[u].steady \subseteq (Owned(at[u].arg) \ ExpiredBy(at[u].clock))'
                      /\ at'[u].pc = "rows" => at'[u].steady \subseteq at'[u].left \cup at'[u].live
                      /\ at'[u].pc = "sweep" => at'[u].steady \subseteq at'[u].live
    BY DEF ListingOK
  <2>1. InCall(u) /\ at[u].fn = "get_by_user_id"
    BY <1>2 DEF InCall
  <2> QED BY <1>1, <1>2, <1>6, <2>1 DEF ThreadOK, ListingOK
<1> QED
  BY <1>3, <1>4, <1>5, <1>7 DEF ThreadOK

\* A step of one thread keeps the invariant if its own call stays in order.
LEMMA ThreadStep ==
  ASSUME SqlInv, NEW t \in Threads, NEW gone, Disturbs(t, gone), OwnersKept(t),
         StoreOK', RowsOK', RowsStayDeleted', at' \in [Threads -> Thread], ThreadOK(t)'
  PROVE  SqlInv'
<1>1. \A u \in Threads \ {t} : ThreadOK(u)'
  BY OthersKeep
<1> QED
  BY <1>1 DEF SqlInv

\* A call that has its result is in order if its listing is complete.
LEMMA ResultStep ==
  ASSUME SqlInv, NEW t \in Threads, NEW rc \in {0, -1}, NEW hit \in BOOLEAN, NEW listed,
         NEW gone, Result(t, rc, hit, listed, gone), Holds(t),
         at[t].fn = "get_by_user_id" /\ rc = 0 => at[t].steady \subseteq listed,
         store' = store, now' = now, changes' \in [Connections -> BOOLEAN],
         deleted' \subseteq Ids, RowsOK', RowsStayDeleted',
         \A id \in Ids \ gone : rows[id] # Nil =>
           /\ rows'[id] # Nil
           /\ rows'[id].user_id = rows[id].user_id
           /\ rows'[id] = rows[id] \/ ~IsExpired(session_from_stmt(rows'[id]), now)
  PROVE  SqlInv'
<1>1. /\ at' \in [Threads -> Thread]
      /\ at'[t].pc = "return"
      /\ at'[t].fn = at[t].fn
      /\ at'[t].clock = 0
      /\ at'[t].rc = rc
      /\ at'[t].missed = (at[t].steady \ ExpiredBy(now)) \ listed
      /\ \A u \in Threads \ {t} : at'[u] = [at[u] EXCEPT !.steady = @ \ gone]
  BY ResultShape DEF SqlInv
<1>2. Disturbs(t, gone)
  BY <1>1 DEF Disturbs
<1>3. owner' = owner
  BY DEF Result
<1>4. OwnersKept(t)
  BY <1>3, <1>2 DEF OwnersKept, Disturbs, Conn
<1>5. StoreOK'
  BY <1>3 DEF SqlInv, StoreOK
<1>6. ThreadOK(t)'
  <2>1. CallOK(t)'
    BY <1>1, <1>5 DEF CallOK, InCall, StoreOK
  <2>2. MutexOK(t)'
    <3>1. MutexOK(t)
      BY DEF SqlInv, ThreadOK
    <3> QED BY <1>1, <1>3, <3>1 DEF MutexOK, Holds, Conn, Sqlite
  <2>3. ListingOK(t)' /\ ReturnOK(t)'
    BY <1>1 DEF ListingOK, InCall, ReturnOK
  <2> QED BY <2>1, <2>2, <2>3 DEF ThreadOK
<1> QED
  BY <1>1, <1>2, <1>4, <1>5, <1>6, ThreadStep

-----------------------------------------------------------------------------
\* Steps that leave the table alone and end the call.
LEMMA QuietResult ==
  ASSUME SqlInv, NEW t \in Threads, NEW rc \in {0, -1}, NEW hit \in BOOLEAN, NEW listed,
         Result(t, rc, hit, listed, {}), Holds(t),
         at[t].fn = "get_by_user_id" /\ rc = 0 => at[t].steady \subseteq listed,
         changes' \in [Connections -> BOOLEAN], UNCHANGED <<store, rows, now, deleted>>
  PROVE  SqlInv'
<1>1. RowsOK' /\ RowsStayDeleted' /\ deleted' \subseteq Ids
  BY DEF SqlInv, StoreOK, RowsOK, RowsStayDeleted
<1> QED
  BY <1>1, ResultStep

\* Steps that leave the table alone and move the call on.
LEMMA QuietMove ==
  ASSUME SqlInv, NEW t \in Threads, at' \in [Threads -> Thread],
         \A u \in Threads \ {t} : at'[u] = at[u],
         UNCHANGED <<store, rows, now, changes, deleted>>,
         owner' \in [Connections -> Threads \cup {Nil}], OwnersKept(t), ThreadOK(t)'
  PROVE  SqlInv'
<1>1. RowsOK' /\ RowsStayDeleted' /\ StoreOK'
  BY DEF SqlInv, StoreOK, RowsOK, RowsStayDeleted
<1>2. Disturbs(t, {})
  BY DEF SqlInv, Disturbs, Thread
<1> QED
  BY <1>1, <1>2, ThreadStep

\* A call that begins is in order, and watches the live sessions of its user.
LEMMA CallStep ==
  ASSUME SqlInv, NEW t \in Threads, Call(t)
  PROVE  SqlInv'
<1>1. ASSUME NEW fn \in Functions, NEW arg \in Inputs \cup Ids \cup Users, NEW clock \in Nat,
             clock <= now, NEW watched \in SUBSET Ids, Begin(t, fn, arg, clock, watched),
             fn \in {"create", "update"} => arg \in Inputs,
             fn \in {"get", "delete"} => arg \in Ids,
             fn \in {"get_by_user_id", "delete_by_user_id"} => arg \in Users,
             fn = "get_by_user_id" => watched \subseteq Owned(arg) \ ExpiredBy(clock)
      PROVE  SqlInv'
  <2> DEFINE r == [Idle EXCEPT !.pc = IF Sqlite THEN "exec" ELSE "lock", !.fn = fn,
                    !.arg = arg, !.clock = clock, !.steady = watched]
  <2>1. /\ r \in Thread /\ r.pc = IF Sqlite THEN "exec" ELSE "lock"
        /\ r.fn = fn /\ r.arg = arg /\ r.clock = clock /\ r.steady = watched
    BY DEF Thread, Idle, Pcs
  <2>2. at' = [at EXCEPT ![t] = r] /\ at[t].pc = "idle"
    BY <1>1 DEF Begin
  <2>3. UNCHANGED <<store, rows, now, changes, owner, deleted>>
    BY <1>1 DEF Begin
  <2> HIDE DEF r
  <2>4. at' \in [Threads -> Thread] /\ at'[t] = r /\ \A u \in Threads \ {t} : at'[u] = at[u]
    BY <2>1, <2>2 DEF SqlInv
  <2>5. CallOK(t)'
    BY <1>1, <2>1, <2>3, <2>4 DEF CallOK, InCall, Sqlite
  <2>6. MutexOK(t)'
    <3>1. MutexOK(t)
      BY DEF SqlInv, ThreadOK
    <3> QED BY <2>1, <2>2, <2>3, <2>4, <3>1 DEF MutexOK, Holds, Conn, Sqlite
  <2>7. ListingOK(t)' /\ ReturnOK(t)'
    BY <1>1, <2>1, <2>3, <2>4 DEF ListingOK, InCall, ReturnOK, Owned, ExpiredBy, Present, Stored
  <2>8. owner' \in [Connections -> Threads \cup {Nil}] /\ OwnersKept(t)
    BY <2>3 DEF SqlInv, StoreOK, OwnersKept, Conn
  <2> QED BY <2>3, <2>4, <2>5, <2>6, <2>7, <2>8, QuietMove DEF ThreadOK
<1>2. now \in Nat
  BY DEF SqlInv, StoreOK
<1>3. \A u \in Users : Owned(u) \ ExpiredBy(now) \subseteq Ids
  BY DEF Owned, Present
<1>4. CASE \E s \in Inputs, fn \in {"create", "update"} : Begin(t, fn, s, 0, {})
  BY <1>1, <1>2, <1>4 DEF Functions
<1>5. CASE \E id \in Ids, fn \in {"get", "delete"} : Begin(t, fn, id, 0, {})
  BY <1>1, <1>2, <1>5 DEF Functions
<1>6. CASE \E u \in Users : Begin(t, "delete_by_user_id", u, 0, {})
  BY <1>1, <1>2, <1>6 DEF Functions
<1>7. CASE \E u \in Users : Begin(t, "get_by_user_id", u, now, Owned(u) \ ExpiredBy(now))
  BY <1>1, <1>2, <1>3, <1>7 DEF Functions
<1> QED
  BY <1>4, <1>5, <1>6, <1>7 DEF Call

\* The mutex is taken only when it is free.
LEMMA LockStep ==
  ASSUME SqlInv, NEW t \in Threads, Lock(t)
  PROVE  SqlInv'
<1>1. at[t] \in Thread /\ ThreadOK(t) /\ Conn(t) \in Connections /\ t # Nil
  BY ConnType, SqlAssumption DEF SqlInv
<1>2. /\ at' \in [Threads -> Thread]
      /\ at'[t] = [at[t] EXCEPT !.pc = "exec"]
      /\ \A u \in Threads \ {t} : at'[u] = at[u]
      /\ at[t].pc = "lock" /\ owner[Conn(t)] = Nil
      /\ UNCHANGED <<store, rows, now, changes, deleted>>
  BY <1>1 DEF Lock, SqlInv, Thread, Pcs
<1>3. owner' = [owner EXCEPT ![Conn(t)] = t]
  BY DEF Lock
<1>4. owner' \in [Connections -> Threads \cup {Nil}] /\ owner'[Conn(t)] = t /\ OwnersKept(t)
  BY <1>1, <1>2, <1>3, ConnType, SqlAssumption DEF SqlInv, StoreOK, OwnersKept, Conn
<1>5. /\ at'[t].pc = "exec" /\ at'[t].fn = at[t].fn /\ at'[t].arg = at[t].arg
      /\ at'[t].clock = at[t].clock /\ at'[t].steady = at[t].steady
  BY <1>1, <1>2 DEF Thread
<1>6. CallOK(t)' /\ ReturnOK(t)'
  BY <1>1, <1>2, <1>5 DEF ThreadOK, CallOK, ReturnOK, InCall, Sqlite
<1>7. MutexOK(t)'
  BY <1>1, <1>2, <1>4, <1>5 DEF ThreadOK, CallOK, MutexOK, Holds, Sqlite, Conn
<1>8. ListingOK(t)'
  BY <1>1, <1>2, <1>5 DEF ThreadOK, ListingOK, InCall, Owned, ExpiredBy, Present, Stored
<1> QED
  BY <1>2, <1>4, <1>6, <1>7, <1>8, QuietMove DEF ThreadOK

\* A call that returns gives the mutex back.
LEMMA ReturnStep ==
  ASSUME SqlInv, NEW t \in Threads, Return(t)
  PROVE  SqlInv'
<1>1. at[t] \in Thread /\ ThreadOK(t) /\ Conn(t) \in Connections /\ t # Nil
  BY ConnType, SqlAssumption DEF SqlInv
<1>2. Idle \in Thread /\ Idle.pc = "idle" /\ Idle.clock = 0
  BY DEF Idle, Thread, Pcs
<1>3. /\ at' \in [Threads -> Thread]
      /\ at'[t] = Idle
      /\ \A u \in Threads \ {t} : at'[u] = at[u]
      /\ at[t].pc = "return"
      /\ UNCHANGED <<store, rows, now, changes, deleted>>
  BY <1>1, <1>2 DEF Return, SqlInv
<1>4. owner' = [owner EXCEPT ![Conn(t)] = IF @ = t THEN Nil ELSE @]
  BY DEF Return, Unlock
<1>5. owner' \in [Connections -> Threads \cup {Nil}] /\ owner'[Conn(t)] # t /\ OwnersKept(t)
  BY <1>1, <1>3, <1>4, ConnType, SqlAssumption DEF SqlInv, StoreOK, OwnersKept, Conn
<1>6. ThreadOK(t)'
  BY <1>1, <1>2, <1>3, <1>5 DEF ThreadOK, CallOK, ReturnOK, ListingOK, MutexOK, InCall,
     Holds, Sqlite, Conn, SqlInv, StoreOK
<1> QED
  BY <1>3, <1>5, <1>6, QuietMove

\* A statement that fails touches no row.
LEMMA StatementFailsStep ==
  ASSUME SqlInv, NEW t \in Threads, StatementFails(t)
  PROVE  SqlInv'
<1>1. changes' \in [Connections -> BOOLEAN]
  BY DEF StatementFails, SqlInv, StoreOK
<1>2. Holds(t) /\ UNCHANGED <<store, rows, now, deleted>>
  BY DEF StatementFails, Holds
<1>3. PICK rc \in {-1}, hit \in {FALSE} : Result(t, rc, hit, {}, {})
  BY Zenon DEF StatementFails
<1>4. rc \in {0, -1} /\ rc # 0
  BY <1>3
<1>5. hit \in BOOLEAN
  BY <1>3
<1> QED
  BY <1>1, <1>2, <1>3, <1>4, <1>5, QuietResult

\* The answer of sqlite3_changes ends an update.
LEMMA ReadChangesStep ==
  ASSUME SqlInv, NEW t \in Threads, ReadChanges(t)
  PROVE  SqlInv'
<1>1. at[t].fn = "update" /\ at[t].hit \in BOOLEAN /\ Holds(t)
  BY DEF ReadChanges, SqlInv, ThreadOK, CallOK, Holds, Thread
<1>2. changes' \in [Connections -> BOOLEAN] /\ UNCHANGED <<store, rows, now, deleted>>
  BY DEF ReadChanges, SqlInv, StoreOK
<1>3. PICK rc \in {0, -1} : Result(t, rc, at[t].hit, {}, {})
  BY DEF ReadChanges
<1> QED
  BY <1>1, <1>2, <1>3, QuietResult

\* A statement without rows, or with a live one, ends a call; an expired row, or
\* the end of a loop that met some, goes on to the sweep.
LEMMA SweepBegins ==
  ASSUME SqlInv, NEW t \in Threads, NEW live \in SUBSET Ids, NEW expired \in SUBSET Ids,
         Sweep(t, live, expired), UNCHANGED <<store, rows, now, changes, deleted>>,
         InCall(t), Holds(t), at[t].fn \in {"get", "get_by_user_id"},
         at[t].fn = "get_by_user_id" => at[t].steady \subseteq live
  PROVE  SqlInv'
<1>1. at[t] \in Thread /\ ThreadOK(t)
  BY DEF SqlInv
<1>2. /\ at' \in [Threads -> Thread]
      /\ at'[t] = [at[t] EXCEPT !.pc = "sweep", !.live = live, !.expired = expired]
      /\ \A u \in Threads \ {t} : at'[u] = at[u]
      /\ owner' = owner
  BY <1>1 DEF Sweep, SqlInv, Thread, Pcs
<1>3. /\ at'[t].pc = "sweep" /\ at'[t].fn = at[t].fn /\ at'[t].arg = at[t].arg
      /\ at'[t].clock = at[t].clock /\ at'[t].steady = at[t].steady /\ at'[t].live = live
  BY <1>1, <1>2 DEF Thread
<1>4. CallOK(t)' /\ ReturnOK(t)'
  BY <1>1, <1>3 DEF ThreadOK, CallOK, ReturnOK, InCall, Sqlite
<1>5. MutexOK(t)'
  BY <1>1, <1>2, <1>3 DEF ThreadOK, MutexOK, Holds, Sqlite, Conn
<1>6. ListingOK(t)'
  BY <1>1, <1>3 DEF ThreadOK, ListingOK, InCall, Owned, ExpiredBy, Present, Stored
<1>7. owner' \in [Connections -> Threads \cup {Nil}] /\ OwnersKept(t)
  BY <1>2 DEF SqlInv, StoreOK, OwnersKept, Conn
<1> QED
  BY <1>2, <1>4, <1>5, <1>6, <1>7, QuietMove DEF ThreadOK

\* The end of a listing's loop keeps the invariant if no live session is missing.
LEMMA ListedStep ==
  ASSUME SqlInv, NEW t \in Threads, NEW live \in SUBSET Ids, NEW expired \in SUBSET Ids,
         Listed(t, live, expired), UNCHANGED <<store, rows, now, changes, deleted>>,
         at[t].pc \in {"exec", "rows"}, at[t].fn = "get_by_user_id", at[t].steady \subseteq live
  PROVE  SqlInv'
<1>1. InCall(t) /\ Holds(t) /\ changes' \in [Connections -> BOOLEAN]
  BY DEF InCall, Holds, SqlInv, StoreOK
<1>2. CASE Sweep(t, live, expired)
  BY <1>1, <1>2, SweepBegins
<1>3. CASE Result(t, 0, TRUE, live, {})
  <2>1. PICK hit \in {TRUE} : Result(t, 0, hit, live, {})
    BY <1>3, Zenon
  <2>2. hit \in BOOLEAN
    BY <2>1
  <2> QED BY <1>1, <2>1, <2>2, QuietResult
<1> QED
  BY <1>2, <1>3, Zenon DEF Listed

\* get reads one row.
LEMMA SelectByIdStep ==
  ASSUME SqlInv, NEW t \in Threads, SelectById(t)
  PROVE  SqlInv'
<1>1. /\ at[t].pc = "exec" /\ at[t].fn = "get"
      /\ UNCHANGED <<store, rows, now, changes, deleted>>
  BY DEF SelectById, Executing
<1>2. InCall(t) /\ Holds(t) /\ changes' \in [Connections -> BOOLEAN] /\ at[t].arg \in Ids
  BY <1>1 DEF InCall, Holds, SqlInv, StoreOK, ThreadOK, CallOK
<1>3. CASE \E rc \in {0, -1}, hit \in BOOLEAN : Result(t, rc, hit, {}, {})
  BY <1>1, <1>2, <1>3, QuietResult
<1>4. CASE Sweep(t, {}, {at[t].arg})
  BY <1>1, <1>2, <1>4, SweepBegins
<1>5. \/ Result(t, -1, FALSE, {}, {})
      \/ Result(t, 0, TRUE, {}, {})
      \/ Sweep(t, {}, {at[t].arg})
  BY Zenon DEF SelectById
<1>6. 0 \in {0, -1} /\ -1 \in {0, -1} /\ TRUE \in BOOLEAN /\ FALSE \in BOOLEAN
  OBVIOUS
<1> QED
  BY <1>3, <1>4, <1>5, <1>6, Zenon

\* odbc.c's listing sees the table of one moment.
LEMMA SelectByUserIdStep ==
  ASSUME SqlInv, NEW t \in Threads, SelectByUserId(t)
  PROVE  SqlInv'
<1> DEFINE found == Owned(at[t].arg)
           stale == ExpiredBy(at[t].clock)
<1>1. /\ at[t].pc = "exec" /\ at[t].fn = "get_by_user_id"
      /\ UNCHANGED <<store, rows, now, changes, deleted>>
      /\ Listed(t, found \ stale, found \cap stale)
  BY DEF SelectByUserId, Executing
<1>2. at[t].steady \subseteq found \ stale
  BY <1>1 DEF SqlInv, ThreadOK, ListingOK, InCall
<1>3. found \ stale \in SUBSET Ids /\ found \cap stale \in SUBSET Ids
  BY DEF Owned, Present
<1> HIDE DEF found, stale
<1> QED
  BY <1>1, <1>2, <1>3, ListedStep

\* sqlite.c's loop begins with every row of the user.
LEMMA OpenByUserIdStep ==
  ASSUME SqlInv, NEW t \in Threads, OpenByUserId(t)
  PROVE  SqlInv'
<1>1. at[t] \in Thread /\ ThreadOK(t) /\ Owned(at[t].arg) \in SUBSET Ids
  BY DEF SqlInv, Owned, Present
<1>2. /\ at' \in [Threads -> Thread]
      /\ at'[t] = [at[t] EXCEPT !.pc = "rows", !.left = Owned(at[t].arg)]
      /\ \A u \in Threads \ {t} : at'[u] = at[u]
      /\ UNCHANGED <<store, rows, now, changes, owner, deleted>>
      /\ at[t].pc = "exec" /\ at[t].fn = "get_by_user_id" /\ Sqlite
  BY <1>1 DEF OpenByUserId, Executing, SqlInv, Thread, Pcs
<1>3. /\ at'[t].pc = "rows" /\ at'[t].fn = at[t].fn /\ at'[t].arg = at[t].arg
      /\ at'[t].clock = at[t].clock /\ at'[t].steady = at[t].steady
      /\ at'[t].left = Owned(at[t].arg)
  BY <1>1, <1>2 DEF Thread
<1>4. CallOK(t)' /\ ReturnOK(t)'
  BY <1>1, <1>2, <1>3 DEF ThreadOK, CallOK, ReturnOK, InCall, Sqlite
<1>5. MutexOK(t)'
  BY <1>1, <1>2, <1>3 DEF ThreadOK, MutexOK, Holds, Sqlite, Conn
<1>6. ListingOK(t)'
  BY <1>1, <1>2, <1>3 DEF ThreadOK, ListingOK, InCall, Owned, ExpiredBy, Present, Stored
<1>7. owner' \in [Connections -> Threads \cup {Nil}] /\ OwnersKept(t)
  BY <1>2 DEF SqlInv, StoreOK, OwnersKept, Conn
<1> QED
  BY <1>2, <1>4, <1>5, <1>6, <1>7, QuietMove DEF ThreadOK

\* A row of the loop that is live is listed.
LEMMA StepRowStep ==
  ASSUME SqlInv, NEW t \in Threads, StepRow(t)
  PROVE  SqlInv'
<1>1. at[t] \in Thread /\ ThreadOK(t)
  BY DEF SqlInv
<1>2. PICK id \in Owned(at[t].arg) :
       at' = [at EXCEPT ![t].left = @ \ {id},
                ![t].live = @ \cup ({id} \ ExpiredBy(at[t].clock)),
                ![t].expired = @ \cup ({id} \cap ExpiredBy(at[t].clock))]
  BY DEF StepRow
<1>3. /\ at' \in [Threads -> Thread]
      /\ at'[t] = [at[t] EXCEPT !.left = @ \ {id},
                !.live = @ \cup ({id} \ ExpiredBy(at[t].clock)),
                !.expired = @ \cup ({id} \cap ExpiredBy(at[t].clock))]
      /\ \A u \in Threads \ {t} : at'[u] = at[u]
  <2>1. id \in Ids
    BY <1>2 DEF Owned, Present
  <2>2. [at[t] EXCEPT !.left = @ \ {id},
                !.live = @ \cup ({id} \ ExpiredBy(at[t].clock)),
                !.expired = @ \cup ({id} \cap ExpiredBy(at[t].clock))] \in Thread
    BY <1>1, <2>1 DEF Thread
  <2> QED BY <1>2, <2>2 DEF SqlInv
<1>4. /\ UNCHANGED <<store, rows, now, changes, owner, deleted>>
      /\ at[t].pc = "rows" /\ at[t].fn = "get_by_user_id" /\ Sqlite
  BY <1>1 DEF StepRow, ThreadOK, CallOK
<1>5. /\ at'[t].pc = "rows" /\ at'[t].fn = at[t].fn /\ at'[t].arg = at[t].arg
      /\ at'[t].clock = at[t].clock /\ at'[t].steady = at[t].steady
      /\ at'[t].left = at[t].left \ {id}
      /\ at'[t].live = at[t].live \cup ({id} \ ExpiredBy(at[t].clock))
  BY <1>1, <1>3, <1>4 DEF Thread
<1>6. CallOK(t)' /\ ReturnOK(t)'
  BY <1>1, <1>4, <1>5 DEF ThreadOK, CallOK, ReturnOK, InCall, Sqlite
<1>7. MutexOK(t)'
  BY <1>1, <1>4, <1>5 DEF ThreadOK, MutexOK, Holds, Sqlite, Conn
<1>8. ListingOK(t)'
  BY <1>1, <1>4, <1>5 DEF ThreadOK, ListingOK, InCall, Owned, ExpiredBy, Present, Stored
<1>9. owner' \in [Connections -> Threads \cup {Nil}] /\ OwnersKept(t)
  BY <1>4 DEF SqlInv, StoreOK, OwnersKept, Conn
<1> QED
  BY <1>3, <1>4, <1>6, <1>7, <1>8, <1>9, QuietMove DEF ThreadOK

\* When the loop is done, the sessions that were there all along are listed.
LEMMA StepDoneStep ==
  ASSUME SqlInv, NEW t \in Threads, StepDone(t)
  PROVE  SqlInv'
<1>1. at[t] \in Thread /\ ThreadOK(t) /\ at[t].pc = "rows"
  BY DEF SqlInv, StepDone
<1>2. at[t].fn = "get_by_user_id"
  BY <1>1 DEF ThreadOK, CallOK
<1>3. /\ at[t].steady \subseteq Owned(at[t].arg)
      /\ at[t].steady \subseteq at[t].left \cup at[t].live
  BY <1>1, <1>2 DEF ThreadOK, ListingOK, InCall
<1>4. at[t].left \cap Owned(at[t].arg) = {}
  BY DEF StepDone, Exhausted
<1>5. at[t].steady \subseteq at[t].live
  BY <1>3, <1>4
<1>6. at[t].live \in SUBSET Ids /\ at[t].expired \in SUBSET Ids
  BY <1>1 DEF Thread
<1> QED
  BY <1>1, <1>2, <1>5, <1>6, ListedStep DEF StepDone

-----------------------------------------------------------------------------
\* INSERT adds a row that was not there.
LEMMA InsertStep ==
  ASSUME SqlInv, NEW t \in Threads, Insert(t)
  PROVE  SqlInv'
<1> DEFINE s == at[t].arg
<1>1. at[t].pc = "exec" /\ at[t].fn = "create" /\ store' = store /\ now' = now
  BY DEF Insert, Executing
<1>2. s \in Inputs /\ s \in Session /\ s.id \in Ids /\ Holds(t)
  BY <1>1, SqlAssumption DEF SqlInv, ThreadOK, CallOK, InCall, Holds, Session
<1>3. changes' \in [Connections -> BOOLEAN]
  BY DEF Insert, Write, SqlInv, StoreOK
<1>4. CASE /\ rows[s.id] = Nil
           /\ Write(t, [rows EXCEPT ![s.id] = Columns(s)], TRUE)
           /\ Result(t, 0, TRUE, {}, {})
           /\ deleted' = deleted \ {s.id}
  <2>1. rows' = [rows EXCEPT ![s.id] = Columns(s)]
    BY <1>4 DEF Write
  <2>2. RowsOK'
    BY <1>2, <2>1, ColumnsReadBack DEF SqlInv, RowsOK
  <2>3. RowsStayDeleted' /\ deleted' \subseteq Ids
    BY <1>2, <1>4, <2>1 DEF SqlInv, RowsOK, RowsStayDeleted, StoreOK
  <2>4. \A id \in Ids \ {} : rows[id] # Nil => rows'[id] = rows[id]
    BY <1>2, <1>4, <2>1 DEF SqlInv, RowsOK
  <2>5. PICK hit \in {TRUE} : Result(t, 0, hit, {}, {})
    BY <1>4, Zenon
  <2>6. hit \in BOOLEAN
    BY <2>5
  <2> QED BY <1>1, <1>2, <1>3, <2>2, <2>3, <2>4, <2>5, <2>6, ResultStep
<1>5. CASE /\ Write(t, rows, FALSE)
           /\ Result(t, -1, FALSE, {}, {})
           /\ UNCHANGED deleted
  <2>1. rows' = rows
    BY <1>5 DEF Write
  <2>2. PICK hit \in {FALSE} : Result(t, -1, hit, {}, {})
    BY <1>5, Zenon
  <2>3. hit \in BOOLEAN
    BY <2>2
  <2> QED BY <1>1, <1>2, <1>3, <1>5, <2>1, <2>2, <2>3, QuietResult
<1> QED
  BY <1>4, <1>5, Zenon DEF Insert

\* UPDATE writes the columns of its session, or nothing.
LEMMA AssignedIsColumns ==
  ASSUME RowsOK, NEW s \in Inputs
  PROVE  Assigned(s) = IF rows[s.id] = Nil THEN Nil ELSE Columns(s)
<1>1. s \in Session /\ s.id \in Ids
  BY SqlAssumption DEF Session
<1>2. CASE rows[s.id] = Nil
  BY <1>2 DEF Assigned
<1>3. CASE rows[s.id] # Nil
  <2>1. PICK old \in Inputs : old.id = s.id /\ rows[s.id] = Columns(old)
    BY <1>1, <1>3 DEF RowsOK
  <2>2. old.created_at = s.created_at /\ old \in Session
    BY <2>1, SqlAssumption
  <2>3. rows[s.id].created_at = Columns(s).created_at /\ Columns(s) \in Row
    BY <1>1, <2>1, <2>2, ColumnsReadBack
  <2>4. [Columns(s) EXCEPT !.created_at = Columns(s).created_at] = Columns(s)
    BY <2>3 DEF Row
  <2> QED BY <1>3, <2>3, <2>4 DEF Assigned
<1> QED
  BY <1>2, <1>3

\* A session that an update leaves in the histories is the user's, and live.
LEMMA UpdateRowStep ==
  ASSUME SqlInv, NEW t \in Threads, UpdateRow(t)
  PROVE  SqlInv'
<1> DEFINE s == at[t].arg
           hit == rows[s.id] # Nil
           stale == IF IsExpired(s, now) \/ s.id \notin Owned(s.user_id) THEN {s.id} ELSE {}
<1>1. /\ at[t].pc = "exec" /\ at[t].fn = "update" /\ store' = store /\ now' = now
      /\ deleted' = deleted
  BY DEF UpdateRow, Executing
<1>2. s \in Inputs /\ s \in Session /\ s.id \in Ids /\ Holds(t) /\ at[t] \in Thread /\ ThreadOK(t)
  BY <1>1, SqlAssumption DEF SqlInv, ThreadOK, CallOK, InCall, Holds, Session
<1>3. changes' \in [Connections -> BOOLEAN]
  BY DEF UpdateRow, Write, SqlInv, StoreOK
<1>4. rows' = [rows EXCEPT ![s.id] = IF rows[s.id] = Nil THEN Nil ELSE Columns(s)]
  BY <1>2, AssignedIsColumns DEF UpdateRow, Write, SqlInv
<1>5. RowsOK'
  BY <1>2, <1>4, ColumnsReadBack DEF SqlInv, RowsOK
<1>6. RowsStayDeleted' /\ deleted' \subseteq Ids
  BY <1>1, <1>2, <1>4 DEF SqlInv, RowsOK, RowsStayDeleted, StoreOK
<1>7. ASSUME NEW id \in Ids \ stale, rows[id] # Nil
      PROVE  /\ rows'[id] # Nil
             /\ rows'[id].user_id = rows[id].user_id
             /\ rows'[id] = rows[id] \/ ~IsExpired(session_from_stmt(rows'[id]), now)
  <2>1. CASE id # s.id
    BY <1>4, <1>7, <2>1 DEF SqlInv, RowsOK
  <2>2. CASE id = s.id
    <3>1. rows'[id] = Columns(s)
      BY <1>2, <1>4, <1>7, <2>2 DEF SqlInv, RowsOK
    <3>2. id \in Owned(s.user_id) /\ ~IsExpired(s, now)
      BY <1>7, <2>2
    <3> QED BY <1>2, <3>1, <3>2, ColumnsReadBack DEF Owned
  <2> QED BY <2>1, <2>2
<1>8. ASSUME NEW rc \in {0, -1}, NEW h \in BOOLEAN, Result(t, rc, h, {}, stale)
      PROVE  SqlInv'
  <2> HIDE DEF stale
  <2> QED BY <1>1, <1>2, <1>3, <1>5, <1>6, <1>7, <1>8, ResultStep
<1>9. CASE /\ Sqlite
           /\ at' = [Unsteady(stale) EXCEPT ![t].pc = "changes", ![t].hit = hit]
           /\ UNCHANGED owner
  <2> HIDE DEF stale
  <2> DEFINE old == [at[t] EXCEPT !.steady = @ \ stale]
             r == [old EXCEPT !.pc = "changes", !.hit = hit]
  <2>1. Unsteady(stale) \in [Threads -> Thread] /\ old \in Thread /\ Unsteady(stale)[t] = old
    BY <1>2 DEF Unsteady, Thread, SqlInv
  <2>2. r \in Thread /\ r.pc = "changes" /\ r.fn = at[t].fn /\ r.arg = at[t].arg
        /\ r.clock = at[t].clock
    <3>1. hit \in BOOLEAN
      OBVIOUS
    <3> HIDE DEF hit
    <3>2. old.fn = at[t].fn /\ old.arg = at[t].arg /\ old.clock = at[t].clock
      BY <1>2 DEF Thread
    <3> HIDE DEF old
    <3> QED BY <2>1, <3>1, <3>2 DEF Thread, Pcs
  <2>3. at' \in [Threads -> Thread] /\ at'[t] = r
    <3> HIDE DEF hit, old
    <3> QED BY <1>9, <2>1, <2>2
  <2>4. \A u \in Threads \ {t} : at'[u] = [at[u] EXCEPT !.steady = @ \ stale]
    <3> HIDE DEF hit
    <3> QED BY <1>9 DEF Unsteady
  <2> HIDE DEF r
  <2>5. Disturbs(t, stale)
    BY <1>1, <1>7, <2>4 DEF Disturbs
  <2>6. StoreOK' /\ OwnersKept(t)
    BY <1>1, <1>3, <1>9 DEF SqlInv, StoreOK, OwnersKept, Conn
  <2>7. CallOK(t)'
    BY <1>1, <1>2, <1>9, <2>2, <2>3 DEF ThreadOK, CallOK, InCall, Sqlite
  <2>8. ReturnOK(t)' /\ ListingOK(t)'
    BY <1>1, <2>2, <2>3 DEF ReturnOK, ListingOK
  <2>9. MutexOK(t)'
    BY <1>1, <1>2, <1>9, <2>2, <2>3 DEF ThreadOK, MutexOK, Holds, Sqlite, Conn
  <2> QED BY <1>5, <1>6, <2>3, <2>5, <2>6, <2>7, <2>8, <2>9, ThreadStep DEF ThreadOK
<1>10. \/ /\ Sqlite
          /\ at' = [Unsteady(stale) EXCEPT ![t].pc = "changes", ![t].hit = hit]
          /\ UNCHANGED owner
       \/ Result(t, IF hit THEN 0 ELSE -1, hit, {}, stale)
       \/ Result(t, -1, hit, {}, stale)
  BY Zenon DEF UpdateRow
<1>11. hit \in BOOLEAN /\ (IF hit THEN 0 ELSE -1) \in {0, -1} /\ -1 \in {0, -1}
  OBVIOUS
<1> HIDE DEF hit, stale
<1> QED
  BY <1>8, <1>9, <1>10, <1>11, Zenon

\* DELETE takes its rows out of the table and out of every history.
LEMMA DeleteRowsStep ==
  ASSUME SqlInv, NEW t \in Threads, NEW gone \in SUBSET Ids, DeleteRows(t, gone), Holds(t),
         at[t].fn # "get_by_user_id"
  PROVE  SqlInv'
<1>1. store' = store /\ now' = now /\ rows' = Without(gone)
  BY DEF DeleteRows, Write
<1>2. changes' \in [Connections -> BOOLEAN]
  BY DEF DeleteRows, Write, SqlInv, StoreOK
<1>3. RowsOK'
  BY <1>1 DEF SqlInv, RowsOK, Without
<1>4. \A id \in Ids \ gone : rows[id] # Nil => rows'[id] = rows[id]
  BY <1>1 DEF Without
<1>5. deleted' \subseteq deleted \cup gone
  BY DEF DeleteRows
<1>6. RowsStayDeleted' /\ deleted' \subseteq Ids
  BY <1>1, <1>5 DEF SqlInv, StoreOK, RowsStayDeleted, Without
<1>7. ASSUME NEW rc \in {0, -1}, NEW hit \in BOOLEAN, Result(t, rc, hit, {}, gone)
      PROVE  SqlInv'
  BY <1>1, <1>2, <1>3, <1>4, <1>6, <1>7, ResultStep
<1>8. \/ Result(t, 0, gone \cap Present # {}, {}, gone)
      \/ Result(t, -1, FALSE, {}, gone)
  BY Zenon DEF DeleteRows
<1>9. 0 \in {0, -1} /\ -1 \in {0, -1} /\ FALSE \in BOOLEAN /\ (gone \cap Present # {}) \in BOOLEAN
  OBVIOUS
<1> QED
  BY <1>7, <1>8, <1>9, Zenon

\* Both DELETE statements of the interface.
LEMMA DeleteStep ==
  ASSUME SqlInv, NEW t \in Threads, Delete(t) \/ DeleteByUserId(t)
  PROVE  SqlInv'
<1>1. at[t].pc = "exec" /\ at[t].fn \in {"delete", "delete_by_user_id"}
  BY DEF Delete, DeleteByUserId, Executing
<1>2. Holds(t) /\ at[t].fn # "get_by_user_id" /\ (at[t].fn = "delete" => at[t].arg \in Ids)
  BY <1>1 DEF Holds, SqlInv, ThreadOK, CallOK, InCall
<1>3. CASE Delete(t)
  <2>1. {at[t].arg} \in SUBSET Ids
    BY <1>2, <1>3 DEF Delete, Executing
  <2> QED BY <1>2, <1>3, <2>1, DeleteRowsStep DEF Delete
<1>4. CASE DeleteByUserId(t)
  <2>1. Owned(at[t].arg) \in SUBSET Ids
    BY DEF Owned, Present
  <2> QED BY <1>2, <1>4, <2>1, DeleteRowsStep DEF DeleteByUserId
<1> QED
  BY <1>3, <1>4

\* A row that is swept is out of every history, whether its DELETE worked or not.
LEMMA SweepOneStep ==
  ASSUME SqlInv, NEW t \in Threads, NEW id \in Ids, SweepOne(t, id)
  PROVE  SqlInv'
<1> DEFINE rest == at[t].expired \ {id}
<1>1. /\ at[t].pc = "sweep" /\ store' = store /\ now' = now /\ deleted' = deleted
      /\ rows' = Without({id}) \/ rows' = rows
  BY DEF SweepOne, Write
<1>2. Holds(t) /\ at[t] \in Thread /\ ThreadOK(t)
  BY <1>1 DEF SqlInv, Holds
<1>3. changes' \in [Connections -> BOOLEAN]
  BY DEF SweepOne, Write, SqlInv, StoreOK
<1>4. RowsOK'
  BY <1>1 DEF SqlInv, RowsOK, Without
<1>5. \A i \in Ids \ {id} : rows[i] # Nil => rows'[i] = rows[i]
  BY <1>1 DEF Without
<1>6. RowsStayDeleted' /\ deleted' \subseteq Ids
  BY <1>1 DEF SqlInv, StoreOK, RowsStayDeleted, Without
<1>7. CASE at' = [Unsteady({id}) EXCEPT ![t].expired = rest] /\ UNCHANGED owner
  <2> DEFINE old == [at[t] EXCEPT !.steady = @ \ {id}]
             r == [old EXCEPT !.expired = rest]
  <2>1. Unsteady({id}) \in [Threads -> Thread] /\ old \in Thread /\ Unsteady({id})[t] = old
    BY <1>2 DEF Unsteady, Thread, SqlInv
  <2>2. /\ r \in Thread /\ r.pc = "sweep" /\ r.fn = at[t].fn /\ r.arg = at[t].arg
        /\ r.clock = at[t].clock /\ r.steady = at[t].steady \ {id} /\ r.live = at[t].live
    BY <1>1, <1>2, <2>1 DEF Thread
  <2>3. at' \in [Threads -> Thread] /\ at'[t] = r
    <3> HIDE DEF old
    <3> QED BY <1>7, <2>1, <2>2
  <2>4. \A u \in Threads \ {t} : at'[u] = [at[u] EXCEPT !.steady = @ \ {id}]
    BY <1>7 DEF Unsteady
  <2> HIDE DEF r
  <2>5. Disturbs(t, {id})
    BY <1>1, <1>5, <2>4 DEF Disturbs
  <2>6. StoreOK' /\ OwnersKept(t)
    BY <1>1, <1>3, <1>7 DEF SqlInv, StoreOK, OwnersKept, Conn
  <2>7. CallOK(t)' /\ ReturnOK(t)'
    BY <1>1, <1>2, <2>2, <2>3 DEF ThreadOK, CallOK, ReturnOK, InCall, Sqlite
  <2>8. MutexOK(t)'
    BY <1>1, <1>2, <1>7, <2>2, <2>3 DEF ThreadOK, MutexOK, Holds, Sqlite, Conn
  <2>9. ListingOK(t)'
    <3>1. ASSUME at[t].fn = "get_by_user_id"
          PROVE  at'[t].steady \subseteq (Owned(at[t].arg) \ ExpiredBy(at[t].clock))'
                 /\ at'[t].steady \subseteq at'[t].live
      <4>1. at[t].steady \subseteq Owned(at[t].arg) \ ExpiredBy(at[t].clock)
            /\ at[t].steady \subseteq at[t].live
        BY <1>1, <1>2, <3>1 DEF ThreadOK, ListingOK, InCall
      <4> QED BY <1>5, <2>2, <2>3, <4>1 DEF Owned, ExpiredBy, Present, Stored
    <3> QED BY <2>2, <2>3, <3>1 DEF ListingOK
  <2> QED BY <1>4, <1>6, <2>3, <2>5, <2>6, <2>7, <2>8, <2>9, ThreadStep DEF ThreadOK
<1>8. CASE Result(t, IF at[t].fn = "get_by_user_id" THEN 0 ELSE -1,
                  at[t].fn = "get_by_user_id", at[t].live, {id})
  <2>1. PICK rc \in {0, -1}, hit \in BOOLEAN : Result(t, rc, hit, at[t].live, {id})
    <3>1. /\ (IF at[t].fn = "get_by_user_id" THEN 0 ELSE -1) \in {0, -1}
          /\ (at[t].fn = "get_by_user_id") \in BOOLEAN
      OBVIOUS
    <3> QED BY <1>8, <3>1, Zenon
  <2>2. at[t].fn = "get_by_user_id" => at[t].steady \subseteq at[t].live
    BY <1>1, <1>2 DEF ThreadOK, ListingOK, InCall
  <2> QED BY <1>1, <1>2, <1>3, <1>4, <1>5, <1>6, <2>1, <2>2, ResultStep
<1> QED
  BY <1>7, <1>8, Zenon DEF SweepOne

\* A process that ends leaves the rows and the calls of the others alone.
LEMMA RestartStep ==
  ASSUME SqlInv, NEW c \in Connections, Restart(c)
  PROVE  SqlInv'
<1>1. /\ at' = [t \in Threads |-> IF Conn(t) = c THEN Idle ELSE at[t]]
      /\ owner' = [owner EXCEPT ![c] = Nil]
      /\ UNCHANGED <<store, rows, now, deleted>>
  BY DEF Restart
<1>2. Idle \in Thread /\ Idle.pc = "idle" /\ Idle.clock = 0
  BY DEF Idle, Thread, Pcs
<1>3. StoreOK'
  BY <1>1 DEF Restart, SqlInv, StoreOK
<1>4. RowsOK' /\ RowsStayDeleted' /\ at' \in [Threads -> Thread]
  BY <1>1, <1>2 DEF SqlInv, RowsOK, RowsStayDeleted
<1>5. ASSUME NEW t \in Threads PROVE ThreadOK(t)'
  <2>1. ThreadOK(t) /\ Conn(t) \in Connections /\ t # Nil /\ now \in Nat
    BY ConnType, SqlAssumption DEF SqlInv, StoreOK
  <2>2. CASE Conn(t) = c
    <3>1. at'[t] = Idle /\ owner'[Conn(t)] = Nil
      BY <1>1, <2>1, <2>2 DEF SqlInv, StoreOK
    <3> QED BY <1>1, <1>2, <2>1, <3>1 DEF ThreadOK, CallOK, ReturnOK, ListingOK, MutexOK,
         InCall, Holds, Conn
  <2>3. CASE Conn(t) # c
    <3>1. at'[t] = at[t] /\ owner'[Conn(t)] = owner[Conn(t)]
      BY <1>1, <2>1, <2>3 DEF SqlInv, StoreOK
    <3> QED BY <1>1, <2>1, <3>1 DEF ThreadOK, CallOK, ReturnOK, ListingOK, MutexOK,
         InCall, Holds, Conn, Sqlite, Owned, ExpiredBy, Present, Stored
  <2> QED BY <2>2, <2>3
<1> QED
  BY <1>3, <1>4, <1>5 DEF SqlInv

\* Time passes.
LEMMA TickStep ==
  ASSUME SqlInv, Tick
  PROVE  SqlInv'
<1>1. UNCHANGED <<store, rows, at, changes, owner, deleted>> /\ now' = now + 1 /\ now < MaxTime
  BY DEF Tick
<1>2. StoreOK' /\ RowsOK' /\ RowsStayDeleted' /\ at' \in [Threads -> Thread]
  BY <1>1, SqlAssumption DEF SqlInv, StoreOK, RowsOK, RowsStayDeleted
<1>3. ASSUME NEW t \in Threads PROVE ThreadOK(t)'
  <2>1. ThreadOK(t) /\ at[t].clock \in Nat /\ now \in Nat
    BY DEF SqlInv, StoreOK, Thread
  <2> QED BY <1>1, <2>1 DEF ThreadOK, CallOK, ReturnOK, ListingOK, MutexOK,
         InCall, Holds, Conn, Sqlite, Owned, ExpiredBy, Present, Stored
<1> QED
  BY <1>2, <1>3 DEF SqlInv

\* Every step keeps the invariant.
LEMMA SqlInvStep ==
  ASSUME SqlInv, [Next]_vars
  PROVE  SqlInv'
<1>1. ASSUME NEW t \in Threads, Statement(t) PROVE SqlInv'
  BY <1>1, StatementFailsStep, InsertStep, UpdateRowStep, ReadChangesStep, DeleteStep,
     SelectByIdStep, SelectByUserIdStep, OpenByUserIdStep, StepRowStep, StepDoneStep,
     SweepOneStep, ReturnStep DEF Statement
<1>2. CASE Next
  BY <1>1, <1>2, CallStep, LockStep, RestartStep, TickStep DEF Next
<1>3. CASE UNCHANGED vars
  BY <1>3 DEF vars, SqlInv, StoreOK, RowsOK, RowsStayDeleted, ThreadOK, CallOK, ReturnOK,
     ListingOK, MutexOK, InCall, Holds, Conn, Sqlite, Owned, ExpiredBy, Present, Stored
<1> QED
  BY <1>2, <1>3

\* An empty table and idle threads.
LEMMA SqlInvInit == Init => SqlInv
<1> SUFFICES ASSUME Init PROVE SqlInv
  OBVIOUS
<1>1. Idle \in Thread /\ Idle.pc = "idle" /\ Idle.clock = 0
  BY DEF Idle, Thread, Pcs
<1>2. StoreOK /\ RowsOK /\ RowsStayDeleted /\ at \in [Threads -> Thread]
  BY <1>1, SqlAssumption DEF Init, StoreOK, RowsOK, RowsStayDeleted
<1>3. ASSUME NEW t \in Threads PROVE ThreadOK(t)
  <2>1. at[t] = Idle /\ owner[Conn(t)] = Nil /\ t # Nil /\ now = 0
    BY <1>2, ConnType, SqlAssumption DEF Init
  <2> QED BY <1>1, <2>1 DEF ThreadOK, CallOK, ReturnOK, ListingOK, MutexOK, InCall, Holds
<1> QED
  BY <1>2, <1>3 DEF SqlInv

\* The inductive invariant of the SQL backends.
THEOREM SqlInvariant == Spec => []SqlInv
BY SqlInvInit, SqlInvStep, PTL DEF Spec

\* Rows read back as the sessions that callers passed in, every variable has its
\* type, and odbc.c's mutex is held exactly while statements run.
THEOREM SqlTypeCorrect == Spec => []SqlTypeOK
<1>1. SqlInv => SqlTypeOK
  <2> SUFFICES ASSUME SqlInv PROVE SqlTypeOK
    OBVIOUS
  <2>1. \A id \in Present : Stored(id) \in Inputs /\ Stored(id).id = id
    BY RowReads DEF SqlInv, Present
  <2>2. ASSUME NEW t \in Threads
        PROVE  /\ at[t].pc \in {"idle", "lock", "exec", "rows", "sweep", "changes", "return"}
               /\ at[t].fn \in Functions \cup {"none"}
               /\ at[t].live \cup at[t].expired \cup at[t].left \subseteq Ids
               /\ (owner[Conn(t)] = t) <=> (~Sqlite /\ at[t].pc \notin {"idle", "lock"})
    BY DEF SqlInv, Thread, Pcs, ThreadOK, MutexOK, Holds
  <2> QED BY <2>1, <2>2 DEF SqlInv, StoreOK, SqlTypeOK
<1> QED
  BY <1>1, SqlInvariant, PTL

\* No update in flight brings a deleted session back.
THEOREM DeletedRowsStayAway == Spec => []RowsStayDeleted
<1>1. SqlInv => RowsStayDeleted
  BY DEF SqlInv
<1> QED
  BY <1>1, SqlInvariant, PTL

\* A listing misses no session that was the user's and live all along, although
\* sqlite.c's loop runs between the statements of others.
THEOREM ListingsAreComplete == Spec => []ListingComplete
<1>1. SqlInv => ListingComplete
  BY DEF SqlInv, ThreadOK, ReturnOK, ListingComplete
<1> QED
  BY <1>1, SqlInvariant, PTL

-----------------------------------------------------------------------------
\* The thread part of a statement: it holds the mutex if there is one, keeps to
\* its own connection, and leaves the others where they are.
LEMMA StatementIsLocal ==
  ASSUME SqlInv, NEW t \in Threads, Statement(t)
  PROVE  /\ Holds(t)
         /\ store' = store /\ now' = now
         /\ \A u \in Threads \ {t} :
              /\ at'[u].pc = at[u].pc /\ at'[u].fn = at[u].fn /\ at'[u].rc = at[u].rc
              /\ at'[u].hit = at[u].hit /\ at'[u].expired = at[u].expired
         /\ \A c \in Connections \ {Conn(t)} : changes'[c] = changes[c]
<1>1. Holds(t) /\ store' = store /\ now' = now
  BY DEF Statement, StatementFails, Insert, UpdateRow, ReadChanges, Delete, DeleteByUserId,
     DeleteRows, SelectById, SelectByUserId, OpenByUserId, StepRow, StepDone, SweepOne,
     Return, Executing, Holds
<1>2. \A c \in Connections \ {Conn(t)} : changes'[c] = changes[c]
  BY DEF Statement, StatementFails, Insert, UpdateRow, ReadChanges, Delete, DeleteByUserId,
     DeleteRows, SelectById, SelectByUserId, OpenByUserId, StepRow, StepDone, SweepOne,
     Return, Write, SqlInv, StoreOK
<1>3. ASSUME NEW u \in Threads \ {t}
      PROVE  /\ at'[u].pc = at[u].pc /\ at'[u].fn = at[u].fn /\ at'[u].rc = at[u].rc
             /\ at'[u].hit = at[u].hit /\ at'[u].expired = at[u].expired
  <2>1. at[u] \in Thread
    BY DEF SqlInv
  <2>2. ASSUME NEW gone, at'[u] = [at[u] EXCEPT !.steady = @ \ gone]
        PROVE  /\ at'[u].pc = at[u].pc /\ at'[u].fn = at[u].fn /\ at'[u].rc = at[u].rc
               /\ at'[u].hit = at[u].hit /\ at'[u].expired = at[u].expired
    BY <2>1, <2>2 DEF Thread
  <2>3. ASSUME NEW rc, NEW hit, NEW listed, NEW gone, Result(t, rc, hit, listed, gone)
        PROVE  at'[u] = [at[u] EXCEPT !.steady = @ \ gone]
    BY <2>3 DEF Result, Unsteady
  <2>4. ASSUME NEW live, NEW expired, Sweep(t, live, expired) PROVE at'[u] = at[u]
    BY <2>4 DEF Sweep, SqlInv
  <2>5. CASE StatementFails(t) \/ Insert(t) \/ ReadChanges(t) \/ Delete(t) \/ DeleteByUserId(t)
    <3>1. PICK rc, hit, listed, gone : Result(t, rc, hit, listed, gone)
      BY <2>5, Zenon DEF StatementFails, Insert, ReadChanges, Delete, DeleteByUserId, DeleteRows
    <3> QED BY <3>1, <2>2, <2>3
  <2>6. CASE UpdateRow(t)
    <3>1. CASE \E rc, hit, listed, gone : Result(t, rc, hit, listed, gone)
      BY <3>1, <2>2, <2>3
    <3>2. CASE \E gone, hit : at' = [Unsteady(gone) EXCEPT ![t].pc = "changes", ![t].hit = hit]
      BY <3>2, <2>2 DEF Unsteady
    <3> QED BY <2>6, <3>1, <3>2, Zenon DEF UpdateRow
  <2>7. CASE SelectById(t) \/ SelectByUserId(t) \/ StepDone(t)
    <3>1. CASE \E rc, hit, listed, gone : Result(t, rc, hit, listed, gone)
      BY <3>1, <2>2, <2>3
    <3>2. CASE \E live, expired : Sweep(t, live, expired)
      BY <3>2, <2>4
    <3> QED BY <2>7, <3>1, <3>2, Zenon DEF SelectById, SelectByUserId, StepDone, Listed
  <2>8. CASE OpenByUserId(t) \/ StepRow(t) \/ Return(t)
    BY <2>8 DEF OpenByUserId, StepRow, Return, SqlInv
  <2>9. CASE \E id \in Ids : SweepOne(t, id)
    <3>1. CASE \E rc, hit, listed, gone : Result(t, rc, hit, listed, gone)
      BY <3>1, <2>2, <2>3
    <3>2. CASE \E gone, rest : at' = [Unsteady(gone) EXCEPT ![t].expired = rest]
      BY <3>2, <2>2 DEF Unsteady
    <3> QED BY <2>9, <3>1, <3>2, Zenon DEF SweepOne
  <2> QED BY <2>5, <2>6, <2>7, <2>8, <2>9 DEF Statement
<1> QED
  BY <1>1, <1>2, <1>3

\* The calls of a thread that begins one or takes the mutex.
LEMMA EntryIsLocal ==
  ASSUME SqlInv, NEW t \in Threads, Call(t) \/ Lock(t)
  PROVE  /\ UNCHANGED <<store, rows, now, changes>>
         /\ at'[t].pc \in {"lock", "exec"}
         /\ \A u \in Threads \ {t} : at'[u] = at[u]
<1>1. CASE Call(t)
  <2>1. PICK fn, arg, clock, watched : Begin(t, fn, arg, clock, watched)
    BY <1>1, Zenon DEF Call
  <2> QED BY <2>1 DEF Begin, Idle, SqlInv
<1>2. CASE Lock(t)
  BY <1>2 DEF Lock, SqlInv, Thread
<1> QED
  BY <1>1, <1>2

\* The end of a call, in the fields an update and a sweep are judged by.
LEMMA ResultIs ==
  ASSUME SqlInv, NEW t \in Threads, NEW rc \in {0, -1}, NEW hit \in BOOLEAN, NEW listed,
         NEW gone, Result(t, rc, hit, listed, gone)
  PROVE  at'[t].pc = "return" /\ at'[t].fn = at[t].fn /\ at'[t].rc = rc /\ at'[t].hit = hit
BY ResultShape DEF SqlInv

\* What a statement leaves of an update of the thread that runs it.
LEMMA UpdateOfThread ==
  ASSUME SqlInv, ChangesKept, NEW t \in Threads, Statement(t)
  PROVE  /\ at'[t].pc = "changes" => changes'[Conn(t)] = at'[t].hit
         /\ at'[t].pc = "return" /\ at'[t].fn = "update" /\ at'[t].rc = 0 => at'[t].hit
<1> DEFINE Goal == /\ at'[t].pc = "changes" => changes'[Conn(t)] = at'[t].hit
                   /\ at'[t].pc = "return" /\ at'[t].fn = "update" /\ at'[t].rc = 0 => at'[t].hit
<1> SUFFICES Goal
  OBVIOUS
<1>t. at[t] \in Thread /\ ThreadOK(t) /\ Conn(t) \in Connections
  BY ConnType DEF SqlInv
<1>b. 0 \in {0, -1} /\ -1 \in {0, -1} /\ TRUE \in BOOLEAN /\ FALSE \in BOOLEAN /\ 0 # -1
  OBVIOUS
<1>r. ASSUME NEW rc \in {0, -1}, NEW hit \in BOOLEAN, NEW listed, NEW gone,
             Result(t, rc, hit, listed, gone), at[t].fn # "update" \/ rc = -1 \/ hit
      PROVE  Goal
  BY <1>r, ResultIs
<1>s. ASSUME NEW live, NEW expired, Sweep(t, live, expired) PROVE Goal
  <2>1. at'[t].pc = "sweep"
    BY <1>s, <1>t DEF Sweep, SqlInv, Thread
  <2> QED BY <2>1
<1> HIDE DEF Goal
<1>1. CASE StatementFails(t)
  <2>1. Result(t, -1, FALSE, {}, {})
    BY <1>1, Zenon DEF StatementFails
  <2> QED BY <2>1, <1>r, <1>b, Zenon
<1>2. CASE Insert(t)
  <2>1. Result(t, 0, TRUE, {}, {}) \/ Result(t, -1, FALSE, {}, {})
    BY <1>2, Zenon DEF Insert
  <2> QED BY <2>1, <1>r, <1>b, Zenon
<1>3. CASE UpdateRow(t)
  <2> DEFINE s == at[t].arg
             hit == rows[s.id] # Nil
             stale == IF IsExpired(s, now) \/ s.id \notin Owned(s.user_id) THEN {s.id} ELSE {}
  <2>1. hit \in BOOLEAN /\ (IF hit THEN 0 ELSE -1) \in {0, -1}
        /\ ((IF hit THEN 0 ELSE -1) = -1 \/ hit)
    OBVIOUS
  <2>2. CASE Result(t, IF hit THEN 0 ELSE -1, hit, {}, stale) \/ Result(t, -1, hit, {}, stale)
    <3> HIDE DEF stale, hit
    <3> QED BY <2>1, <2>2, <1>r, <1>b, Zenon
  <2>3. CASE /\ Sqlite
             /\ at' = [Unsteady(stale) EXCEPT ![t].pc = "changes", ![t].hit = hit]
    <3> HIDE DEF stale
    <3>1. changes'[Conn(t)] = hit
      BY <1>3, <1>t, <2>3 DEF UpdateRow, Write, SqlInv, StoreOK
    <3> HIDE DEF hit
    <3>2. at'[t].pc = "changes" /\ at'[t].hit = hit
      BY <1>t, <2>1, <2>3 DEF Unsteady, Thread, SqlInv
    <3> QED BY <3>1, <3>2 DEF Goal
  <2> QED BY <1>3, <2>2, <2>3, Zenon DEF UpdateRow
<1>4. CASE ReadChanges(t)
  <2>1. changes[Conn(t)] \in BOOLEAN /\ at[t].hit \in BOOLEAN /\ changes[Conn(t)] = at[t].hit
    BY <1>4, <1>t DEF ReadChanges, ChangesKept, SqlInv, StoreOK, Thread
  <2>2. Result(t, IF changes[Conn(t)] THEN 0 ELSE -1, at[t].hit, {}, {})
    BY <1>4, Zenon DEF ReadChanges, Touched
  <2>3. (IF changes[Conn(t)] THEN 0 ELSE -1) \in {0, -1}
        /\ ((IF changes[Conn(t)] THEN 0 ELSE -1) = -1 \/ at[t].hit)
    BY <2>1
  <2> QED BY <2>1, <2>2, <2>3, <1>r, Zenon
<1>5. CASE Delete(t) \/ DeleteByUserId(t)
  <2>1. at[t].fn # "update"
    BY <1>5 DEF Delete, DeleteByUserId, Executing
  <2>2. \E rc \in {0, -1}, hit \in BOOLEAN : \E gone : Result(t, rc, hit, {}, gone)
    <3>1. PICK gone : DeleteRows(t, gone)
      BY <1>5, Zenon DEF Delete, DeleteByUserId
    <3>2. (gone \cap Present # {}) \in BOOLEAN
      OBVIOUS
    <3> QED BY <1>b, <3>1, <3>2, Zenon DEF DeleteRows
  <2> QED BY <2>1, <2>2, <1>r, Zenon
<1>6. CASE SelectById(t) \/ SelectByUserId(t) \/ StepDone(t)
  <2>1. at[t].fn # "update"
    BY <1>6, <1>t DEF SelectById, SelectByUserId, StepDone, Executing, ThreadOK, CallOK
  <2>2. CASE \E rc \in {0, -1}, hit \in BOOLEAN : \E listed : Result(t, rc, hit, listed, {})
    BY <2>1, <2>2, <1>r, Zenon
  <2>3. CASE \E live, expired : Sweep(t, live, expired)
    BY <2>3, <1>s, Zenon
  <2> QED BY <1>6, <1>b, <2>2, <2>3, Zenon DEF SelectById, SelectByUserId, StepDone, Listed
<1>7. CASE OpenByUserId(t) \/ StepRow(t) \/ Return(t)
  <2>1. CASE OpenByUserId(t)
    BY <1>t, <2>1 DEF OpenByUserId, SqlInv, Thread, Goal
  <2>2. CASE StepRow(t)
    BY <1>t, <2>2 DEF StepRow, SqlInv, Thread, Goal
  <2>3. CASE Return(t)
    BY <1>t, <2>3 DEF Return, SqlInv, Idle, Goal
  <2> QED BY <1>7, <2>1, <2>2, <2>3
<1>8. CASE \E id \in Ids : SweepOne(t, id)
  <2>1. at[t].pc = "sweep" /\ at[t].fn # "update"
    BY <1>8, <1>t DEF SweepOne, ThreadOK, CallOK
  <2>2. CASE \E rc \in {0, -1}, hit \in BOOLEAN : \E listed, gone : Result(t, rc, hit, listed, gone)
    BY <2>1, <2>2, <1>r, Zenon
  <2>3. CASE \E gone, rest : at' = [Unsteady(gone) EXCEPT ![t].expired = rest]
    <3>1. at'[t].pc = "sweep"
      BY <1>t, <2>1, <2>3 DEF Unsteady, Thread
    <3> QED BY <3>1 DEF Goal
  <2>4. /\ (IF at[t].fn = "get_by_user_id" THEN 0 ELSE -1) \in {0, -1}
        /\ (at[t].fn = "get_by_user_id") \in BOOLEAN
    OBVIOUS
  <2> QED BY <1>8, <2>2, <2>3, <2>4, Zenon DEF SweepOne
<1> QED
  BY <1>1, <1>2, <1>3, <1>4, <1>5, <1>6, <1>7, <1>8 DEF Statement

\* The deployment never changes.
LEMMA DeploymentFixed ==
  ASSUME SqlInv, [Next]_vars
  PROVE  store' = store
<1>1. ASSUME NEW t \in Threads, Statement(t) PROVE store' = store
  BY <1>1, StatementIsLocal
<1>2. ASSUME NEW t \in Threads, Call(t) \/ Lock(t) PROVE store' = store
  BY <1>2, EntryIsLocal
<1> QED
  BY <1>1, <1>2 DEF Next, Restart, Tick, vars

\* With a connection of its own, an update is told about its own statement.
LEMMA UpdateInvStep ==
  ASSUME SqlInv, UpdateInv, [Next]_vars
  PROVE  UpdateInv'
<1>0. store' = store
  BY DeploymentFixed
<1> SUFFICES ASSUME Unshared PROVE ChangesKept' /\ UpdateIsTruthful'
  BY <1>0 DEF UpdateInv, Unshared, Sqlite, Conn
<1>t. ChangesKept /\ UpdateIsTruthful
  BY DEF UpdateInv
<1>1. ASSUME NEW t \in Threads, Statement(t) PROVE ChangesKept' /\ UpdateIsTruthful'
  <2>1. /\ at'[t].pc = "changes" => changes'[Conn(t)] = at'[t].hit
        /\ at'[t].pc = "return" /\ at'[t].fn = "update" /\ at'[t].rc = 0 => at'[t].hit
    BY <1>1, <1>t, UpdateOfThread
  <2>2. \A u \in Threads \ {t} :
          /\ at'[u].pc = at[u].pc /\ at'[u].fn = at[u].fn /\ at'[u].rc = at[u].rc
          /\ at'[u].hit = at[u].hit
    BY <1>1, StatementIsLocal
  <2>3. ASSUME NEW u \in Threads \ {t}, at'[u].pc = "changes"
        PROVE  changes'[Conn(u)] = at'[u].hit
    <3>1. at[u].pc = "changes" /\ Sqlite /\ Conn(u) \in Connections
      BY <2>2, <2>3, ConnType DEF SqlInv, ThreadOK, CallOK
    <3>2. Conn(u) # Conn(t)
      BY <3>1 DEF Unshared
    <3>3. changes'[Conn(u)] = changes[Conn(u)]
      BY <1>1, <3>1, <3>2, StatementIsLocal
    <3>4. changes[Conn(u)] = at[u].hit
      BY <1>t, <3>1 DEF ChangesKept
    <3> QED BY <2>2, <3>3, <3>4
  <2>4. \A u \in Threads : Conn(u)' = Conn(u)
    BY <1>0 DEF Conn
  <2>5. ChangesKept'
    BY <2>1, <2>3, <2>4 DEF ChangesKept
  <2>6. UpdateIsTruthful'
    BY <1>t, <2>1, <2>2 DEF UpdateIsTruthful
  <2> QED BY <2>5, <2>6
<1>2. ASSUME NEW t \in Threads, Call(t) \/ Lock(t) PROVE ChangesKept' /\ UpdateIsTruthful'
  <2>1. /\ UNCHANGED <<store, changes>> /\ at'[t].pc \in {"lock", "exec"}
        /\ \A u \in Threads \ {t} : at'[u] = at[u]
    BY <1>2, EntryIsLocal
  <2> QED BY <1>t, <2>1 DEF ChangesKept, UpdateIsTruthful, Conn
<1>3. ASSUME NEW c \in Connections, Restart(c) PROVE ChangesKept' /\ UpdateIsTruthful'
  <2>1. \A t \in Threads :
          /\ Conn(t)' = Conn(t)
          /\ Conn(t) = c => at'[t].pc = "idle"
          /\ Conn(t) # c => at'[t] = at[t] /\ changes'[Conn(t)] = changes[Conn(t)]
    BY <1>3, ConnType DEF Restart, Idle, SqlInv, StoreOK, Conn
  <2> QED BY <1>t, <2>1 DEF ChangesKept, UpdateIsTruthful
<1>4. CASE Tick \/ UNCHANGED vars
  BY <1>4, <1>t DEF Tick, vars, ChangesKept, UpdateIsTruthful, Conn
<1> QED
  BY <1>1, <1>2, <1>3, <1>4 DEF Next

\* With a connection per thread, an update that reports success replaced a row;
\* the other case is the run that shares a connection.
THEOREM UpdatesAreTruthful == Spec => []UnsharedUpdateIsTruthful
<1>1. Init => UpdateInv
  <2>1. Init => \A t \in Threads : at[t].pc = "idle"
    BY DEF Init, Idle
  <2> QED BY <2>1 DEF UpdateInv, ChangesKept, UpdateIsTruthful
<1>2. UpdateInv => UnsharedUpdateIsTruthful
  BY DEF UpdateInv, UnsharedUpdateIsTruthful
<1>3. SqlInv /\ UpdateInv /\ [Next]_vars => UpdateInv'
  BY UpdateInvStep
<1> QED
  BY <1>1, <1>2, <1>3, SqlInvariant, PTL DEF Spec

-----------------------------------------------------------------------------
\* While calls do not overlap, only one thread runs statements.
LEMMA OneRuns ==
  ASSUME SqlInv, Exclusive, NEW t \in Threads, NEW u \in Threads, Holds(t), Holds(u)
  PROVE  t = u
<1>1. MutexOK(t) /\ MutexOK(u)
  BY DEF SqlInv, ThreadOK
<1> QED
  BY <1>1 DEF MutexOK, Exclusive

\* Time only adds to what has expired.
LEMMA ExpiredGrows ==
  ASSUME RowsOK, NEW c \in Nat, NEW n \in Nat, c <= n
  PROVE  ExpiredBy(c) \subseteq ExpiredBy(n)
BY RowReads, NotExpiredBefore DEF ExpiredBy, Present

\* What a sweep begins with has expired.
LEMMA SweepOfThread ==
  ASSUME SqlInv, SweepOK, Exclusive, NEW t \in Threads, Statement(t), at'[t].pc = "sweep"
  PROVE  at'[t].expired \cap Present' \subseteq ExpiredBy(now)'
<1>t. at[t] \in Thread /\ ThreadOK(t) /\ RowsOK /\ now \in Nat /\ at[t].clock \in Nat
      /\ at[t].clock <= now
  BY DEF SqlInv, StoreOK, ThreadOK, CallOK, Thread
<1>r. ASSUME NEW rc, NEW hit, NEW listed, NEW gone, Result(t, rc, hit, listed, gone)
      PROVE  FALSE
  <2>1. at'[t] = [Idle EXCEPT !.pc = "return", !.fn = at[t].fn, !.rc = rc, !.hit = hit,
                    !.missed = (at[t].steady \ ExpiredBy(now)) \ listed]
    BY <1>r, Zenon DEF Result, Unsteady
  <2>2. at'[t].pc = "return"
    BY <2>1 DEF Idle
  <2> QED BY <2>2
<1>s. ASSUME NEW live, NEW expired, Sweep(t, live, expired),
             expired \subseteq ExpiredBy(now), UNCHANGED <<rows, now>>
      PROVE  at'[t].expired \cap Present' \subseteq ExpiredBy(now)'
  <2>1. at'[t].expired = expired
    BY <1>s, <1>t DEF Sweep, SqlInv, Thread
  <2> QED BY <1>s, <2>1 DEF ExpiredBy, Present, Stored
<1>1. CASE StatementFails(t) \/ Insert(t) \/ ReadChanges(t) \/ Delete(t) \/ DeleteByUserId(t)
  <2>1. PICK rc, hit, listed, gone : Result(t, rc, hit, listed, gone)
    BY <1>1, Zenon DEF StatementFails, Insert, ReadChanges, Delete, DeleteByUserId, DeleteRows
  <2> QED BY <2>1, <1>r
<1>2. CASE UpdateRow(t)
  <2>1. PICK rc, hit, listed, gone : Result(t, rc, hit, listed, gone)
    BY <1>2, Zenon DEF UpdateRow, Exclusive
  <2> QED BY <2>1, <1>r
<1>3. CASE SelectById(t)
  <2>1. /\ UNCHANGED <<rows, now>>
        /\ \/ \E rc, hit : Result(t, rc, hit, {}, {})
           \/ at[t].arg \in ExpiredBy(now) /\ Sweep(t, {}, {at[t].arg})
    BY <1>3, Zenon DEF SelectById
  <2> QED BY <2>1, <1>r, <1>s
<1>4. CASE SelectByUserId(t)
  <2>1. /\ UNCHANGED <<rows, now>>
        /\ \/ \E listed : Result(t, 0, TRUE, listed, {})
           \/ \E live : Sweep(t, live, Owned(at[t].arg) \cap ExpiredBy(at[t].clock))
    BY <1>4, Zenon DEF SelectByUserId, Listed
  <2>2. ExpiredBy(at[t].clock) \subseteq ExpiredBy(now)
    BY <1>t, ExpiredGrows
  <2> QED BY <2>1, <2>2, <1>r, <1>s
<1>5. CASE OpenByUserId(t) \/ StepRow(t) \/ StepDone(t)
  BY <1>5, <1>t DEF OpenByUserId, StepRow, StepDone, Exclusive, ThreadOK, CallOK
<1>6. CASE Return(t)
  BY <1>6 DEF Return, SqlInv, Idle
<1>7. ASSUME NEW id \in Ids, SweepOne(t, id)
      PROVE  at'[t].expired \cap Present' \subseteq ExpiredBy(now)'
  <2>1. CASE at' = [Unsteady({id}) EXCEPT ![t].expired = at[t].expired \ {id}]
    <3>1. at'[t].expired = at[t].expired \ {id}
      BY <1>t, <2>1 DEF Unsteady, Thread
    <3>2. at[t].pc = "sweep" /\ now' = now /\ (rows' = Without({id}) \/ rows' = rows)
      BY <1>7 DEF SweepOne, Write
    <3>3. at[t].expired \cap Present \subseteq ExpiredBy(now)
      BY <3>2 DEF SweepOK
    <3> QED BY <3>1, <3>2, <3>3 DEF ExpiredBy, Present, Stored, Without
  <2>2. CASE \E rc, hit, listed, gone : Result(t, rc, hit, listed, gone)
    BY <2>2, <1>r
  <2> QED BY <1>7, <2>1, <2>2, Zenon DEF SweepOne
<1> QED
  BY <1>1, <1>2, <1>3, <1>4, <1>5, <1>6, <1>7 DEF Statement

\* What a thread is about to sweep stays expired, since nobody else runs.
LEMMA SweepStep ==
  ASSUME SqlInv, SqlInv', SweepOK, [Next]_vars
  PROVE  SweepOK'
<1>0. ASSUME store' = store, Exclusive' PROVE Exclusive
  BY <1>0 DEF Exclusive, Sqlite, Conn
<1>1. ASSUME NEW t \in Threads, Statement(t) PROVE SweepOK'
  <2>1. /\ Holds(t) /\ store' = store
        /\ \A u \in Threads \ {t} : at'[u].pc = at[u].pc
    BY <1>1, StatementIsLocal
  <2> SUFFICES ASSUME Exclusive', NEW u \in Threads, at'[u].pc = "sweep"
               PROVE  at'[u].expired \cap Present' \subseteq ExpiredBy(now)'
    BY DEF SweepOK
  <2>2. Exclusive
    BY <2>1, <1>0
  <2>3. CASE u = t
    BY <1>1, <2>2, <2>3, SweepOfThread
  <2>4. CASE u # t
    <3>1. Holds(u)
      BY <2>1, <2>4 DEF Holds
    <3> QED BY <2>1, <2>2, <2>4, <3>1, OneRuns
  <2> QED BY <2>3, <2>4
<1>2. ASSUME NEW t \in Threads, Call(t) \/ Lock(t) PROVE SweepOK'
  <2>1. /\ UNCHANGED <<store, rows, now>> /\ at'[t].pc \in {"lock", "exec"}
        /\ \A u \in Threads \ {t} : at'[u] = at[u]
    BY <1>2, EntryIsLocal
  <2> QED BY <2>1, <1>0 DEF SweepOK, Present, ExpiredBy, Stored
<1>3. ASSUME NEW c \in Connections, Restart(c) PROVE SweepOK'
  <2>1. /\ UNCHANGED <<store, rows, now>>
        /\ \A t \in Threads : at'[t].pc = "idle" \/ at'[t] = at[t]
    BY <1>3 DEF Restart, Idle
  <2> QED BY <2>1, <1>0 DEF SweepOK, Present, ExpiredBy, Stored
<1>4. CASE Tick
  <2>1. UNCHANGED <<store, rows, at>> /\ now \in Nat /\ now' \in Nat /\ now <= now' /\ RowsOK
    BY <1>4 DEF Tick, SqlInv, StoreOK
  <2>2. ExpiredBy(now) \subseteq ExpiredBy(now)'
    <3>1. ExpiredBy(now) \subseteq ExpiredBy(now')
      BY <2>1, ExpiredGrows
    <3> QED BY <2>1, <3>1 DEF ExpiredBy, Present, Stored
  <2> QED BY <2>1, <2>2, <1>0 DEF SweepOK, Present
<1>5. CASE UNCHANGED vars
  BY <1>5, <1>0 DEF vars, SweepOK, Present, ExpiredBy, Stored
<1> QED
  BY <1>1, <1>2, <1>3, <1>4, <1>5 DEF Next

\* Where calls do not overlap, a session that disappears without a DELETE of the
\* interface has expired: no acknowledged refresh is undone by a reader's sweep.
THEOREM SweepTakesOnlyExpired == Spec => SweptWasExpired
<1> DEFINE Gone == Exclusive => \A id \in Present : rows'[id] = Nil =>
             \/ id \in ExpiredBy(now)
             \/ \E t \in Threads :
                  /\ at[t].pc = "exec" /\ at'[t].pc = "return"
                  /\ at[t].fn \in {"delete", "delete_by_user_id"}
<1>1. ASSUME SqlInv, SweepOK, [Next]_vars PROVE Gone
  <2> SUFFICES ASSUME Exclusive, NEW id \in Present, rows'[id] = Nil
               PROVE  \/ id \in ExpiredBy(now)
                      \/ \E t \in Threads :
                           /\ at[t].pc = "exec" /\ at'[t].pc = "return"
                           /\ at[t].fn \in {"delete", "delete_by_user_id"}
    OBVIOUS
  <2>0. id \in Ids /\ rows[id] # Nil
    BY DEF Present
  <2>1. CASE rows' = rows
    BY <2>0, <2>1
  <2>2. ASSUME NEW t \in Threads, Insert(t) PROVE FALSE
    <3>1. at[t].arg \in Session /\ Columns(at[t].arg) # Nil
      BY <1>1, <2>2, SqlAssumption, ColumnsReadBack
         DEF Insert, Executing, SqlInv, ThreadOK, CallOK, InCall
    <3> QED BY <1>1, <2>0, <2>2, <3>1 DEF Insert, Write, SqlInv, RowsOK
  <2>3. ASSUME NEW t \in Threads, UpdateRow(t) PROVE FALSE
    <3>1. at[t].arg \in Inputs /\ at[t].arg \in Session
      BY <1>1, <2>3, SqlAssumption DEF UpdateRow, Executing, SqlInv, ThreadOK, CallOK, InCall
    <3>2. rows[at[t].arg.id] # Nil => Assigned(at[t].arg) # Nil
      BY <1>1, <3>1, AssignedIsColumns, ColumnsReadBack DEF SqlInv
    <3> QED BY <1>1, <2>0, <2>3, <3>2 DEF UpdateRow, Write, SqlInv, RowsOK
  <2>4. ASSUME NEW t \in Threads, Delete(t) \/ DeleteByUserId(t)
        PROVE  /\ at[t].pc = "exec" /\ at'[t].pc = "return"
               /\ at[t].fn \in {"delete", "delete_by_user_id"}
    <3>1. at[t].pc = "exec" /\ at[t].fn \in {"delete", "delete_by_user_id"}
      BY <2>4 DEF Delete, DeleteByUserId, Executing
    <3>2. PICK rc, hit, gone : Result(t, rc, hit, {}, gone)
      BY <2>4, Zenon DEF Delete, DeleteByUserId, DeleteRows
    <3>3. at'[t] = [Idle EXCEPT !.pc = "return", !.fn = at[t].fn, !.rc = rc, !.hit = hit,
                      !.missed = (at[t].steady \ ExpiredBy(now)) \ {}]
      BY <3>2, Zenon DEF Result, Unsteady
    <3>4. at'[t].pc = "return"
      BY <3>3 DEF Idle
    <3> QED BY <3>1, <3>4
  <2>5. ASSUME NEW t \in Threads, NEW i \in Ids, SweepOne(t, i) PROVE id \in ExpiredBy(now)
    <3>1. /\ rows' = Without({i}) \/ rows' = rows
          /\ at[t].pc = "sweep" /\ i \in at[t].expired
      BY <2>5 DEF SweepOne, Write
    <3>2. id = i
      BY <2>0, <3>1 DEF Without
    <3> QED BY <1>1, <3>1, <3>2 DEF SweepOK
  <2>6. ASSUME NEW t \in Threads, Call(t) \/ Lock(t) PROVE rows' = rows
    BY <1>1, <2>6, EntryIsLocal
  <2>7. ASSUME NEW t \in Threads,
               StatementFails(t) \/ ReadChanges(t) \/ SelectById(t) \/ SelectByUserId(t)
               \/ OpenByUserId(t) \/ StepRow(t) \/ StepDone(t) \/ Return(t)
        PROVE  rows' = rows
    BY <2>7 DEF StatementFails, ReadChanges, SelectById, SelectByUserId, OpenByUserId,
       StepRow, StepDone, Return
  <2>8. CASE UNCHANGED vars \/ Tick \/ \E c \in Connections : Restart(c)
    BY <2>1, <2>8 DEF vars, Tick, Restart
  <2>9. CASE \E t \in Threads : Call(t) \/ Lock(t) \/ Statement(t)
    BY <2>1, <2>2, <2>3, <2>4, <2>5, <2>6, <2>7, <2>9 DEF Statement
  <2> QED BY <1>1, <2>8, <2>9 DEF Next
<1>2. Init => SweepOK
  BY DEF Init, Idle, SweepOK
<1>3. SqlInv /\ SqlInv' /\ SweepOK /\ [Next]_vars => SweepOK'
  BY SweepStep
<1>4. SqlInv /\ SweepOK /\ [Next]_vars => [Gone]_vars
  BY <1>1
<1> HIDE DEF Gone
<1>5. Spec => [][Gone]_vars
  BY <1>2, <1>3, <1>4, SqlInvariant, PTL DEF Spec
<1> QED
  BY <1>5 DEF Gone, SweptWasExpired
=============================================================================
