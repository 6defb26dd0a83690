----------------------------- MODULE RedisStore -----------------------------
(***************************************************************************)
(* The Redis backend (redis.c), command by command.  Each client is a       *)
(* server process with a connection of its own; the store keeps no lock and *)
(* uses no transaction, so any other client can act between two commands.   *)
(*                                                                         *)
(* A client's call is the list of commands it still has to send: todo.  The *)
(* functions of redis.c call each other (update calls get and create,       *)
(* delete calls get, and get calls delete when it meets an expired value),  *)
(* and a nested call puts its commands in front of those of its caller.     *)
(*                                                                         *)
(* A value is the JSON object of a session.  Its public_key is the JWK      *)
(* itself, an object too: jwt.c lets no other key into a session, and       *)
(* prints it the way it is printed again here.                              *)
(***************************************************************************)
EXTENDS Session, SequencesExt

CONSTANTS
  Clients,
  Inputs,           \* the sessions callers pass in
  Ahead,            \* [Clients -> Nat]: how far a client's clock is ahead
  CommandsMayFail,  \* whether commands fail, connections break, clients crash
  MaxTime,          \* bound on the clock: it goes on ticking, unnumbered
  StackDepth        \* how many commands of nested calls the stack has room for

ASSUME RedisAssumption ==
  /\ Inputs \subseteq Session
  /\ \A s1, s2 \in Inputs : s1.id = s2.id => s1.user_id = s2.user_id
  /\ \A s \in Inputs : s.expires_at \in (0..MaxTime) \cup {Nil}
  /\ Ahead \in [Clients -> Nat]
  /\ CommandsMayFail \in BOOLEAN
  /\ MaxTime \in Nat /\ StackDepth \in Nat

VARIABLES
  value,    \* the string keys prefix:session:id: JSON objects
  ttl,      \* when Redis drops the key, Nil for never
  index,    \* the sets prefix:user:user_id
  now,      \* Redis' clock
  conn,     \* whether a client's connection is usable
  fn,       \* the store function a client is in
  todo,     \* the commands it still has to send
  got,      \* what its last redis_get returned
  found,    \* identifiers of the sessions redis_get_by_user_id collected
  rc,       \* what its last call returned
  scope,    \* history: what its delete has to remove
  deleted,  \* history: removed with success, not created since
  failed    \* history: whether a command failed or a client crashed

redis == <<value, ttl, index>>
locals == <<got, found>>
vars == <<redis, now, conn, fn, todo, locals, rc, scope, deleted, failed>>

Functions == {"create", "get", "update", "delete", "get_by_user_id", "delete_by_user_id"}

Do(cmd, arg) == [cmd |-> cmd, arg |-> arg]

-----------------------------------------------------------------------------
\* The functions as the commands they begin with.
GetSteps(id) == <<Do("GET", id)>>

\* Mutant of CreateSteps: the user's set is forgotten.
CreateStepsUnindexed(s) == <<Do("SET", s)>>

CreateSteps(s) == <<Do("SET", s), Do("SADD", s)>>

\* SET only if the get found something.
UpdateSteps(s) == GetSteps(s.id) \o <<Do("REPLACE", s), Do("SADD", s)>>

\* SREM follows DEL if the get found something.
DeleteSteps(id) == GetSteps(id) \o <<Do("DEL", id)>>

GetByUserIdSteps(u) == <<Do("SMEMBERS", u)>>

DeleteByUserIdSteps(u) == GetByUserIdSteps(u) \o <<Do("DELETE_FOUND", u), Do("DEL_INDEX", u)>>

\* session_to_json leaves NULL fields out; session_from_json fills them in.
session_to_json(s) == [f \in {g \in DOMAIN s : s[g] # Nil} |-> s[f]]

session_from_json(j) ==
  [f \in DOMAIN EmptySession |-> IF f \in DOMAIN j THEN j[f] ELSE EmptySession[f]]

\* NULL is no value of a field that is never NULL, and no JSON object.
ASSUME NilJsonAssumption ==
  /\ Nil \notin Nat /\ Nil \notin {"active", "bound"}
  /\ \A s \in Inputs : session_to_json(s) # Nil

Stored(id) == session_from_json(value[id])

\* is_expired, by the client's clock.
is_expired(c, s) == IsExpired(s, now + Ahead[c])

\* Mutant of DropAt: SET without EX.
DropNever(c, s) == Nil

\* Mutant of DropAt: EX is given the time of expiry instead of what is left.
DropLate(c, s) ==
  IF s.expires_at = Nil THEN Nil
  ELSE now + (IF s.expires_at <= 0 THEN 1 ELSE s.expires_at)

\* The EX argument of SET, at least one second.
DropAt(c, s) ==
  LET left == s.expires_at - (now + Ahead[c])
  IN  IF s.expires_at = Nil THEN Nil
      ELSE now + (IF left <= 0 THEN 1 ELSE left)

-----------------------------------------------------------------------------
Init ==
  /\ value = [id \in Ids |-> Nil]
  /\ ttl = [id \in Ids |-> Nil]
  /\ index = [u \in Users |-> {}]
  /\ now = 0
  /\ conn = [c \in Clients |-> "up"]
  /\ fn = [c \in Clients |-> "none"]
  /\ todo = [c \in Clients |-> <<>>]
  /\ got = [c \in Clients |-> Nil]
  /\ found = [c \in Clients |-> <<>>]
  /\ rc = [c \in Clients |-> 0]
  /\ scope = [c \in Clients |-> {}]
  /\ deleted = {}
  /\ failed = FALSE

Idle(c) == todo[c] = <<>>

\* Sessions being created now: a delete may come before or after them.
Creating == {id \in Ids : \E c \in Clients :
               fn[c] = "create" /\ \E i \in DOMAIN todo[c] :
                 todo[c][i].cmd \in {"SET", "SADD"} /\ todo[c][i].arg.id = id}

\* A call begins; its delete will be about the sessions in gone, and new ones
\* in fresh are nobody's to delete from here on.
Begin(c, f, steps, gone, fresh) ==
  /\ Idle(c)
  /\ fn' = [fn EXCEPT ![c] = f]
  /\ todo' = [todo EXCEPT ![c] = steps]
  /\ scope' = [d \in Clients |-> IF d = c THEN gone \ Creating ELSE scope[d] \ fresh]
  /\ deleted' = deleted \ fresh
  /\ UNCHANGED <<redis, now, conn, locals, rc, failed>>

Call(c) ==
  \/ \E s \in Inputs : Begin(c, "create", CreateSteps(s), {}, {s.id})
  \/ \E s \in Inputs : Begin(c, "update", UpdateSteps(s), {}, {})
  \/ \E id \in Ids : Begin(c, "get", GetSteps(id), {}, {})
  \/ \E id \in Ids : Begin(c, "delete", DeleteSteps(id), {id}, {})
  \/ \E u \in Users : Begin(c, "get_by_user_id", GetByUserIdSteps(u), {}, {})
  \/ \E u \in Users :
       Begin(c, "delete_by_user_id", DeleteByUserIdSteps(u),
             {s.id : s \in {t \in Inputs : t.user_id = u}}, {})

Return(c, code) ==
  /\ todo' = [todo EXCEPT ![c] = <<>>]
  /\ fn' = [fn EXCEPT ![c] = "none"]
  /\ got' = [got EXCEPT ![c] = Nil]
  /\ found' = [found EXCEPT ![c] = <<>>]
  /\ rc' = [rc EXCEPT ![c] = code]
  /\ scope' = [scope EXCEPT ![c] = {}]
  /\ deleted' = IF code = 0 THEN deleted \cup scope[c] ELSE deleted

\* Go on with steps, or return: get fails without a session, all else succeeds.
Continue(c, steps, g, f) ==
  \/ /\ steps = <<>>
     /\ Return(c, IF fn[c] = "get" /\ g = Nil THEN -1 ELSE 0)
  \/ /\ steps # <<>>
     /\ todo' = [todo EXCEPT ![c] = steps]
     /\ got' = [got EXCEPT ![c] = g]
     /\ found' = [found EXCEPT ![c] = f]
     /\ UNCHANGED <<fn, rc, scope, deleted>>

\* The command at the head of the list, when it is cmd with argument arg.
Pending(c, cmd, arg) == ~Idle(c) /\ Head(todo[c]) = Do(cmd, arg)

Rest(c) == Tail(todo[c])

\* hiredis: the command was sent and answered.
Answered(c) == conn[c] = "up" /\ UNCHANGED <<conn, failed>>

\* hiredis: an error reply; or the connection breaks, and from then on every
\* command fails, since redis.c connects once.
Refused(c) ==
  /\ CommandsMayFail
  /\ failed' = TRUE
  /\ UNCHANGED redis
  /\ conn' = conn \/ conn' = [conn EXCEPT ![c] = "down"]

\* hiredis: the command was carried out and its reply lost.
ReplyLost(c) ==
  /\ CommandsMayFail
  /\ conn[c] = "up"
  /\ failed' = TRUE
  /\ conn' = [conn EXCEPT ![c] = "down"]

-----------------------------------------------------------------------------
\* redis_get meets a value that is expired by the client's clock and that Redis
\* still keeps: it calls redis_delete, which calls redis_get on it again.
Recurses(c, id) == value[id] # Nil /\ is_expired(c, Stored(id))

\* redis_get: NIL, an expired value, which is deleted first, or a session.
GetReply(c, id, keep) ==
  /\ Answered(c)
  /\ UNCHANGED redis
  /\ \/ /\ value[id] = Nil
        /\ Continue(c, Rest(c), Nil, found[c])
     \/ /\ Recurses(c, id)
        /\ Len(todo[c]) < StackDepth
        /\ Continue(c, DeleteSteps(id) \o Rest(c), Nil, found[c])
     \/ /\ value[id] # Nil
        /\ ~is_expired(c, Stored(id))
        /\ Continue(c, Rest(c), Stored(id),
                    IF keep THEN Append(found[c], id) ELSE found[c])

\* GET in redis_get, called on its own, by update and delete, and in the loop
\* of redis_get_by_user_id.
Get(c, id) ==
  /\ \E keep \in BOOLEAN :
       /\ Pending(c, IF keep THEN "GET_MEMBER" ELSE "GET", id)
       /\ \/ GetReply(c, id, keep)
          \/ Refused(c) /\ Continue(c, Rest(c), Nil, found[c])
  /\ UNCHANGED now

\* The next nested call has no room on the stack: the process ends, and starts
\* again with a new connection.
Overflow(c, id) ==
  /\ Pending(c, "GET", id) \/ Pending(c, "GET_MEMBER", id)
  /\ conn[c] = "up"
  /\ Recurses(c, id)
  /\ Len(todo[c]) >= StackDepth
  /\ Return(c, -1)
  /\ failed' = TRUE
  /\ UNCHANGED <<redis, now, conn>>

SetTo(c, s) ==
  /\ value' = [value EXCEPT ![s.id] = session_to_json(s)]
  /\ ttl' = [ttl EXCEPT ![s.id] = DropAt(c, s)]
  /\ UNCHANGED index

\* SET in redis_create, also when redis_update calls it.
Set(c, s) ==
  /\ Pending(c, "SET", s) \/ (Pending(c, "REPLACE", s) /\ got[c] # Nil)
  /\ \/ Answered(c) /\ SetTo(c, s) /\ Continue(c, Rest(c), Nil, found[c])
     \/ ReplyLost(c) /\ SetTo(c, s) /\ Return(c, -1)
     \/ Refused(c) /\ Return(c, -1)
  /\ UNCHANGED now

\* redis_update of a session the get did not find.
UpdateMissing(c, s) ==
  /\ Pending(c, "REPLACE", s)
  /\ got[c] = Nil
  /\ Return(c, -1)
  /\ UNCHANGED <<redis, now, conn, failed>>

AddTo(s) ==
  /\ index' = [index EXCEPT ![s.user_id] = @ \cup {s.id}]
  /\ UNCHANGED <<value, ttl>>

Sadd(c, s) ==
  /\ Pending(c, "SADD", s)
  /\ \/ Answered(c) /\ AddTo(s) /\ Continue(c, Rest(c), Nil, found[c])
     \/ ReplyLost(c) /\ AddTo(s) /\ Return(c, -1)
     \/ Refused(c) /\ Return(c, -1)
  /\ UNCHANGED now

Drop(id) ==
  /\ value' = [value EXCEPT ![id] = Nil]
  /\ ttl' = [ttl EXCEPT ![id] = Nil]
  /\ UNCHANGED index

\* DEL in redis_delete.  Its reply is not looked at.
Del(c, id) ==
  /\ Pending(c, "DEL", id)
  /\ \/ Answered(c) /\ Drop(id)
     \/ ReplyLost(c) /\ Drop(id)
     \/ Refused(c)
  /\ LET srem == IF got[c] = Nil THEN <<>> ELSE <<Do("SREM", id)>>
     IN  Continue(c, srem \o Rest(c), got[c], found[c])
  /\ UNCHANGED now

RemoveFrom(c, id) ==
  /\ index' = [index EXCEPT ![got[c].user_id] = @ \ {id}]
  /\ UNCHANGED <<value, ttl>>

\* SREM in redis_delete, with the user of the session its get found.
Srem(c, id) ==
  /\ Pending(c, "SREM", id)
  /\ \/ Answered(c) /\ RemoveFrom(c, id)
     \/ ReplyLost(c) /\ RemoveFrom(c, id)
     \/ Refused(c)
  /\ Continue(c, Rest(c), Nil, found[c])
  /\ UNCHANGED now

\* SMEMBERS in redis_get_by_user_id; the members come in any order.
Smembers(c, u) ==
  /\ Pending(c, "SMEMBERS", u)
  /\ \/ /\ Answered(c)
        /\ UNCHANGED redis
        /\ \E members \in SetToSeqs(index[u]) :
             Continue(c, [i \in DOMAIN members |-> Do("GET_MEMBER", members[i])] \o Rest(c),
                      Nil, <<>>)
     \/ Refused(c) /\ Return(c, -1)
  /\ UNCHANGED now

\* Mutant of DeleteFound: the sessions are left to the index.
DeleteFoundNone(c, u) ==
  /\ Pending(c, "DELETE_FOUND", u)
  /\ Continue(c, Rest(c), Nil, <<>>)
  /\ UNCHANGED <<redis, now, conn, failed>>

\* Mutant of DeleteFound: the loop does not get past the first session.
DeleteFoundAgain(c, u) ==
  /\ Pending(c, "DELETE_FOUND", u)
  /\ \/ found[c] = <<>> /\ Continue(c, Rest(c), Nil, <<>>)
     \/ found[c] # <<>> /\ Continue(c, DeleteSteps(Head(found[c])) \o todo[c], Nil, found[c])
  /\ UNCHANGED <<redis, now, conn, failed>>

\* The loop of redis_delete_by_user_id over what was collected: redis_delete
\* for the first of it, or the end of the loop.
DeleteFound(c, u) ==
  /\ Pending(c, "DELETE_FOUND", u)
  /\ \/ found[c] = <<>> /\ Continue(c, Rest(c), Nil, <<>>)
     \/ found[c] # <<>> /\ Continue(c, DeleteSteps(Head(found[c])) \o todo[c], Nil, Tail(found[c]))
  /\ UNCHANGED <<redis, now, conn, failed>>

Forget(u) ==
  /\ index' = [index EXCEPT ![u] = {}]
  /\ UNCHANGED <<value, ttl>>

\* DEL of the user's set.  Its reply is not looked at.
DelIndex(c, u) ==
  /\ Pending(c, "DEL_INDEX", u)
  /\ \/ Answered(c) /\ Forget(u)
     \/ ReplyLost(c) /\ Forget(u)
     \/ Refused(c)
  /\ Continue(c, Rest(c), Nil, <<>>)
  /\ UNCHANGED now

\* The process ends, in a call or out of one, and starts with a new connection.
Restart(c) ==
  /\ CommandsMayFail
  /\ ~Idle(c) \/ conn[c] = "down"
  /\ Return(c, -1)
  /\ conn' = [conn EXCEPT ![c] = "up"]
  /\ failed' = TRUE
  /\ UNCHANGED <<redis, now>>

\* Redis drops the keys whose time has come.
Tick ==
  LET due == {id \in Ids : ttl[id] # Nil /\ ttl[id] <= now + 1}
  IN  /\ now' = IF now < MaxTime THEN now + 1 ELSE now
      /\ value' = [id \in Ids |-> IF id \in due THEN Nil ELSE value[id]]
      /\ ttl' = [id \in Ids |-> IF id \in due THEN Nil ELSE ttl[id]]
      /\ UNCHANGED <<index, conn, fn, todo, locals, rc, scope, deleted, failed>>

\* The next command of the call a client is in.
Command(c) ==
  \/ \E id \in Ids : Get(c, id)
  \/ \E id \in Ids : Overflow(c, id)
  \/ \E s \in Inputs : Set(c, s)
  \/ \E s \in Inputs : UpdateMissing(c, s)
  \/ \E s \in Inputs : Sadd(c, s)
  \/ \E id \in Ids : Del(c, id)
  \/ \E id \in Ids : Srem(c, id)
  \/ \E u \in Users : Smembers(c, u)
  \/ \E u \in Users : DeleteFound(c, u)
  \/ \E u \in Users : DelIndex(c, u)

Next ==
  \/ \E c \in Clients : Call(c) \/ Command(c) \/ Restart(c)
  \/ Tick

\* A client in a call goes on, and time passes.
Fairness == WF_vars(Tick) /\ \A c \in Clients : WF_vars(Command(c))

Spec == Init /\ [][Next]_vars /\ Fairness

-----------------------------------------------------------------------------
\* Every variable holds a value of its type, what is read back is what a caller
\* passed in, and a key has a time to live exactly if its session expires.
RedisTypeOK ==
  /\ \A id \in Ids : value[id] # Nil => Stored(id) \in Inputs /\ Stored(id).id = id
  /\ \A id \in Ids :
       (ttl[id] # Nil) <=> (value[id] # Nil /\ Stored(id).expires_at # Nil)
  /\ index \in [Users -> SUBSET Ids]
  /\ now \in 0..MaxTime
  /\ conn \in [Clients -> {"up", "down"}]
  /\ fn \in [Clients -> Functions \cup {"none"}]
  /\ \A c \in Clients : Idle(c) <=> fn[c] = "none"
  /\ rc \in [Clients -> {0, -1}]

\* Between calls every stored session is in its user's set, where
\* redis_delete_by_user_id will find it, as long as nothing failed.
IndexComplete ==
  ~failed /\ (\A c \in Clients : Idle(c)) =>
    \A id \in Ids : value[id] # Nil => id \in index[Stored(id).user_id]

\* A session whose deletion, alone or with its user's others, was reported as
\* done stays gone until it is created again.
DeletedIsGone == \A id \in deleted : value[id] = Nil

\* The same, as long as no command failed.
DeletionTakesEffect == ~failed => DeletedIsGone

\* What redis_get recurses on goes away soon, so that the recursion ends if the
\* stack outlasts it: a value that a client takes for expired while Redis keeps
\* it was stored past its expiry, with the one second redis_create then gives
\* it, or by a client whose clock is behind, and is kept for less than the
\* difference of the two clocks.
ExpiredIsShortLived ==
  \A c \in Clients, id \in Ids :
    Recurses(c, id) /\ ttl[id] # Nil =>
      ttl[id] = now + 1 \/ \E d \in Clients : ttl[id] < now + (Ahead[c] - Ahead[d])

\* No call runs for ever: the nested redis_get and redis_delete and the loops
\* over a user's sessions come to an end, by returning or, when a value outlasts
\* the stack, with the process.
CallsEnd == \A c \in Clients : ~Idle(c) ~> Idle(c)
=============================================================================
