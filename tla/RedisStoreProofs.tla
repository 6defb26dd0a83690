-------------------------- MODULE RedisStoreProofs --------------------------
(***************************************************************************)
(* Proofs about the Redis backend.  Type correctness holds for any number   *)
(* of clients, failures included.  What the store promises of its index and *)
(* of its deletions holds for one client, as long as no command failed: with *)
(* two clients the run redis_race refutes it.                               *)
(*                                                                         *)
(* The argument for one client reads the commands a call still has to send  *)
(* (todo) from their end.  Planned says which lists each function can have  *)
(* left, however deep its gets are nested; Doomed, which sessions such a    *)
(* list is still going to delete.                                           *)
(***************************************************************************)
EXTENDS RedisStore, TLAPS, FiniteSetTheorems

-----------------------------------------------------------------------------
(* Types.                                                                   *)

\* The commands, by their argument.
OnKey == [cmd: {"GET", "GET_MEMBER", "DEL", "SREM"}, arg: Ids]

OnUser == [cmd: {"SMEMBERS", "DELETE_FOUND", "DEL_INDEX"}, arg: Users]

OnSession == [cmd: {"SET", "REPLACE", "SADD"}, arg: Inputs]

Step == OnKey \cup OnUser \cup OnSession

\* Every value is the JSON of a session somebody passed in.
ValuesOK ==
  /\ value \in [Ids -> {session_to_json(s) : s \in Inputs} \cup {Nil}]
  /\ \A id \in Ids : value[id] # Nil => \E s \in Inputs : s.id = id /\ value[id] = session_to_json(s)

TtlOK ==
  /\ ttl \in [Ids -> Nat \cup {Nil}]
  /\ \A id \in Ids : (ttl[id] # Nil) <=> (value[id] # Nil /\ Stored(id).expires_at # Nil)

IndexOK ==
  /\ index \in [Users -> SUBSET Ids]
  /\ \A u \in Users : IsFiniteSet(index[u])

RedisOK == ValuesOK /\ TtlOK /\ IndexOK

CallsOK ==
  /\ conn \in [Clients -> {"up", "down"}]
  /\ fn \in [Clients -> Functions \cup {"none"}]
  /\ todo \in [Clients -> Seq(Step)]
  /\ \A c \in Clients : (todo[c] = <<>>) <=> (fn[c] = "none")
  /\ got \in [Clients -> Inputs \cup {Nil}]
  /\ found \in [Clients -> Seq(Ids)]
  /\ rc \in [Clients -> {0, -1}]
  /\ scope \in [Clients -> SUBSET Ids]
  /\ deleted \subseteq Ids
  /\ failed \in BOOLEAN

TypeInv == RedisOK /\ CallsOK /\ now \in 0..MaxTime

-----------------------------------------------------------------------------
(* One client.                                                              *)

OneClient == \E c \in Clients : Clients = {c}

\* The lists of commands a call of function f can have left.  Gets that meet an
\* expired session put deletions in front, and nothing else ever does.
Planned(f, T) ==
  /\ f \in {"get", "delete"} => \A i \in DOMAIN T : T[i].cmd \in {"GET", "DEL", "SREM"}
  /\ f = "get_by_user_id" =>
       \/ Len(T) = 1 /\ T[1].cmd = "SMEMBERS"
       \/ \A i \in DOMAIN T : T[i] \in OnKey
  /\ f = "create" /\ T # <<>> =>
       /\ Len(T) <= 2
       /\ T[Len(T)].cmd = "SADD"
       /\ Len(T) = 2 => T[1] = Do("SET", T[2].arg)
  /\ f = "update" /\ T # <<>> =>
       /\ T[Len(T)].cmd = "SADD"
       /\ Len(T) >= 2 => T[Len(T) - 1] = Do("REPLACE", T[Len(T)].arg)
       /\ \A i \in 1..(Len(T) - 2) :
            T[i].cmd \in {"GET", "DEL", "SREM"} /\ T[i].arg = T[Len(T)].arg.id
  /\ f = "delete_by_user_id" /\ T # <<>> =>
       /\ T[Len(T)].cmd = "DEL_INDEX"
       /\ Len(T) >= 2 => T[Len(T) - 1] = Do("DELETE_FOUND", T[Len(T)].arg)
       /\ \A i \in 1..(Len(T) - 2) :
            T[i] \in OnKey \/ (Len(T) = 3 /\ T[i] = Do("SMEMBERS", T[Len(T)].arg))
  /\ \A i \in DOMAIN T : T[i].cmd = "SREM" => i = 1

\* The session id is still going to be deleted.
Doomed(T, F, id) ==
  \/ \E i \in DOMAIN T : T[i].cmd \in {"DEL", "GET_MEMBER"} /\ T[i].arg = id
  \/ T # <<>> /\ T[1].cmd = "SMEMBERS"
  \/ \E i \in DOMAIN F : F[i] = id

\* A stored session is in its user's set, or is being put there.
Indexed(T) ==
  \A id \in Ids : value[id] # Nil =>
    \/ id \in index[Stored(id).user_id]
    \/ T # <<>> /\ T[1].cmd = "SADD" /\ T[1].arg.id = id

\* SREM comes after its session is gone.
SremLate(T) == T # <<>> /\ T[1].cmd = "SREM" => value[T[1].arg] = Nil

\* What a call collects it also deletes, before it deletes the user's set.
FoundOK(f, T, F) ==
  /\ f \in {"none", "delete"} => F = <<>>
  /\ f = "delete_by_user_id" /\ (T = <<>> \/ T[1].cmd = "DEL_INDEX") => F = <<>>

\* Only deletions are about sessions to remove, of the user they are called for.
ScopeOK(f, T, sc) ==
  /\ f \notin {"delete", "delete_by_user_id"} => sc = {}
  /\ f = "delete_by_user_id" /\ T # <<>> =>
       \A id \in sc : \E s \in Inputs : s.id = id /\ s.user_id = T[Len(T)].arg

\* What a call has to remove.
ToGo(f, T, sc, id) ==
  \/ id \in sc
  \/ f = "delete_by_user_id" /\ T # <<>> /\ Stored(id).user_id = T[Len(T)].arg

\* What is stored and has to go is going.
Covered(f, T, F, sc) ==
  \A id \in Ids : value[id] # Nil /\ ToGo(f, T, sc, id) => Doomed(T, F, id)

\* No write brings back what was deleted.
WritesFresh(f, T, g, del) ==
  /\ f = "create" /\ T # <<>> => T[Len(T)].arg.id \notin del
  /\ f = "update" /\ Len(T) = 2 /\ g # Nil => T[2].arg.id \notin del

AllGone(del) == \A id \in del : value[id] = Nil

\* A client in function f with the commands T left, a session g from its last
\* get, F collected, sc to remove, after del was removed.
Sound(f, T, g, F, sc, del) ==
  /\ Planned(f, T)
  /\ Indexed(T)
  /\ SremLate(T)
  /\ FoundOK(f, T, F)
  /\ ScopeOK(f, T, sc)
  /\ Covered(f, T, F, sc)
  /\ AllGone(del)
  /\ WritesFresh(f, T, g, del)

SoloInv ==
  OneClient /\ ~failed =>
    \A c \in Clients : Sound(fn[c], todo[c], got[c], found[c], scope[c], deleted)

-----------------------------------------------------------------------------
(* Operators of the model.                                                  *)

\* A caller's session has the fields of a session, of their types.
LEMMA InputFields ==
  ASSUME NEW s \in Inputs
  PROVE  /\ s \in Session
         /\ s.id \in Ids /\ s.user_id \in Users
         /\ s.expires_at \in Nat \cup {Nil}
<1>1. s \in Session BY RedisAssumption
<1> QED BY <1>1 DEF Session

\* What session_to_json writes, session_from_json reads back.
LEMMA JsonRoundTrip ==
  ASSUME NEW s \in Inputs
  PROVE  session_from_json(session_to_json(s)) = s
<1> DEFINE Fields == {"id", "user_id", "state", "public_key", "algorithm", "challenge",
                      "expires_at", "created_at"}
           j == session_to_json(s)
<1>1. s \in Session BY InputFields
<1>2. DOMAIN s = Fields /\ s = [f \in Fields |-> s[f]] BY <1>1 DEF Session
<1>3. DOMAIN EmptySession = Fields BY DEF EmptySession
<1>4. s.state # Nil /\ s.created_at # Nil
  <2>1. s.state \in {"active", "bound"} /\ s.created_at \in Nat BY <1>1 DEF Session
  <2> QED BY <2>1, NilJsonAssumption
<1>5. \A f \in Fields : s[f] = Nil => EmptySession[f] = Nil
  BY <1>4 DEF EmptySession
<1>6. \A f \in Fields : (IF f \in DOMAIN j THEN j[f] ELSE EmptySession[f]) = s[f]
  BY <1>2, <1>5 DEF session_to_json
<1>7. session_from_json(j) = [f \in Fields |-> s[f]]
  BY <1>3, <1>6, Zenon DEF session_from_json
<1> QED BY <1>2, <1>7

\* A stored value is the JSON of the session that a get returns.
LEMMA StoredInput ==
  ASSUME ValuesOK, NEW id \in Ids, value[id] # Nil
  PROVE  /\ Stored(id) \in Inputs
         /\ Stored(id).id = id
         /\ value[id] = session_to_json(Stored(id))
<1>1. PICK s \in Inputs : s.id = id /\ value[id] = session_to_json(s) BY DEF ValuesOK
<1>2. Stored(id) = s BY <1>1, JsonRoundTrip DEF Stored
<1> QED BY <1>1, <1>2

\* The commands a function begins with.
LEMMA SessionSteps ==
  ASSUME NEW s \in Inputs
  PROVE  /\ CreateSteps(s) \in Seq(Step) /\ Len(CreateSteps(s)) = 2
         /\ CreateSteps(s)[1] = Do("SET", s) /\ CreateSteps(s)[2] = Do("SADD", s)
         /\ UpdateSteps(s) \in Seq(Step) /\ Len(UpdateSteps(s)) = 3
         /\ UpdateSteps(s)[1] = Do("GET", s.id) /\ UpdateSteps(s)[2] = Do("REPLACE", s)
         /\ UpdateSteps(s)[3] = Do("SADD", s)
<1>1. Do("SET", s) \in Step /\ Do("REPLACE", s) \in Step /\ Do("SADD", s) \in Step
  BY DEF Do, Step, OnSession
<1>2. Do("GET", s.id) \in Step BY InputFields DEF Do, Step, OnKey
<1> HIDE DEF Step, Do
<1> QED BY <1>1, <1>2 DEF CreateSteps, UpdateSteps, GetSteps

\* The commands a function begins with.
LEMMA KeySteps ==
  ASSUME NEW id \in Ids
  PROVE  /\ GetSteps(id) \in Seq(Step) /\ Len(GetSteps(id)) = 1
         /\ GetSteps(id)[1] = Do("GET", id)
         /\ DeleteSteps(id) \in Seq(Step) /\ Len(DeleteSteps(id)) = 2
         /\ DeleteSteps(id)[1] = Do("GET", id) /\ DeleteSteps(id)[2] = Do("DEL", id)
<1>1. Do("GET", id) \in Step /\ Do("DEL", id) \in Step BY DEF Do, Step, OnKey
<1> QED BY <1>1 DEF GetSteps, DeleteSteps

\* The commands a function begins with.
LEMMA UserSteps ==
  ASSUME NEW u \in Users
  PROVE  /\ GetByUserIdSteps(u) \in Seq(Step) /\ Len(GetByUserIdSteps(u)) = 1
         /\ GetByUserIdSteps(u)[1] = Do("SMEMBERS", u)
         /\ DeleteByUserIdSteps(u) \in Seq(Step) /\ Len(DeleteByUserIdSteps(u)) = 3
         /\ DeleteByUserIdSteps(u)[1] = Do("SMEMBERS", u)
         /\ DeleteByUserIdSteps(u)[2] = Do("DELETE_FOUND", u)
         /\ DeleteByUserIdSteps(u)[3] = Do("DEL_INDEX", u)
<1>1. Do("SMEMBERS", u) \in Step /\ Do("DELETE_FOUND", u) \in Step /\ Do("DEL_INDEX", u) \in Step
  BY DEF Do, Step, OnUser
<1> QED BY <1>1 DEF GetByUserIdSteps, DeleteByUserIdSteps

\* The replies of SMEMBERS are the lists of the members, each once.
LEMMA MembersAll ==
  ASSUME NEW S, IsFiniteSet(S), NEW m \in SetToSeqs(S)
  PROVE  m \in Seq(S) /\ \A x \in S : \E i \in DOMAIN m : m[i] = x
<1> DEFINE D == 1..Cardinality(S)
<1>1. Cardinality(S) \in Nat BY FS_CardinalityType
<1>2. m \in [D -> S] /\ \A i, j \in D : i # j => m[i] # m[j] BY DEF SetToSeqs
<1>3. m \in Seq(S) /\ DOMAIN m = D BY <1>1, <1>2
<1>4. Cardinality(D) = Cardinality(S) BY <1>1, FS_Interval
<1>5. m \in Injection(D, S) BY <1>2 DEF Injection, IsInjective
<1>6. m \in Surjection(D, S) BY <1>4, <1>5, FS_Injection
<1> QED BY <1>3, <1>6 DEF Surjection

-----------------------------------------------------------------------------
(* Type correctness.                                                        *)

\* The head of a list of commands.
LEMMA PendingHead ==
  ASSUME CallsOK, NEW c \in Clients, NEW cmd, NEW arg, Pending(c, cmd, arg)
  PROVE  /\ todo[c] \in Seq(Step) /\ todo[c] # <<>> /\ Len(todo[c]) \in Nat /\ Len(todo[c]) >= 1
         /\ todo[c][1] = Do(cmd, arg)
         /\ Rest(c) \in Seq(Step) /\ Len(Rest(c)) = Len(todo[c]) - 1
         /\ \A i \in 1..(Len(todo[c]) - 1) : Rest(c)[i] = todo[c][i + 1]
<1>1. todo[c] \in Seq(Step) /\ todo[c] # <<>> BY DEF CallsOK, Pending, Idle
<1>2. Head(todo[c]) = Do(cmd, arg) BY DEF Pending
<1> QED BY <1>1, <1>2 DEF Rest

\* Returning keeps the types of the calls.
LEMMA ReturnTypes ==
  ASSUME CallsOK, NEW c \in Clients, NEW code \in {0, -1}, Return(c, code),
         conn' \in [Clients -> {"up", "down"}], failed' \in BOOLEAN
  PROVE  CallsOK'
<1>1. /\ fn' \in [Clients -> Functions \cup {"none"}] /\ todo' \in [Clients -> Seq(Step)]
      /\ \A d \in Clients : (todo'[d] = <<>>) <=> (fn'[d] = "none")
  BY DEF CallsOK, Return
<1>2. got' \in [Clients -> Inputs \cup {Nil}] /\ found' \in [Clients -> Seq(Ids)]
  BY DEF CallsOK, Return
<1>3. rc' \in [Clients -> {0, -1}] /\ scope' \in [Clients -> SUBSET Ids] /\ deleted' \subseteq Ids
  BY DEF CallsOK, Return
<1> QED BY <1>1, <1>2, <1>3 DEF CallsOK

\* So does going on with the next command.
LEMMA ContinueTypes ==
  ASSUME CallsOK, NEW c \in Clients, ~Idle(c), NEW steps \in Seq(Step), NEW g \in Inputs \cup {Nil},
         NEW f \in Seq(Ids), Continue(c, steps, g, f),
         conn' \in [Clients -> {"up", "down"}], failed' \in BOOLEAN
  PROVE  CallsOK'
<1>1. CASE steps = <<>>
  <2>1. PICK code \in {0, -1} : Return(c, code) BY <1>1 DEF Continue
  <2> QED BY <2>1, ReturnTypes
<1>2. CASE steps # <<>>
  <2>1. /\ todo' = [todo EXCEPT ![c] = steps] /\ got' = [got EXCEPT ![c] = g]
        /\ found' = [found EXCEPT ![c] = f] /\ UNCHANGED <<fn, rc, scope, deleted>>
    BY <1>2 DEF Continue
  <2>2. fn[c] # "none" BY DEF CallsOK, Idle
  <2>3. todo' \in [Clients -> Seq(Step)] /\ \A d \in Clients : (todo'[d] = <<>>) <=> (fn'[d] = "none")
    BY <1>2, <2>1, <2>2 DEF CallsOK
  <2> QED BY <2>1, <2>3 DEF CallsOK
<1> QED BY <1>1, <1>2

\* What hiredis does to a connection keeps its type.
LEMMA LinkTypes ==
  ASSUME CallsOK, NEW c \in Clients, Answered(c) \/ Refused(c) \/ ReplyLost(c)
  PROVE  conn' \in [Clients -> {"up", "down"}] /\ failed' \in BOOLEAN
<1>1. CASE Answered(c) BY <1>1 DEF Answered, CallsOK
<1>2. CASE Refused(c) BY <1>2 DEF Refused, CallsOK
<1>3. CASE ReplyLost(c) BY <1>3 DEF ReplyLost, CallsOK
<1> QED BY <1>1, <1>2, <1>3

\* Nothing done to Redis keeps its types.
LEMMA KeptTypes ==
  ASSUME RedisOK, UNCHANGED redis
  PROVE  RedisOK'
BY DEF RedisOK, redis, ValuesOK, TtlOK, IndexOK, Stored

\* SET stores the session and gives the key a time to live if it expires.
LEMMA SetTypes ==
  ASSUME RedisOK, now \in Nat, NEW c \in Clients, NEW s \in Inputs, SetTo(c, s)
  PROVE  /\ RedisOK'
         /\ value'[s.id] # Nil /\ (Stored(s.id))' = s
         /\ \A id \in Ids : id # s.id => value'[id] = value[id]
         /\ index' = index
<1>1. s.id \in Ids /\ s.expires_at \in Nat \cup {Nil} /\ session_to_json(s) # Nil
  BY InputFields, NilJsonAssumption
<1>2. value' = [value EXCEPT ![s.id] = session_to_json(s)] /\ ttl' = [ttl EXCEPT ![s.id] = DropAt(c, s)]
      /\ index' = index
  BY DEF SetTo
<1>3. /\ value'[s.id] = session_to_json(s)
      /\ \A id \in Ids : id # s.id => value'[id] = value[id]
  BY <1>1, <1>2 DEF RedisOK, ValuesOK
<1>4. (Stored(s.id))' = s BY <1>3, JsonRoundTrip DEF Stored
<1>5. ValuesOK'
  <2>1. value' \in [Ids -> {session_to_json(x) : x \in Inputs} \cup {Nil}]
    BY <1>1, <1>2 DEF RedisOK, ValuesOK
  <2>2. \A id \in Ids : value'[id] # Nil => \E x \in Inputs : x.id = id /\ value'[id] = session_to_json(x)
    BY <1>3 DEF RedisOK, ValuesOK
  <2> QED BY <2>1, <2>2 DEF ValuesOK
<1>6. TtlOK'
  <2>1. DropAt(c, s) \in Nat \cup {Nil} /\ (DropAt(c, s) # Nil <=> s.expires_at # Nil)
    <3>1. Ahead[c] \in Nat /\ Nil \notin Nat BY RedisAssumption, NilJsonAssumption
    <3>2. CASE s.expires_at = Nil BY <3>2 DEF DropAt
    <3>3. CASE s.expires_at # Nil
      <4>1. DropAt(c, s) \in Nat BY <3>1, <3>3, <1>1 DEF DropAt
      <4> QED BY <4>1, <3>1, <3>3
    <3> QED BY <3>2, <3>3
  <2>2. ttl' \in [Ids -> Nat \cup {Nil}] BY <1>1, <1>2, <2>1 DEF RedisOK, TtlOK
  <2>3. ASSUME NEW id \in Ids
        PROVE  (ttl'[id] # Nil) <=> (value'[id] # Nil /\ (Stored(id))'.expires_at # Nil)
    <3>1. CASE id = s.id
      <4>1. ttl'[id] = DropAt(c, s) BY <3>1, <1>1, <1>2 DEF RedisOK, TtlOK
      <4> QED BY <4>1, <3>1, <2>1, <1>1, <1>3, <1>4
    <3>2. CASE id # s.id
      <4>1. ttl'[id] = ttl[id] /\ value'[id] = value[id] BY <3>2, <1>2, <1>3 DEF RedisOK, TtlOK
      <4>2. (Stored(id))' = Stored(id) BY <4>1 DEF Stored
      <4> QED BY <4>1, <4>2 DEF RedisOK, TtlOK
    <3> QED BY <3>1, <3>2
  <2> QED BY <2>2, <2>3 DEF TtlOK
<1>7. IndexOK' BY <1>2 DEF RedisOK, IndexOK
<1> QED BY <1>1, <1>2, <1>3, <1>4, <1>5, <1>6, <1>7 DEF RedisOK

\* Keys disappear together with their time to live: DEL, and expiry.
LEMMA DropTypes ==
  ASSUME RedisOK, NEW gone \in SUBSET Ids,
         value' = [id \in Ids |-> IF id \in gone THEN Nil ELSE value[id]],
         ttl' = [id \in Ids |-> IF id \in gone THEN Nil ELSE ttl[id]],
         index' = index
  PROVE  RedisOK'
<1>1. ValuesOK' BY DEF RedisOK, ValuesOK
<1>2. TtlOK'
  <2>1. ttl' \in [Ids -> Nat \cup {Nil}] BY DEF RedisOK, TtlOK
  <2>2. ASSUME NEW id \in Ids
        PROVE  (ttl'[id] # Nil) <=> (value'[id] # Nil /\ (Stored(id))'.expires_at # Nil)
    <3>1. CASE id \in gone BY <3>1
    <3>2. CASE id \notin gone
      <4>1. ttl'[id] = ttl[id] /\ value'[id] = value[id] BY <3>2
      <4>2. (Stored(id))' = Stored(id) BY <4>1 DEF Stored
      <4> QED BY <4>1, <4>2 DEF RedisOK, TtlOK
    <3> QED BY <3>1, <3>2
  <2> QED BY <2>1, <2>2 DEF TtlOK
<1>3. IndexOK' BY DEF RedisOK, IndexOK
<1> QED BY <1>1, <1>2, <1>3 DEF RedisOK

\* DEL removes one key.
LEMMA DelTypes ==
  ASSUME RedisOK, NEW id \in Ids, Drop(id)
  PROVE  /\ RedisOK'
         /\ value'[id] = Nil /\ index' = index
         /\ \A x \in Ids : x # id => value'[x] = value[x]
<1>1. /\ value' = [x \in Ids |-> IF x \in {id} THEN Nil ELSE value[x]]
      /\ ttl' = [x \in Ids |-> IF x \in {id} THEN Nil ELSE ttl[x]]
      /\ index' = index
  BY DEF Drop, RedisOK, ValuesOK, TtlOK
<1>2. RedisOK' BY <1>1, DropTypes
<1> QED BY <1>1, <1>2

\* The commands on a user's set keep it a finite set of identifiers.
LEMMA SetOfUserTypes ==
  ASSUME RedisOK, NEW u, NEW S, S \subseteq Ids, u \in Users => IsFiniteSet(S),
         index' = [index EXCEPT ![u] = S], UNCHANGED <<value, ttl>>
  PROVE  RedisOK'
<1>1. ValuesOK' /\ TtlOK' BY DEF RedisOK, ValuesOK, TtlOK, Stored
<1>2. IndexOK' BY DEF RedisOK, IndexOK
<1> QED BY <1>1, <1>2 DEF RedisOK

\* The commands that change a user's set.
LEMMA IndexTypes ==
  ASSUME RedisOK, CallsOK
  PROVE  /\ \A s \in Inputs : AddTo(s) => RedisOK'
         /\ \A c \in Clients, id \in Ids : RemoveFrom(c, id) => RedisOK'
         /\ \A u \in Users : Forget(u) => RedisOK'
<1>1. ASSUME NEW s \in Inputs, AddTo(s) PROVE RedisOK'
  <2> DEFINE S == index[s.user_id] \cup {s.id}
  <2>1. s.user_id \in Users /\ s.id \in Ids BY InputFields
  <2>2. S \subseteq Ids /\ IsFiniteSet(S) BY <2>1, FS_AddElement DEF RedisOK, IndexOK
  <2>3. index' = [index EXCEPT ![s.user_id] = S] /\ UNCHANGED <<value, ttl>> BY <1>1 DEF AddTo
  <2> HIDE DEF S
  <2> QED BY <2>2, <2>3, SetOfUserTypes
<1>2. ASSUME NEW c \in Clients, NEW id \in Ids, RemoveFrom(c, id) PROVE RedisOK'
  <2> DEFINE u == got[c].user_id
             S == index[u] \ {id}
  <2>1. index' = [index EXCEPT ![u] = S] /\ UNCHANGED <<value, ttl>> BY <1>2 DEF RemoveFrom
  <2>2. CASE u \in Users
    <3>1. S \subseteq Ids /\ IsFiniteSet(S) BY <2>2, FS_RemoveElement DEF RedisOK, IndexOK
    <3> HIDE DEF S, u
    <3> QED BY <3>1, <2>1, SetOfUserTypes
  <2>3. CASE u \notin Users
    <3>1. index' = index BY <2>1, <2>3 DEF RedisOK, IndexOK
    <3> QED BY <3>1, <2>1, KeptTypes DEF redis
  <2> QED BY <2>2, <2>3
<1>3. ASSUME NEW u \in Users, Forget(u) PROVE RedisOK'
  <2>1. {} \subseteq Ids /\ IsFiniteSet({}) BY FS_EmptySet
  <2> QED BY <1>3, <2>1, SetOfUserTypes DEF Forget
<1> QED BY <1>1, <1>2, <1>3

\* Beginning a call keeps the types.
LEMMA BeginTypes ==
  ASSUME CallsOK, NEW c \in Clients, NEW f \in Functions, NEW steps \in Seq(Step), steps # <<>>,
         NEW gone \in SUBSET Ids, NEW fresh, Begin(c, f, steps, gone, fresh)
  PROVE  CallsOK' /\ UNCHANGED <<redis, now>>
<1>1. /\ fn' \in [Clients -> Functions \cup {"none"}] /\ todo' \in [Clients -> Seq(Step)]
      /\ \A d \in Clients : (todo'[d] = <<>>) <=> (fn'[d] = "none")
  BY DEF CallsOK, Begin, Functions
<1>2. scope' \in [Clients -> SUBSET Ids] /\ deleted' \subseteq Ids BY DEF CallsOK, Begin
<1>3. UNCHANGED <<redis, now, conn, locals, rc, failed>> BY DEF Begin
<1> QED BY <1>1, <1>2, <1>3 DEF CallsOK, locals

\* Every call keeps the types.
LEMMA CallTypes ==
  ASSUME CallsOK, NEW c \in Clients, Call(c)
  PROVE  CallsOK' /\ UNCHANGED <<redis, now>>
<1>0. {"create", "get", "update", "delete", "get_by_user_id", "delete_by_user_id"} \subseteq Functions
  BY DEF Functions
<1>1. ASSUME NEW s \in Inputs, Begin(c, "create", CreateSteps(s), {}, {s.id})
      PROVE  CallsOK' /\ UNCHANGED <<redis, now>>
  BY <1>0, <1>1, SessionSteps, BeginTypes
<1>2. ASSUME NEW s \in Inputs, Begin(c, "update", UpdateSteps(s), {}, {})
      PROVE  CallsOK' /\ UNCHANGED <<redis, now>>
  BY <1>0, <1>2, SessionSteps, BeginTypes
<1>3. ASSUME NEW id \in Ids, Begin(c, "get", GetSteps(id), {}, {})
      PROVE  CallsOK' /\ UNCHANGED <<redis, now>>
  BY <1>0, <1>3, KeySteps, BeginTypes
<1>4. ASSUME NEW id \in Ids, Begin(c, "delete", DeleteSteps(id), {id}, {})
      PROVE  CallsOK' /\ UNCHANGED <<redis, now>>
  <2>1. {id} \in SUBSET Ids OBVIOUS
  <2>2. DeleteSteps(id) \in Seq(Step) /\ DeleteSteps(id) # <<>> BY KeySteps
  <2> QED BY <1>0, <1>4, <2>1, <2>2, BeginTypes
<1>5. ASSUME NEW u \in Users, Begin(c, "get_by_user_id", GetByUserIdSteps(u), {}, {})
      PROVE  CallsOK' /\ UNCHANGED <<redis, now>>
  BY <1>0, <1>5, UserSteps, BeginTypes
<1>6. ASSUME NEW u \in Users,
             Begin(c, "delete_by_user_id", DeleteByUserIdSteps(u),
                   {s.id : s \in {t \in Inputs : t.user_id = u}}, {})
      PROVE  CallsOK' /\ UNCHANGED <<redis, now>>
  <2> DEFINE S == {s.id : s \in {t \in Inputs : t.user_id = u}}
  <2>1. S \in SUBSET Ids BY InputFields
  <2>2. DeleteByUserIdSteps(u) \in Seq(Step) /\ DeleteByUserIdSteps(u) # <<>> BY UserSteps
  <2>3. Begin(c, "delete_by_user_id", DeleteByUserIdSteps(u), S, {}) BY <1>6
  <2> HIDE DEF S
  <2> QED BY <1>0, <2>1, <2>2, <2>3, BeginTypes
<1> QED BY <1>1, <1>2, <1>3, <1>4, <1>5, <1>6 DEF Call

\* Every command keeps the types.
LEMMA CommandTypes ==
  ASSUME CallsOK, RedisOK, now \in Nat, NEW c \in Clients, Command(c)
  PROVE  CallsOK' /\ RedisOK' /\ now' = now
<1>0. Nil \in Inputs \cup {Nil} /\ found[c] \in Seq(Ids) /\ <<>> \in Seq(Ids)
      /\ got[c] \in Inputs \cup {Nil}
  BY DEF CallsOK
<1>1. ASSUME NEW id \in Ids, Get(c, id) PROVE CallsOK' /\ RedisOK' /\ now' = now
  <2>1. PICK keep \in BOOLEAN :
          /\ Pending(c, IF keep THEN "GET_MEMBER" ELSE "GET", id)
          /\ GetReply(c, id, keep) \/ (Refused(c) /\ Continue(c, Rest(c), Nil, found[c]))
    BY <1>1 DEF Get
  <2>2. now' = now BY <1>1 DEF Get
  <2>3. Rest(c) \in Seq(Step) /\ ~Idle(c) BY <2>1, PendingHead DEF Pending
  <2>4. CASE Refused(c) /\ Continue(c, Rest(c), Nil, found[c])
    <3>1. RedisOK' BY <2>4, KeptTypes DEF Refused
    <3> QED BY <1>0, <2>2, <2>3, <2>4, <3>1, LinkTypes, ContinueTypes
  <2>5. CASE GetReply(c, id, keep)
    <3>1. Answered(c) /\ UNCHANGED redis BY <2>5 DEF GetReply
    <3>2. RedisOK' BY <3>1, KeptTypes
    <3>3. conn' \in [Clients -> {"up", "down"}] /\ failed' \in BOOLEAN BY <3>1, LinkTypes
    <3>4. CASE Continue(c, Rest(c), Nil, found[c])
      BY <1>0, <2>2, <2>3, <3>2, <3>3, <3>4, ContinueTypes
    <3>5. CASE Continue(c, DeleteSteps(id) \o Rest(c), Nil, found[c])
      <4>1. DeleteSteps(id) \o Rest(c) \in Seq(Step) BY <2>3, KeySteps
      <4> QED BY <1>0, <2>2, <2>3, <3>2, <3>3, <3>5, <4>1, ContinueTypes
    <3>6. CASE /\ value[id] # Nil
               /\ Continue(c, Rest(c), Stored(id), IF keep THEN Append(found[c], id) ELSE found[c])
      <4>1. Stored(id) \in Inputs \cup {Nil} BY <3>6, StoredInput DEF RedisOK
      <4>2. PICK f \in Seq(Ids) : Continue(c, Rest(c), Stored(id), f)
        <5>1. Append(found[c], id) \in Seq(Ids) BY <1>0
        <5> QED BY <1>0, <3>6, <5>1, Zenon
      <4> QED BY <2>2, <2>3, <3>2, <3>3, <4>1, <4>2, ContinueTypes
    <3> QED BY <2>5, <3>4, <3>5, <3>6 DEF GetReply, Recurses
  <2> QED BY <2>1, <2>4, <2>5
<1>2. ASSUME NEW s \in Inputs, Set(c, s) PROVE CallsOK' /\ RedisOK' /\ now' = now
  <2>1. now' = now BY <1>2 DEF Set
  <2>2. Rest(c) \in Seq(Step) /\ ~Idle(c)
    <3>1. CASE Pending(c, "SET", s) BY <3>1, PendingHead DEF Pending
    <3>2. CASE Pending(c, "REPLACE", s) BY <3>2, PendingHead DEF Pending
    <3> QED BY <1>2, <3>1, <3>2 DEF Set
  <2>3. -1 \in {0, -1} OBVIOUS
  <2>4. CASE Answered(c) /\ SetTo(c, s) /\ Continue(c, Rest(c), Nil, found[c])
    BY <1>0, <2>1, <2>2, <2>4, LinkTypes, SetTypes, ContinueTypes
  <2>5. CASE ReplyLost(c) /\ SetTo(c, s) /\ Return(c, -1)
    BY <2>1, <2>3, <2>5, LinkTypes, SetTypes, ReturnTypes
  <2>6. CASE Refused(c) /\ Return(c, -1)
    <3>1. RedisOK' BY <2>6, KeptTypes DEF Refused
    <3> QED BY <2>1, <2>3, <2>6, <3>1, LinkTypes, ReturnTypes
  <2> QED BY <1>2, <2>4, <2>5, <2>6 DEF Set
<1>3. ASSUME NEW s \in Inputs, UpdateMissing(c, s) PROVE CallsOK' /\ RedisOK' /\ now' = now
  <2>1. -1 \in {0, -1} /\ conn' = conn /\ failed' = failed /\ now' = now /\ UNCHANGED redis
        /\ Return(c, -1)
    BY <1>3 DEF UpdateMissing
  <2>2. conn' \in [Clients -> {"up", "down"}] /\ failed' \in BOOLEAN BY <2>1 DEF CallsOK
  <2> QED BY <2>1, <2>2, KeptTypes, ReturnTypes
<1>4. ASSUME NEW s \in Inputs, Sadd(c, s) PROVE CallsOK' /\ RedisOK' /\ now' = now
  <2>1. now' = now BY <1>4 DEF Sadd
  <2>2. Rest(c) \in Seq(Step) /\ ~Idle(c) BY <1>4, PendingHead DEF Sadd, Pending
  <2>3. -1 \in {0, -1} OBVIOUS
  <2>4. CASE Answered(c) /\ AddTo(s) /\ Continue(c, Rest(c), Nil, found[c])
    BY <1>0, <2>1, <2>2, <2>4, LinkTypes, IndexTypes, ContinueTypes
  <2>5. CASE ReplyLost(c) /\ AddTo(s) /\ Return(c, -1)
    BY <2>1, <2>3, <2>5, LinkTypes, IndexTypes, ReturnTypes
  <2>6. CASE Refused(c) /\ Return(c, -1)
    <3>1. RedisOK' BY <2>6, KeptTypes DEF Refused
    <3> QED BY <2>1, <2>3, <2>6, <3>1, LinkTypes, ReturnTypes
  <2> QED BY <1>4, <2>4, <2>5, <2>6 DEF Sadd
<1>5. ASSUME NEW id \in Ids, Del(c, id) PROVE CallsOK' /\ RedisOK' /\ now' = now
  <2>1. now' = now BY <1>5 DEF Del
  <2>2. Rest(c) \in Seq(Step) /\ ~Idle(c) BY <1>5, PendingHead DEF Del, Pending
  <2>3. conn' \in [Clients -> {"up", "down"}] /\ failed' \in BOOLEAN BY <1>5, LinkTypes DEF Del
  <2>4. RedisOK'
    <3>1. CASE Drop(id) BY <3>1, DelTypes
    <3>2. CASE Refused(c) BY <3>2, KeptTypes DEF Refused
    <3> QED BY <1>5, <3>1, <3>2 DEF Del
  <2>5. PICK steps \in Seq(Step) : Continue(c, steps, got[c], found[c])
    <3>1. Do("SREM", id) \in Step BY DEF Do, Step, OnKey
    <3>2. <<>> \o Rest(c) \in Seq(Step) /\ <<Do("SREM", id)>> \o Rest(c) \in Seq(Step) BY <2>2, <3>1
    <3>3. CASE got[c] = Nil BY <1>5, <3>2, <3>3, Zenon DEF Del
    <3>4. CASE got[c] # Nil BY <1>5, <3>2, <3>4, Zenon DEF Del
    <3> QED BY <3>3, <3>4
  <2> QED BY <1>0, <2>1, <2>2, <2>3, <2>4, <2>5, ContinueTypes
<1>6. ASSUME NEW id \in Ids, Srem(c, id) PROVE CallsOK' /\ RedisOK' /\ now' = now
  <2>1. now' = now BY <1>6 DEF Srem
  <2>2. Rest(c) \in Seq(Step) /\ ~Idle(c) BY <1>6, PendingHead DEF Srem, Pending
  <2>3. conn' \in [Clients -> {"up", "down"}] /\ failed' \in BOOLEAN BY <1>6, LinkTypes DEF Srem
  <2>4. RedisOK'
    <3>1. CASE RemoveFrom(c, id) BY <3>1, IndexTypes
    <3>2. CASE Refused(c) BY <3>2, KeptTypes DEF Refused
    <3> QED BY <1>6, <3>1, <3>2 DEF Srem
  <2>5. Continue(c, Rest(c), Nil, found[c]) BY <1>6 DEF Srem
  <2> QED BY <1>0, <2>1, <2>2, <2>3, <2>4, <2>5, ContinueTypes
<1>7. ASSUME NEW u \in Users, Smembers(c, u) PROVE CallsOK' /\ RedisOK' /\ now' = now
  <2>1. now' = now BY <1>7 DEF Smembers
  <2>2. Rest(c) \in Seq(Step) /\ ~Idle(c) BY <1>7, PendingHead DEF Smembers, Pending
  <2>3. CASE Refused(c) /\ Return(c, -1)
    <3>1. RedisOK' /\ -1 \in {0, -1} BY <2>3, KeptTypes DEF Refused
    <3> QED BY <2>1, <2>3, <3>1, LinkTypes, ReturnTypes
  <2>4. CASE /\ Answered(c) /\ UNCHANGED redis
             /\ \E m \in SetToSeqs(index[u]) :
                  Continue(c, [i \in DOMAIN m |-> Do("GET_MEMBER", m[i])] \o Rest(c), Nil, <<>>)
    <3>1. PICK m \in SetToSeqs(index[u]) :
            Continue(c, [i \in DOMAIN m |-> Do("GET_MEMBER", m[i])] \o Rest(c), Nil, <<>>)
      BY <2>4
    <3> DEFINE M == [i \in DOMAIN m |-> Do("GET_MEMBER", m[i])]
    <3>2. m \in Seq(index[u]) /\ index[u] \subseteq Ids BY MembersAll DEF RedisOK, IndexOK
    <3>3. \A i \in DOMAIN m : Do("GET_MEMBER", m[i]) \in Step BY <3>2 DEF Do, Step, OnKey
    <3>4. M \in Seq(Step) BY <3>2, <3>3
    <3>5. Continue(c, M \o Rest(c), Nil, <<>>) BY <3>1
    <3> HIDE DEF M
    <3>6. M \o Rest(c) \in Seq(Step) BY <3>4, <2>2
    <3> QED BY <1>0, <2>1, <2>2, <2>4, <3>5, <3>6, KeptTypes, LinkTypes, ContinueTypes
  <2> QED BY <1>7, <2>3, <2>4 DEF Smembers
<1>8. ASSUME NEW u \in Users, DeleteFound(c, u) PROVE CallsOK' /\ RedisOK' /\ now' = now
  <2>1. now' = now /\ UNCHANGED redis /\ conn' = conn /\ failed' = failed BY <1>8 DEF DeleteFound
  <2>2. todo[c] \in Seq(Step) /\ Rest(c) \in Seq(Step) /\ ~Idle(c)
    BY <1>8, PendingHead DEF DeleteFound, Pending
  <2>3. conn' \in [Clients -> {"up", "down"}] /\ failed' \in BOOLEAN BY <2>1 DEF CallsOK
  <2>4. CASE Continue(c, Rest(c), Nil, <<>>)
    BY <1>0, <2>1, <2>2, <2>3, <2>4, KeptTypes, ContinueTypes
  <2>5. CASE found[c] # <<>> /\ Continue(c, DeleteSteps(Head(found[c])) \o todo[c], Nil, Tail(found[c]))
    <3>1. Head(found[c]) \in Ids /\ Tail(found[c]) \in Seq(Ids) BY <1>0, <2>5
    <3>2. DeleteSteps(Head(found[c])) \o todo[c] \in Seq(Step) BY <2>2, <3>1, KeySteps
    <3> QED BY <1>0, <2>1, <2>2, <2>3, <2>5, <3>1, <3>2, KeptTypes, ContinueTypes
  <2> QED BY <1>8, <2>4, <2>5 DEF DeleteFound
<1>9. ASSUME NEW u \in Users, DelIndex(c, u) PROVE CallsOK' /\ RedisOK' /\ now' = now
  <2>1. now' = now BY <1>9 DEF DelIndex
  <2>2. Rest(c) \in Seq(Step) /\ ~Idle(c) BY <1>9, PendingHead DEF DelIndex, Pending
  <2>3. conn' \in [Clients -> {"up", "down"}] /\ failed' \in BOOLEAN BY <1>9, LinkTypes DEF DelIndex
  <2>4. RedisOK'
    <3>1. CASE Forget(u) BY <3>1, IndexTypes
    <3>2. CASE Refused(c) BY <3>2, KeptTypes DEF Refused
    <3> QED BY <1>9, <3>1, <3>2 DEF DelIndex
  <2>5. Continue(c, Rest(c), Nil, <<>>) BY <1>9 DEF DelIndex
  <2> QED BY <1>0, <2>1, <2>2, <2>3, <2>4, <2>5, ContinueTypes
<1>10. ASSUME NEW id \in Ids, Overflow(c, id) PROVE CallsOK' /\ RedisOK' /\ now' = now
  <2>1. Return(c, -1) /\ -1 \in {0, -1} /\ UNCHANGED <<redis, now>> BY <1>10 DEF Overflow
  <2>2. conn' \in [Clients -> {"up", "down"}] /\ failed' \in BOOLEAN
    BY <1>10 DEF Overflow, CallsOK
  <2> QED BY <2>1, <2>2, KeptTypes, ReturnTypes
<1> QED BY <1>1, <1>2, <1>3, <1>4, <1>5, <1>6, <1>7, <1>8, <1>9, <1>10 DEF Command

\* Time passing keeps the types.
LEMMA TickTypes ==
  ASSUME TypeInv, Tick
  PROVE  TypeInv'
<1> DEFINE due == {id \in Ids : ttl[id] # Nil /\ ttl[id] <= now + 1}
<1>1. /\ value' = [id \in Ids |-> IF id \in due THEN Nil ELSE value[id]]
      /\ ttl' = [id \in Ids |-> IF id \in due THEN Nil ELSE ttl[id]]
      /\ index' = index
      /\ due \in SUBSET Ids
  BY DEF Tick
<1> HIDE DEF due
<1>2. RedisOK' BY <1>1, DropTypes DEF TypeInv
<1>3. CallsOK' BY DEF Tick, TypeInv, CallsOK, locals
<1>4. now' \in 0..MaxTime BY RedisAssumption DEF Tick, TypeInv
<1> QED BY <1>2, <1>3, <1>4 DEF TypeInv

\* Every step keeps the types.
LEMMA TypeNext ==
  ASSUME TypeInv, [Next]_vars
  PROVE  TypeInv'
<1>0. now \in Nat BY RedisAssumption DEF TypeInv
<1>1. ASSUME NEW c \in Clients, Call(c) PROVE TypeInv'
  <2>1. CallsOK' /\ UNCHANGED <<redis, now>> BY <1>1, CallTypes DEF TypeInv
  <2> QED BY <2>1, KeptTypes DEF TypeInv
<1>2. ASSUME NEW c \in Clients, Command(c) PROVE TypeInv'
  BY <1>0, <1>2, CommandTypes DEF TypeInv
<1>3. ASSUME NEW c \in Clients, Restart(c) PROVE TypeInv'
  <2>1. Return(c, -1) /\ -1 \in {0, -1} /\ UNCHANGED <<redis, now>> BY <1>3 DEF Restart
  <2>2. conn' \in [Clients -> {"up", "down"}] /\ failed' \in BOOLEAN
    BY <1>3 DEF Restart, TypeInv, CallsOK
  <2> QED BY <2>1, <2>2, KeptTypes, ReturnTypes DEF TypeInv
<1>4. CASE Tick BY <1>4, TickTypes
<1>5. CASE UNCHANGED vars
  <2>1. UNCHANGED <<redis, now, conn, fn, todo, locals, rc, scope, deleted, failed>> BY <1>5 DEF vars
  <2>2. RedisOK' BY <2>1, KeptTypes DEF TypeInv
  <2>3. CallsOK' BY <2>1 DEF TypeInv, CallsOK, locals
  <2> QED BY <2>1, <2>2, <2>3 DEF TypeInv
<1> QED BY <1>1, <1>2, <1>3, <1>4, <1>5 DEF Next

\* The types hold at the start.
LEMMA TypeInit ==
  ASSUME Init
  PROVE  TypeInv
<1>1. ValuesOK BY DEF Init, ValuesOK
<1>2. TtlOK BY DEF Init, TtlOK
<1>3. IndexOK BY FS_EmptySet DEF Init, IndexOK
<1>4. CallsOK
  <2>1. /\ conn \in [Clients -> {"up", "down"}] /\ fn \in [Clients -> Functions \cup {"none"}]
        /\ todo \in [Clients -> Seq(Step)] /\ found \in [Clients -> Seq(Ids)]
    BY DEF Init
  <2>2. /\ got \in [Clients -> Inputs \cup {Nil}] /\ rc \in [Clients -> {0, -1}]
        /\ scope \in [Clients -> SUBSET Ids] /\ deleted \subseteq Ids
    BY DEF Init
  <2>3. failed \in BOOLEAN BY Zenon DEF Init
  <2>4. \A c \in Clients : (todo[c] = <<>>) <=> (fn[c] = "none") BY DEF Init
  <2> QED BY <2>1, <2>2, <2>3, <2>4 DEF CallsOK
<1>5. now \in 0..MaxTime BY RedisAssumption DEF Init
<1> QED BY <1>1, <1>2, <1>3, <1>4, <1>5 DEF TypeInv, RedisOK

\* The types of the proofs give those of the run.
LEMMA TypesAgree ==
  ASSUME TypeInv
  PROVE  RedisTypeOK
<1>1. \A id \in Ids : value[id] # Nil => Stored(id) \in Inputs /\ Stored(id).id = id
  BY StoredInput DEF TypeInv, RedisOK
<1>2. \A id \in Ids : (ttl[id] # Nil) <=> (value[id] # Nil /\ Stored(id).expires_at # Nil)
  BY DEF TypeInv, RedisOK, TtlOK
<1>3. index \in [Users -> SUBSET Ids] BY DEF TypeInv, RedisOK, IndexOK
<1>4. /\ conn \in [Clients -> {"up", "down"}]
      /\ fn \in [Clients -> Functions \cup {"none"}]
      /\ \A c \in Clients : Idle(c) <=> fn[c] = "none"
      /\ rc \in [Clients -> {0, -1}]
  BY DEF TypeInv, CallsOK, Idle
<1>5. now \in 0..MaxTime BY DEF TypeInv
<1> QED BY <1>1, <1>2, <1>3, <1>4, <1>5 DEF RedisTypeOK

\* Every reachable state has the types the proofs use.
THEOREM RedisInvariant == Spec => []TypeInv
<1>1. Init => TypeInv BY TypeInit
<1>2. TypeInv /\ [Next]_vars => TypeInv' BY TypeNext
<1> QED BY <1>1, <1>2, PTL DEF Spec

\* Whatever number of clients sends commands, and whichever of them fail or are
\* answered too late: what a get reads back is a session that a caller passed to
\* create or update under this identifier, and a key has a time to live exactly
\* if its session expires.
THEOREM RedisTypeCorrect == Spec => []RedisTypeOK
<1>1. TypeInv => RedisTypeOK BY TypesAgree
<1> QED BY <1>1, RedisInvariant, PTL

-----------------------------------------------------------------------------
(* How long a value outlives its session.                                   *)

\* A key is dropped within a second or, by the clock of the client that set it,
\* when its session expires.
TtlFits ==
  \A id \in Ids :
    value[id] # Nil /\ ttl[id] # Nil =>
      ttl[id] = now + 1 \/ \E d \in Clients : ttl[id] = Stored(id).expires_at - Ahead[d]

\* A command leaves the keys alone, deletes one or sets one.
LEMMA CommandWrites ==
  ASSUME NEW c \in Clients, Command(c)
  PROVE  \/ UNCHANGED <<value, ttl>>
         \/ \E id \in Ids : Drop(id)
         \/ \E s \in Inputs : SetTo(c, s)
<1>1. CASE \E id \in Ids : Get(c, id) BY <1>1 DEF Get, GetReply, Refused, redis
<1>2. CASE \E id \in Ids : Overflow(c, id) BY <1>2 DEF Overflow, redis
<1>3. CASE \E s \in Inputs : Set(c, s) BY <1>3 DEF Set, Refused, redis
<1>4. CASE \E s \in Inputs : UpdateMissing(c, s) BY <1>4 DEF UpdateMissing, redis
<1>5. CASE \E s \in Inputs : Sadd(c, s) BY <1>5 DEF Sadd, AddTo, Refused, redis
<1>6. CASE \E id \in Ids : Del(c, id) BY <1>6 DEF Del, Refused, redis
<1>7. CASE \E id \in Ids : Srem(c, id) BY <1>7 DEF Srem, RemoveFrom, Refused, redis
<1>8. CASE \E u \in Users : Smembers(c, u) BY <1>8 DEF Smembers, Refused, redis
<1>9. CASE \E u \in Users : DeleteFound(c, u) BY <1>9 DEF DeleteFound, redis
<1>10. CASE \E u \in Users : DelIndex(c, u) BY <1>10 DEF DelIndex, Forget, Refused, redis
<1> QED BY <1>1, <1>2, <1>3, <1>4, <1>5, <1>6, <1>7, <1>8, <1>9, <1>10 DEF Command

\* A key that stays as it is keeps fitting while the clock stands.
LEMMA FitsKept ==
  ASSUME TtlFits, NEW id \in Ids, now' = now,
         value'[id] = value[id], ttl'[id] = ttl[id], value'[id] # Nil, ttl'[id] # Nil
  PROVE  ttl'[id] = now' + 1 \/ \E d \in Clients : ttl'[id] = (Stored(id))'.expires_at - Ahead[d]
<1>1. (Stored(id))' = Stored(id) BY DEF Stored
<1> QED BY <1>1 DEF TtlFits

\* SET gives the key a second, or what is left by the client's clock.
LEMMA FitsSet ==
  ASSUME TypeInv, TtlFits, now' = now, NEW c \in Clients, NEW s \in Inputs, SetTo(c, s)
  PROVE  TtlFits'
<1>1. now \in Nat BY RedisAssumption DEF TypeInv
<1>2. /\ value'[s.id] # Nil /\ (Stored(s.id))' = s
      /\ \A id \in Ids : id # s.id => value'[id] = value[id]
  BY <1>1, SetTypes DEF TypeInv
<1>3. s.id \in Ids /\ s.expires_at \in Nat \cup {Nil} BY InputFields
<1>4. /\ ttl'[s.id] = DropAt(c, s)
      /\ \A id \in Ids : id # s.id => ttl'[id] = ttl[id]
  BY <1>3 DEF SetTo, TypeInv, RedisOK, TtlOK
<1>5. ASSUME DropAt(c, s) # Nil
      PROVE  DropAt(c, s) = now + 1 \/ DropAt(c, s) = s.expires_at - Ahead[c]
  <2>1. Ahead[c] \in Nat /\ Nil \notin Nat BY RedisAssumption, NilJsonAssumption
  <2>2. s.expires_at \in Nat BY <1>3, <1>5 DEF DropAt
  <2> QED BY <1>1, <2>1, <2>2, <1>5 DEF DropAt
<1> SUFFICES ASSUME NEW id \in Ids, value'[id] # Nil, ttl'[id] # Nil
             PROVE  ttl'[id] = now' + 1 \/ \E d \in Clients : ttl'[id] = (Stored(id))'.expires_at - Ahead[d]
  BY DEF TtlFits
<1>6. CASE id = s.id BY <1>2, <1>4, <1>5, <1>6
<1>7. CASE id # s.id BY <1>2, <1>4, <1>7, FitsKept
<1> QED BY <1>6, <1>7

\* DEL and expiry leave the other keys as they are.
LEMMA FitsDrop ==
  ASSUME TypeInv, TtlFits, now' = now, NEW x \in Ids, Drop(x)
  PROVE  TtlFits'
<1> SUFFICES ASSUME NEW id \in Ids, value'[id] # Nil, ttl'[id] # Nil
             PROVE  ttl'[id] = now' + 1 \/ \E d \in Clients : ttl'[id] = (Stored(id))'.expires_at - Ahead[d]
  BY DEF TtlFits
<1>1. id # x /\ value'[id] = value[id] /\ ttl'[id] = ttl[id]
  BY DEF Drop, TypeInv, RedisOK, ValuesOK, TtlOK
<1> QED BY <1>1, FitsKept

\* A tick drops what has a second left.
LEMMA FitsTick ==
  ASSUME TypeInv, TtlFits, Tick
  PROVE  TtlFits'
<1> SUFFICES ASSUME NEW id \in Ids, value'[id] # Nil, ttl'[id] # Nil
             PROVE  ttl'[id] = now' + 1 \/ \E d \in Clients : ttl'[id] = (Stored(id))'.expires_at - Ahead[d]
  BY DEF TtlFits
<1>1. now \in Nat /\ ttl[id] \in Nat \cup {Nil} BY RedisAssumption DEF TypeInv, RedisOK, TtlOK
<1>2. value'[id] = value[id] /\ ttl'[id] = ttl[id] /\ ~(ttl[id] <= now + 1)
  BY DEF Tick
<1>3. ttl[id] \in Nat /\ ttl[id] # now + 1 BY <1>1, <1>2
<1>4. (Stored(id))' = Stored(id) BY <1>2 DEF Stored
<1>5. value[id] # Nil /\ ttl[id] # Nil BY <1>2
<1>6. \E d \in Clients : ttl[id] = Stored(id).expires_at - Ahead[d] BY <1>3, <1>5 DEF TtlFits
<1> QED BY <1>2, <1>4, <1>6

\* Every step keeps the keys' times fitting.
LEMMA FitsNext ==
  ASSUME TypeInv, TtlFits, [Next]_vars
  PROVE  TtlFits'
<1>1. ASSUME UNCHANGED <<value, ttl, now>> PROVE TtlFits' BY <1>1 DEF TtlFits, Stored
<1>2. ASSUME NEW c \in Clients, Call(c) PROVE TtlFits'
  BY <1>1, <1>2 DEF Call, Begin, redis
<1>3. ASSUME NEW c \in Clients, Command(c) PROVE TtlFits'
  <2>1. now' = now BY <1>3, CommandTypes, RedisAssumption DEF TypeInv
  <2> QED BY <1>1, <1>3, <2>1, CommandWrites, FitsDrop, FitsSet
<1>4. ASSUME NEW c \in Clients, Restart(c) PROVE TtlFits'
  BY <1>1, <1>4 DEF Restart, redis
<1>5. CASE UNCHANGED vars BY <1>1, <1>5 DEF vars, redis
<1> QED BY <1>2, <1>3, <1>4, <1>5, FitsTick DEF Next

\* For any number of clients, clocks and failures: what redis_get takes for
\* expired and recurses on is dropped by Redis within a second, or sooner than
\* the clocks of two clients are apart.
THEOREM RecursionIsShort == Spec => []ExpiredIsShortLived
<1>1. Init => TtlFits BY DEF Init, TtlFits
<1>2. TypeInv /\ TtlFits /\ [Next]_vars => TtlFits' BY FitsNext
<1>3. TypeInv /\ TtlFits => ExpiredIsShortLived
  <2> SUFFICES ASSUME TypeInv, TtlFits, NEW c \in Clients, NEW id \in Ids,
                      Recurses(c, id), ttl[id] # Nil, ttl[id] # now + 1
               PROVE  \E d \in Clients : ttl[id] < now + (Ahead[c] - Ahead[d])
    BY DEF ExpiredIsShortLived
  <2>1. value[id] # Nil BY DEF Recurses
  <2>2. PICK d \in Clients : ttl[id] = Stored(id).expires_at - Ahead[d] BY <2>1 DEF TtlFits
  <2>3. Stored(id) \in Inputs BY <2>1, StoredInput DEF TypeInv, RedisOK
  <2>4. Stored(id).expires_at \in Nat BY <2>1, <2>3, InputFields DEF TypeInv, RedisOK, TtlOK
  <2>5. now \in Nat /\ Ahead[c] \in Nat /\ Ahead[d] \in Nat BY RedisAssumption DEF TypeInv
  <2>6. Stored(id).expires_at < now + Ahead[c]
    BY <2>4, <2>5 DEF Recurses, is_expired, IsExpired
  <2> QED BY <2>2, <2>4, <2>5, <2>6
<1> QED BY <1>1, <1>2, <1>3, RedisInvariant, PTL DEF Spec

-----------------------------------------------------------------------------
(* Which commands follow which.                                             *)

\* A command is of one kind.
LEMMA StepKinds ==
  ASSUME NEW x \in Step
  PROVE  /\ x \in OnKey <=> x.cmd \in {"GET", "GET_MEMBER", "DEL", "SREM"}
         /\ x.cmd \in {"GET", "GET_MEMBER", "DEL", "SREM", "SMEMBERS", "DELETE_FOUND", "DEL_INDEX",
                       "SET", "REPLACE", "SADD"}
         /\ x.cmd \in {"GET", "GET_MEMBER", "DEL", "SREM"} => x.arg \in Ids
         /\ x.cmd \in {"SET", "REPLACE", "SADD"} => x.arg \in Inputs
BY DEF Step, OnKey, OnUser, OnSession

\* The head of a planned list says which function it is of and what is left.
LEMMA PlannedHead ==
  ASSUME NEW f \in Functions, NEW T \in Seq(Step), T # <<>>, Planned(f, T)
  PROVE  /\ T[1].cmd = "SET" => f = "create" /\ Len(T) = 2 /\ T[2] = Do("SADD", T[1].arg)
         /\ T[1].cmd = "REPLACE" => f = "update" /\ Len(T) = 2 /\ T[2] = Do("SADD", T[1].arg)
         /\ T[1].cmd = "SADD" => f \in {"create", "update"} /\ Len(T) = 1
         /\ T[1].cmd = "SMEMBERS" =>
              \/ f = "get_by_user_id" /\ Len(T) = 1
              \/ /\ f = "delete_by_user_id" /\ Len(T) = 3 /\ T[3].arg = T[1].arg
                 /\ T[2].cmd = "DELETE_FOUND" /\ T[3].cmd = "DEL_INDEX"
         /\ T[1].cmd = "DELETE_FOUND" =>
              f = "delete_by_user_id" /\ Len(T) = 2 /\ T[2] = Do("DEL_INDEX", T[1].arg)
         /\ T[1].cmd = "DEL_INDEX" => f = "delete_by_user_id" /\ Len(T) = 1
         /\ T[1].cmd \in {"GET", "GET_MEMBER", "DEL", "SREM"} =>
              f # "create" /\ (f \in {"update", "delete_by_user_id"} => Len(T) >= 3)
         /\ T[1].cmd = "GET_MEMBER" => f \in {"get_by_user_id", "delete_by_user_id"}
<1>1. Len(T) \in Nat /\ Len(T) >= 1 /\ DOMAIN T = 1..Len(T) /\ 1 \in DOMAIN T OBVIOUS
<1>2. \A i \in 1..Len(T) : T[i] \in Step OBVIOUS
<1>3. \A i \in 1..Len(T) :
        /\ T[i] \in OnKey <=> T[i].cmd \in {"GET", "GET_MEMBER", "DEL", "SREM"}
        /\ T[i].cmd \in {"SET", "REPLACE", "SADD"} => T[i].arg \in Inputs
  BY <1>2, StepKinds
<1>4. \A cmd, arg : Do(cmd, arg).cmd = cmd /\ Do(cmd, arg).arg = arg BY DEF Do
<1>5. ASSUME NEW x \in Step PROVE x = Do(x.cmd, x.arg)
  BY DEF Step, OnKey, OnUser, OnSession, Do
<1>6. CASE f \in {"get", "delete"}
  BY <1>1, <1>6 DEF Planned
<1>7. CASE f = "get_by_user_id"
  BY <1>1, <1>3, <1>7 DEF Planned
<1>8. CASE f = "create"
  <2>1. /\ Len(T) <= 2 /\ T[Len(T)].cmd = "SADD" /\ (Len(T) = 2 => T[1] = Do("SET", T[2].arg))
    BY <1>8 DEF Planned
  <2>2. CASE Len(T) = 1 BY <1>8, <2>1, <2>2
  <2>3. CASE Len(T) = 2
    <3>1. T[2] = Do("SADD", T[2].arg) BY <1>2, <1>5, <2>1, <2>3
    <3> QED BY <1>4, <1>8, <2>1, <2>3, <3>1
  <2> QED BY <1>1, <2>1, <2>2, <2>3
<1>9. CASE f = "update"
  <2>1. /\ T[Len(T)].cmd = "SADD" /\ (Len(T) >= 2 => T[Len(T) - 1] = Do("REPLACE", T[Len(T)].arg))
        /\ \A i \in 1..(Len(T) - 2) : T[i].cmd \in {"GET", "DEL", "SREM"}
    BY <1>9 DEF Planned
  <2>2. CASE Len(T) = 1 BY <1>9, <2>1, <2>2
  <2>3. CASE Len(T) = 2
    <3>1. T[2] = Do("SADD", T[2].arg) BY <1>2, <1>5, <2>1, <2>3
    <3> QED BY <1>4, <1>9, <2>1, <2>3, <3>1
  <2>4. CASE Len(T) >= 3
    <3>1. T[1].cmd \in {"GET", "DEL", "SREM"} BY <1>1, <2>1, <2>4
    <3> QED BY <1>9, <2>4, <3>1
  <2> QED BY <1>1, <2>2, <2>3, <2>4
<1>10. CASE f = "delete_by_user_id"
  <2>1. /\ T[Len(T)].cmd = "DEL_INDEX" /\ (Len(T) >= 2 => T[Len(T) - 1] = Do("DELETE_FOUND", T[Len(T)].arg))
        /\ \A i \in 1..(Len(T) - 2) :
             T[i] \in OnKey \/ (Len(T) = 3 /\ T[i] = Do("SMEMBERS", T[Len(T)].arg))
    BY <1>10 DEF Planned
  <2>2. CASE Len(T) = 1 BY <1>10, <2>1, <2>2
  <2>3. CASE Len(T) = 2
    <3>1. T[2] = Do("DEL_INDEX", T[2].arg) BY <1>2, <1>5, <2>1, <2>3
    <3> QED BY <1>4, <1>10, <2>1, <2>3, <3>1
  <2>4. CASE Len(T) >= 3
    <3>1. T[1] \in OnKey \/ (Len(T) = 3 /\ T[1] = Do("SMEMBERS", T[3].arg)) BY <1>1, <2>1, <2>4
    <3>2. CASE T[1] \in OnKey BY <1>1, <1>3, <1>10, <2>4, <3>2
    <3>3. CASE Len(T) = 3 /\ T[1] = Do("SMEMBERS", T[3].arg)
      <4>1. T[2] = Do("DELETE_FOUND", T[3].arg) BY <2>1, <3>3
      <4> QED BY <1>4, <1>10, <2>1, <3>3, <4>1
    <3> QED BY <3>1, <3>2, <3>3
  <2> QED BY <1>1, <2>2, <2>3, <2>4
<1> QED BY <1>6, <1>7, <1>8, <1>9, <1>10 DEF Functions

\* Sending the first command leaves a planned list.
LEMMA PlannedTail ==
  ASSUME NEW f, NEW T \in Seq(Step), T # <<>>, Planned(f, T)
  PROVE  Planned(f, Tail(T)) /\ \A i \in DOMAIN Tail(T) : Tail(T)[i].cmd # "SREM"
<1> DEFINE R == Tail(T)
<1>1. R \in Seq(Step) /\ Len(R) = Len(T) - 1 /\ DOMAIN R = 1..(Len(T) - 1) OBVIOUS
<1>2. \A i \in 1..(Len(T) - 1) : R[i] = T[i + 1] OBVIOUS
<1>3. Len(T) \in Nat /\ Len(T) >= 1 /\ DOMAIN T = 1..Len(T) OBVIOUS
<1> HIDE DEF R
<1>3a. R # <<>> => Len(T) >= 2 BY <1>1, <1>3
<1>3b. \A i \in DOMAIN R : i + 1 \in DOMAIN T /\ i + 1 # 1 /\ R[i] = T[i + 1] BY <1>1, <1>2, <1>3
<1> SUFFICES Planned(f, R) /\ \A i \in DOMAIN R : R[i].cmd # "SREM" BY DEF R
<1>4. f \in {"get", "delete"} => \A i \in DOMAIN R : R[i].cmd \in {"GET", "DEL", "SREM"}
  BY <1>3b DEF Planned
<1>5. f = "get_by_user_id" => \A i \in DOMAIN R : R[i] \in OnKey
  BY <1>1, <1>2, <1>3 DEF Planned
<1>6. \A i \in DOMAIN R : R[i].cmd # "SREM" BY <1>3b DEF Planned
<1>7. f = "create" /\ R # <<>> =>
        Len(R) <= 2 /\ R[Len(R)].cmd = "SADD" /\ (Len(R) = 2 => R[1] = Do("SET", R[2].arg))
  BY <1>1, <1>2, <1>3, <1>3a DEF Planned
<1>8. f = "update" /\ R # <<>> =>
       /\ R[Len(R)].cmd = "SADD"
       /\ Len(R) >= 2 => R[Len(R) - 1] = Do("REPLACE", R[Len(R)].arg)
       /\ \A i \in 1..(Len(R) - 2) :
            R[i].cmd \in {"GET", "DEL", "SREM"} /\ R[i].arg = R[Len(R)].arg.id
  <2> SUFFICES ASSUME f = "update", R # <<>>
               PROVE  /\ R[Len(R)].cmd = "SADD"
                      /\ Len(R) >= 2 => R[Len(R) - 1] = Do("REPLACE", R[Len(R)].arg)
                      /\ \A i \in 1..(Len(R) - 2) :
                           R[i].cmd \in {"GET", "DEL", "SREM"} /\ R[i].arg = R[Len(R)].arg.id
    OBVIOUS
  <2>1. /\ T[Len(T)].cmd = "SADD"
        /\ Len(T) >= 2 => T[Len(T) - 1] = Do("REPLACE", T[Len(T)].arg)
        /\ \A i \in 1..(Len(T) - 2) :
             T[i].cmd \in {"GET", "DEL", "SREM"} /\ T[i].arg = T[Len(T)].arg.id
    BY DEF Planned
  <2>2. R[Len(R)] = T[Len(T)] BY <1>1, <1>2, <1>3, <1>3a
  <2>3. Len(R) >= 2 => R[Len(R) - 1] = T[Len(T) - 1] BY <1>1, <1>2, <1>3
  <2>4. \A i \in 1..(Len(R) - 2) : R[i] = T[i + 1] /\ i + 1 \in 1..(Len(T) - 2) BY <1>1, <1>2, <1>3
  <2>5. Len(R) >= 2 => R[Len(R) - 1] = Do("REPLACE", R[Len(R)].arg) BY <1>1, <1>3, <2>1, <2>2, <2>3
  <2>6. \A i \in 1..(Len(R) - 2) : R[i].cmd \in {"GET", "DEL", "SREM"} /\ R[i].arg = R[Len(R)].arg.id
    <3> TAKE i \in 1..(Len(R) - 2)
    <3> DEFINE k == i + 1
    <3>1. R[i] = T[k] /\ k \in 1..(Len(T) - 2) BY <2>4
    <3> HIDE DEF k
    <3> QED BY <2>1, <2>2, <3>1
  <2> QED BY <2>1, <2>2, <2>5, <2>6
<1>9. f = "delete_by_user_id" /\ R # <<>> =>
       /\ R[Len(R)].cmd = "DEL_INDEX"
       /\ Len(R) >= 2 => R[Len(R) - 1] = Do("DELETE_FOUND", R[Len(R)].arg)
       /\ \A i \in 1..(Len(R) - 2) :
            R[i] \in OnKey \/ (Len(R) = 3 /\ R[i] = Do("SMEMBERS", R[Len(R)].arg))
  BY <1>1, <1>2, <1>3, <1>3a DEF Planned
<1> QED BY <1>4, <1>5, <1>6, <1>7, <1>8, <1>9 DEF Planned

\* An empty list has no commands.
LEMMA NonEmpty ==
  ASSUME NEW S, NEW T \in Seq(S)
  PROVE  T # <<>> <=> Len(T) >= 1
OBVIOUS

\* What is left of a list after its first command.
LEMMA TailFacts ==
  ASSUME NEW T \in Seq(Step), T # <<>>
  PROVE  /\ Tail(T) \in Seq(Step)
         /\ Len(T) \in Nat /\ Len(T) >= 1 /\ DOMAIN T = 1..Len(T)
         /\ Len(Tail(T)) = Len(T) - 1 /\ DOMAIN Tail(T) = 1..(Len(T) - 1)
         /\ \A i \in 1..(Len(T) - 1) : Tail(T)[i] = T[i + 1]
         /\ Len(T) = 1 => Tail(T) = <<>>
         /\ Len(T) = 2 => Tail(T) # <<>> /\ Len(Tail(T)) = 1 /\ Tail(T)[1] = T[2]
<1> DEFINE R == Tail(T)
<1>1. /\ R \in Seq(Step) /\ Len(T) \in Nat /\ Len(T) >= 1 /\ DOMAIN T = 1..Len(T)
      /\ Len(R) = Len(T) - 1 /\ DOMAIN R = 1..(Len(T) - 1)
  OBVIOUS
<1>2. \A i \in 1..(Len(T) - 1) : R[i] = T[i + 1] OBVIOUS
<1> HIDE DEF R
<1>3. Len(T) = 1 => R = <<>> BY <1>1
<1>4. Len(T) = 2 => R # <<>> /\ Len(R) = 1 /\ R[1] = T[2] BY <1>1, <1>2
<1> QED BY <1>1, <1>2, <1>3, <1>4 DEF R

\* The places of Q, which is P put in front of R.
Joined(P, R, Q) ==
  /\ Q \in Seq(Step)
  /\ Len(P) \in Nat /\ Len(R) \in Nat
  /\ Len(Q) = Len(P) + Len(R) /\ DOMAIN Q = 1..(Len(P) + Len(R))
  /\ DOMAIN P = 1..Len(P) /\ DOMAIN R = 1..Len(R)
  /\ \A i \in DOMAIN P : i \in DOMAIN Q /\ Q[i] = P[i]
  /\ \A j \in DOMAIN R : j + Len(P) \in DOMAIN Q /\ Q[j + Len(P)] = R[j]
  /\ \A i \in DOMAIN Q : i \in DOMAIN P \/ \E j \in DOMAIN R : i = j + Len(P)
  /\ R # <<>> => Q[Len(Q)] = R[Len(R)]

\* Concatenation puts one list in front of another.
LEMMA Concat ==
  ASSUME NEW P \in Seq(Step), NEW R \in Seq(Step)
  PROVE  Joined(P, R, P \o R)
<1>1. P \o R \in Seq(Step) /\ Len(P) \in Nat /\ Len(R) \in Nat /\ Len(P \o R) = Len(P) + Len(R)
      /\ DOMAIN P = 1..Len(P) /\ DOMAIN R = 1..Len(R) /\ DOMAIN (P \o R) = 1..(Len(P) + Len(R))
  OBVIOUS
<1>2. \A i \in DOMAIN P : i \in DOMAIN (P \o R) /\ (P \o R)[i] = P[i] BY <1>1
<1>3. \A j \in DOMAIN R : j + Len(P) \in DOMAIN (P \o R) /\ (P \o R)[j + Len(P)] = R[j] BY <1>1
<1>4. ASSUME NEW i \in DOMAIN (P \o R), i \notin DOMAIN P
      PROVE  \E j \in DOMAIN R : i = j + Len(P)
  <2>1. i - Len(P) \in DOMAIN R /\ i = (i - Len(P)) + Len(P) BY <1>1, <1>4
  <2> QED BY <2>1
<1>5. R # <<>> => Len(R) \in DOMAIN R BY <1>1
<1> QED BY <1>1, <1>2, <1>3, <1>4, <1>5 DEF Joined

\* So does putting a deletion in front, where a command on the same key was.
LEMMA PlannedPush ==
  ASSUME NEW f \in Functions, NEW T \in Seq(Step), T # <<>>, Planned(f, T),
         T[1].cmd \in {"GET", "GET_MEMBER", "DEL"},
         NEW P \in Seq(Step), P # <<>>,
         \A i \in DOMAIN P : /\ P[i].cmd \in {"GET", "DEL", "SREM"} /\ P[i].arg = T[1].arg
                             /\ P[i].cmd = "SREM" => i = 1
  PROVE  Planned(f, P \o Tail(T))
<1> DEFINE R == Tail(T)
           Q == P \o R
<1>1. R \in Seq(Step) /\ Len(R) = Len(T) - 1 /\ Len(T) \in Nat /\ Len(T) >= 1 /\ 1 \in DOMAIN T
      /\ DOMAIN T = 1..Len(T)
  OBVIOUS
<1>2. Planned(f, R) /\ \A i \in DOMAIN R : R[i].cmd # "SREM" BY PlannedTail
<1>3. \A i \in 1..(Len(T) - 1) : R[i] = T[i + 1] OBVIOUS
<1>4. /\ f # "create"
      /\ f \in {"update", "delete_by_user_id"} => Len(T) >= 3
      /\ f \in {"get", "delete"} => T[1].cmd # "GET_MEMBER"
  BY PlannedHead
<1>5. \A i \in DOMAIN P : P[i] \in OnKey
  <2> TAKE i \in DOMAIN P
  <2>1. P[i] \in Step OBVIOUS
  <2> QED BY <2>1, StepKinds
<1> HIDE DEF R
<1> SUFFICES Planned(f, Q) BY DEF R
<1>6j. Joined(P, R, Q) BY <1>1, Concat
<1> HIDE DEF Q
<1>6. /\ Len(P) \in Nat /\ Len(R) \in Nat
      /\ Len(Q) = Len(P) + Len(R) /\ DOMAIN Q = 1..(Len(P) + Len(R))
      /\ DOMAIN P = 1..Len(P) /\ DOMAIN R = 1..Len(R)
      /\ \A i \in DOMAIN P : i \in DOMAIN Q /\ Q[i] = P[i]
      /\ \A j \in DOMAIN R : j + Len(P) \in DOMAIN Q /\ Q[j + Len(P)] = R[j]
      /\ \A i \in DOMAIN Q : i \in DOMAIN P \/ \E j \in DOMAIN R : i = j + Len(P)
      /\ R # <<>> => Q[Len(Q)] = R[Len(R)]
  BY <1>6j DEF Joined
<1>6a. Len(P) >= 1 /\ Q # <<>> /\ Len(Q) >= 1 BY <1>6, <1>6j, NonEmpty DEF Joined
<1>7. \A i \in DOMAIN Q : Q[i].cmd = "SREM" => i = 1 BY <1>2, <1>6
<1>8. f \in {"get", "delete"} => \A i \in DOMAIN Q : Q[i].cmd \in {"GET", "DEL", "SREM"}
  BY <1>2, <1>6 DEF Planned
<1>9. f = "get_by_user_id" => \A i \in DOMAIN Q : Q[i] \in OnKey
  <2> SUFFICES ASSUME f = "get_by_user_id" PROVE \A i \in DOMAIN Q : Q[i] \in OnKey OBVIOUS
  <2>1. \A i \in DOMAIN T : T[i] \in OnKey
    BY <1>1 DEF Planned
  <2>2. \A j \in DOMAIN R : R[j] = T[j + 1] /\ j + 1 \in DOMAIN T BY <1>1, <1>3, <1>6
  <2> QED BY <1>5, <1>6, <2>1, <2>2
<1>10. ASSUME f \in {"update", "delete_by_user_id"}
       PROVE  /\ Len(R) >= 2 /\ R # <<>> /\ Len(Q) >= 3
              /\ Q[Len(Q)] = R[Len(R)] /\ Q[Len(Q) - 1] = R[Len(R) - 1]
  <2>1. Len(R) >= 2 /\ R # <<>> BY <1>1, <1>4, <1>10
  <2> DEFINE k == Len(R) - 1
  <2>2. k \in DOMAIN R /\ k + Len(P) = Len(Q) - 1 BY <1>6, <2>1
  <2> HIDE DEF k
  <2>3. Q[Len(Q) - 1] = R[k] BY <1>6, <2>2
  <2>4. Len(Q) >= 3 BY <1>6, <1>6a, <2>1
  <2> QED BY <1>6, <2>1, <2>3, <2>4 DEF k
<1>11. ASSUME f = "update"
       PROVE  /\ Q[Len(Q)].cmd = "SADD"
              /\ Q[Len(Q) - 1] = Do("REPLACE", Q[Len(Q)].arg)
              /\ \A i \in 1..(Len(Q) - 2) :
                   Q[i].cmd \in {"GET", "DEL", "SREM"} /\ Q[i].arg = Q[Len(Q)].arg.id
  <2>1. /\ R[Len(R)].cmd = "SADD" /\ R[Len(R) - 1] = Do("REPLACE", R[Len(R)].arg)
        /\ \A i \in 1..(Len(R) - 2) :
             R[i].cmd \in {"GET", "DEL", "SREM"} /\ R[i].arg = R[Len(R)].arg.id
    BY <1>2, <1>10, <1>11 DEF Planned
  <2>2. T[1].arg = R[Len(R)].arg.id
    <3>1. 1 \in 1..(Len(T) - 2) /\ R[Len(R)] = T[Len(T)] BY <1>1, <1>3, <1>4, <1>11
    <3> QED BY <3>1, <1>11 DEF Planned
  <2>3. ASSUME NEW i \in 1..(Len(Q) - 2)
        PROVE  Q[i].cmd \in {"GET", "DEL", "SREM"} /\ Q[i].arg = Q[Len(Q)].arg.id
    <3>1. i \in DOMAIN Q BY <1>6
    <3>2. CASE i \in DOMAIN P BY <1>6, <1>10, <1>11, <2>2, <3>2
    <3>3. ASSUME NEW j \in DOMAIN R, i = j + Len(P)
          PROVE  Q[i].cmd \in {"GET", "DEL", "SREM"} /\ Q[i].arg = Q[Len(Q)].arg.id
      <4>1. j \in 1..(Len(R) - 2) /\ Q[i] = R[j] BY <1>6, <3>3
      <4> QED BY <1>10, <1>11, <2>1, <4>1
    <3> QED BY <1>6, <3>1, <3>2, <3>3
  <2> QED BY <1>10, <1>11, <2>1, <2>3
<1>12. ASSUME f = "delete_by_user_id"
       PROVE  /\ Q[Len(Q)].cmd = "DEL_INDEX"
              /\ Q[Len(Q) - 1] = Do("DELETE_FOUND", Q[Len(Q)].arg)
              /\ \A i \in 1..(Len(Q) - 2) : Q[i] \in OnKey
  <2>1. R[Len(R)].cmd = "DEL_INDEX" /\ R[Len(R) - 1] = Do("DELETE_FOUND", R[Len(R)].arg)
    BY <1>2, <1>10, <1>12 DEF Planned
  <2>2. \A i \in 1..(Len(R) - 2) : R[i] \in OnKey
    <3> TAKE i \in 1..(Len(R) - 2)
    <3> DEFINE k == i + 1
    <3>1. k \in 1..(Len(T) - 2) /\ Len(T) # 3 BY <1>1
    <3>2. i \in 1..(Len(T) - 1) BY <1>1
    <3>3. R[i] = T[k] BY <1>3, <3>2
    <3> HIDE DEF k
    <3> QED BY <1>12, <3>1, <3>3 DEF Planned
  <2>3. ASSUME NEW i \in 1..(Len(Q) - 2) PROVE Q[i] \in OnKey
    <3>1. i \in DOMAIN Q BY <1>6
    <3>2. CASE i \in DOMAIN P BY <1>5, <1>6, <3>2
    <3>3. ASSUME NEW j \in DOMAIN R, i = j + Len(P) PROVE Q[i] \in OnKey
      <4>1. j \in 1..(Len(R) - 2) /\ Q[i] = R[j] BY <1>6, <3>3
      <4> QED BY <2>2, <4>1
    <3> QED BY <1>6, <3>1, <3>2, <3>3
  <2> QED BY <1>10, <1>12, <2>1, <2>3
<1> QED BY <1>4, <1>7, <1>8, <1>9, <1>10, <1>11, <1>12 DEF Planned

\* In the loops of redis_get_by_user_id and redis_delete_by_user_id, commands on
\* keys come before what is left of the call.
LEMMA PlannedLoop ==
  ASSUME NEW f \in {"get_by_user_id", "delete_by_user_id"},
         NEW R \in Seq(Step), Planned(f, R),
         f = "get_by_user_id" => R = <<>>,
         f = "delete_by_user_id" => Len(R) = 2,
         NEW P \in Seq(Step), \A i \in DOMAIN P : P[i] \in OnKey /\ P[i].cmd # "SREM",
         \A i \in DOMAIN R : R[i].cmd # "SREM"
  PROVE  Planned(f, P \o R)
<1> DEFINE Q == P \o R
<1>1j. Joined(P, R, Q) BY Concat
<1> HIDE DEF Q
<1>1. /\ Len(P) \in Nat /\ Len(R) \in Nat
      /\ Len(Q) = Len(P) + Len(R) /\ DOMAIN Q = 1..(Len(P) + Len(R))
      /\ DOMAIN P = 1..Len(P) /\ DOMAIN R = 1..Len(R)
      /\ \A i \in DOMAIN P : i \in DOMAIN Q /\ Q[i] = P[i]
      /\ \A j \in DOMAIN R : j + Len(P) \in DOMAIN Q /\ Q[j + Len(P)] = R[j]
      /\ \A i \in DOMAIN Q : i \in DOMAIN P \/ \E j \in DOMAIN R : i = j + Len(P)
      /\ R # <<>> => Q[Len(Q)] = R[Len(R)]
  BY <1>1j DEF Joined
<1> SUFFICES Planned(f, Q) BY DEF Q
<1>2. \A i \in DOMAIN Q : Q[i].cmd = "SREM" => i = 1 BY <1>1
<1>3. f = "get_by_user_id" => \A i \in DOMAIN Q : Q[i] \in OnKey BY <1>1
<1>4. ASSUME f = "delete_by_user_id"
      PROVE  /\ Q[Len(Q)].cmd = "DEL_INDEX"
             /\ Q[Len(Q) - 1] = Do("DELETE_FOUND", Q[Len(Q)].arg)
             /\ \A i \in 1..(Len(Q) - 2) : Q[i] \in OnKey
  <2>1. Len(R) = 2 /\ R # <<>>
    <3>1. Len(R) = 2 BY <1>4
    <3>2. Len(R) >= 1 BY <3>1
    <3>3. R # <<>> BY <3>2, NonEmpty, Zenon
    <3> QED BY <3>1, <3>3
  <2>2. R[2].cmd = "DEL_INDEX" /\ R[1] = Do("DELETE_FOUND", R[2].arg)
    BY <1>4, <2>1 DEF Planned
  <2>3. 1 \in DOMAIN R /\ 1 + Len(P) = Len(Q) - 1 BY <1>1, <2>1
  <2>4. Q[Len(Q)] = R[2] /\ Q[Len(Q) - 1] = R[1] BY <1>1, <2>1, <2>3
  <2>5. \A i \in 1..(Len(Q) - 2) : i \in DOMAIN P BY <1>1, <2>1
  <2> QED BY <1>1, <2>2, <2>4, <2>5
<1> QED BY <1>2, <1>3, <1>4 DEF Planned

-----------------------------------------------------------------------------
(* What each command does to a client alone.                                *)

\* A step that sends a command on a key, puts P in front of the others, changes
\* nothing that stays stored, and leaves nothing behind that had to go.
LEMMA KeyMove ==
  ASSUME TypeInv, NEW f \in Functions, NEW T \in Seq(Step), T # <<>>,
         T[1].cmd \in {"GET", "GET_MEMBER", "DEL", "SREM"},
         NEW g, NEW F \in Seq(Ids), NEW sc, NEW del \in SUBSET Ids, Sound(f, T, g, F, sc, del),
         NEW P, NEW Q, Joined(P, Tail(T), Q), Planned(f, Q),
         NEW F1, \A i \in DOMAIN F : \E j \in DOMAIN F1 : F1[j] = F[i],
         f = "delete" => F1 = <<>>,
         \A x \in Ids : value'[x] # Nil => value'[x] = value[x],
         \A x \in Ids, u \in Users : value'[x] # Nil /\ x \in index[u] => x \in index'[u],
         T[1].cmd \in {"DEL", "GET_MEMBER"} /\ value'[T[1].arg] # Nil => Doomed(Q, F1, T[1].arg),
         Q # <<>> /\ Q[1].cmd = "SREM" => value'[Q[1].arg] = Nil,
         NEW g1, f = "update" /\ Len(Q) = 2 /\ g1 # Nil => Q[2].arg.id \notin del
  PROVE  Sound(f, Q, g1, F1, sc, del)'
<1> DEFINE R == Tail(T)
<1>1. R \in Seq(Step) /\ Len(R) = Len(T) - 1 /\ Len(T) \in Nat /\ Len(T) >= 1 /\ DOMAIN T = 1..Len(T)
      /\ DOMAIN R = 1..(Len(T) - 1)
  OBVIOUS
<1>2. \A i \in DOMAIN R : R[i] = T[i + 1] BY <1>1
<1>3. Planned(f, T) /\ f # "create" /\ (f \in {"update", "delete_by_user_id"} => Len(T) >= 3)
  <2>1. Planned(f, T) BY DEF Sound
  <2> QED BY <2>1, PlannedHead
<1>4. Joined(P, R, Q) OBVIOUS
<1>5. f \in {"update", "delete_by_user_id"} => Q # <<>> /\ Len(Q) >= 2 /\ Q[Len(Q)] = T[Len(T)]
  <2> SUFFICES ASSUME f \in {"update", "delete_by_user_id"}
               PROVE  Q # <<>> /\ Len(Q) >= 2 /\ Q[Len(Q)] = T[Len(T)]
    OBVIOUS
  <2>1. Len(R) >= 2 BY <1>1, <1>3
  <2>2. Len(R) \in DOMAIN R /\ R[Len(R)] = T[Len(T)] BY <1>1, <1>2, <2>1
  <2> HIDE DEF R
  <2>3. R # <<>> BY <1>1, <2>1, NonEmpty
  <2>4. Len(Q) >= 2 /\ Q \in Seq(Step) BY <1>4, <2>1 DEF Joined
  <2>5. Q # <<>> BY <2>4, NonEmpty
  <2> QED BY <1>4, <2>2, <2>3, <2>4, <2>5 DEF Joined
<1>6. \A id : Doomed(T, F, id) =>
        Doomed(Q, F1, id) \/ (T[1].cmd \in {"DEL", "GET_MEMBER"} /\ T[1].arg = id)
  <2> SUFFICES ASSUME NEW id, Doomed(T, F, id)
               PROVE  Doomed(Q, F1, id) \/ (T[1].cmd \in {"DEL", "GET_MEMBER"} /\ T[1].arg = id)
    OBVIOUS
  <2>1. ASSUME NEW i \in DOMAIN T, i # 1, T[i].cmd \in {"DEL", "GET_MEMBER"} /\ T[i].arg = id
        PROVE  Doomed(Q, F1, id)
    <3> DEFINE k == i - 1
    <3>1. k \in DOMAIN R /\ R[k] = T[i] BY <1>1, <1>2, <2>1
    <3> HIDE DEF R, k
    <3>2. k + Len(P) \in DOMAIN Q /\ Q[k + Len(P)] = T[i] BY <1>4, <3>1 DEF Joined
    <3> QED BY <2>1, <3>2 DEF Doomed
  <2>2. CASE \E i \in DOMAIN F : F[i] = id BY <2>2 DEF Doomed
  <2>3. ~(T[1].cmd = "SMEMBERS") OBVIOUS
  <2> QED BY <2>1, <2>2, <2>3 DEF Doomed
<1>7. \A x \in Ids : value'[x] # Nil => (Stored(x))' = Stored(x) /\ value[x] # Nil
  BY DEF Stored
<1> HIDE DEF R
<1>8. Indexed(Q)'
  <2> SUFFICES ASSUME NEW x \in Ids, value'[x] # Nil
               PROVE  x \in index'[(Stored(x))'.user_id]
    BY DEF Indexed
  <2>1. value[x] # Nil /\ (Stored(x))' = Stored(x) BY <1>7
  <2>2. x \in index[Stored(x).user_id] BY <2>1 DEF Sound, Indexed
  <2>3. Stored(x).user_id \in Users BY <2>1, StoredInput, InputFields DEF TypeInv, RedisOK
  <2> QED BY <2>1, <2>2, <2>3
<1>9. SremLate(Q)' BY DEF SremLate
<1>10. FoundOK(f, Q, F1)
  <2>1. ASSUME f = "delete_by_user_id" PROVE Q # <<>> /\ Q[1].cmd # "DEL_INDEX"
    <3>1. Q \in Seq(Step) /\ Q # <<>> /\ Len(Q) # 1 BY <1>4, <1>5, <2>1 DEF Joined
    <3> QED BY <3>1, PlannedHead
  <2> QED BY <2>1 DEF FoundOK, Functions
<1>11. ScopeOK(f, Q, sc)
  BY <1>1, <1>3, <1>5 DEF Sound, ScopeOK
<1>12. Covered(f, Q, F1, sc)'
  <2> SUFFICES ASSUME NEW x \in Ids, value'[x] # Nil, ToGo(f, Q, sc, x)'
               PROVE  Doomed(Q, F1, x)
    BY DEF Covered
  <2>1. value[x] # Nil /\ ToGo(f, T, sc, x) BY <1>5, <1>7 DEF ToGo
  <2>2. Doomed(T, F, x) BY <2>1 DEF Sound, Covered
  <2> QED BY <1>6, <2>2
<1>13. AllGone(del)' BY DEF AllGone, Sound
<1>14. WritesFresh(f, Q, g1, del) BY <1>3 DEF WritesFresh
<1> QED BY <1>8, <1>9, <1>10, <1>11, <1>12, <1>13, <1>14 DEF Sound

\* Nothing in front.
LEMMA JoinedNothing ==
  ASSUME NEW R \in Seq(Step)
  PROVE  Joined(<<>>, R, R) /\ <<>> \o R = R
<1>1. <<>> \in Seq(Step) /\ <<>> \o R = R OBVIOUS
<1>2. Joined(<<>>, R, <<>> \o R) BY <1>1, Concat
<1> QED BY <1>1, <1>2

\* redis_get finds nothing.
LEMMA GetMiss ==
  ASSUME TypeInv, NEW f \in Functions, NEW T \in Seq(Step), T # <<>>, T[1].cmd \in {"GET", "GET_MEMBER"},
         NEW g, NEW F \in Seq(Ids), NEW sc, NEW del \in SUBSET Ids, Sound(f, T, g, F, sc, del),
         value[T[1].arg] = Nil, value' = value, index' = index
  PROVE  Sound(f, Tail(T), Nil, F, sc, del)'
<1> DEFINE R == Tail(T)
<1>1. R \in Seq(Step) OBVIOUS
<1>2. Planned(f, R) /\ \A i \in DOMAIN R : R[i].cmd # "SREM" BY PlannedTail DEF Sound
<1>3. Joined(<<>>, R, R) BY <1>1, JoinedNothing
<1>4. f = "delete" => F = <<>> BY DEF Sound, FoundOK
<1>5. R # <<>> => 1 \in DOMAIN R BY <1>1
<1> QED BY <1>1, <1>2, <1>3, <1>4, <1>5, KeyMove

\* redis_get finds an expired session, and deletes it first.
LEMMA GetExpired ==
  ASSUME TypeInv, NEW f \in Functions, NEW T \in Seq(Step), T # <<>>, NEW id \in Ids,
         T[1].cmd \in {"GET", "GET_MEMBER"}, T[1].arg = id,
         NEW g, NEW F \in Seq(Ids), NEW sc, NEW del \in SUBSET Ids, Sound(f, T, g, F, sc, del),
         value' = value, index' = index
  PROVE  Sound(f, DeleteSteps(id) \o Tail(T), Nil, F, sc, del)'
<1> DEFINE R == Tail(T)
           P == DeleteSteps(id)
           Q == P \o R
<1>1. R \in Seq(Step) OBVIOUS
<1>2. /\ P \in Seq(Step) /\ Len(P) = 2 /\ P[1] = Do("GET", id) /\ P[2] = Do("DEL", id)
      /\ DOMAIN P = 1..2
  BY KeySteps
<1>3. P # <<>>
  <2>1. P \in Seq(Step) /\ Len(P) >= 1 BY <1>2
  <2> QED BY <2>1, NonEmpty
<1>4. /\ P[1].cmd = "GET" /\ P[1].arg = id /\ P[2].cmd = "DEL" /\ P[2].arg = id BY <1>2 DEF Do
<1>5. Joined(P, R, Q) BY <1>1, <1>2, Concat
<1> HIDE DEF P
<1>6. \A i \in DOMAIN P : /\ P[i].cmd \in {"GET", "DEL", "SREM"} /\ P[i].arg = T[1].arg
                          /\ P[i].cmd = "SREM" => i = 1
  BY <1>2, <1>4
<1>7. Planned(f, T) BY DEF Sound
<1>8. Planned(f, Q) BY <1>2, <1>3, <1>6, <1>7, PlannedPush
<1> HIDE DEF Q, R
<1>9. f = "delete" => F = <<>> BY DEF Sound, FoundOK
<1>10. 1 \in DOMAIN Q /\ Q[1] = P[1] /\ 2 \in DOMAIN Q /\ Q[2] = P[2] BY <1>2, <1>5 DEF Joined
<1>11. Doomed(Q, F, id) BY <1>4, <1>10 DEF Doomed
<1>12. Q[1].cmd # "SREM" BY <1>4, <1>10
<1>13. Joined(P, Tail(T), Q) BY <1>5 DEF R
<1>14. Sound(f, Q, Nil, F, sc, del)' BY <1>8, <1>9, <1>11, <1>12, <1>13, KeyMove
<1> QED BY <1>14 DEF Q, R, P

\* redis_get finds a session, and the loop of redis_get_by_user_id collects it.
LEMMA GetHit ==
  ASSUME TypeInv, NEW f \in Functions, NEW T \in Seq(Step), T # <<>>, NEW id \in Ids,
         T[1].cmd \in {"GET", "GET_MEMBER"}, T[1].arg = id, value[id] # Nil,
         NEW g, NEW F \in Seq(Ids), NEW sc, NEW del \in SUBSET Ids, Sound(f, T, g, F, sc, del),
         value' = value, index' = index,
         NEW F1, T[1].cmd = "GET_MEMBER" => F1 = Append(F, id),
         T[1].cmd = "GET" => F1 = F, NEW g1
  PROVE  Sound(f, Tail(T), g1, F1, sc, del)'
<1> DEFINE R == Tail(T)
<1>1. R \in Seq(Step) /\ Len(R) = Len(T) - 1 /\ Len(T) \in Nat /\ \A i \in 1..(Len(T) - 1) : R[i] = T[i + 1]
  OBVIOUS
<1>2. Planned(f, T) BY DEF Sound
<1>3. Planned(f, R) /\ \A i \in DOMAIN R : R[i].cmd # "SREM" BY <1>2, PlannedTail
<1>4. Joined(<<>>, R, R) BY <1>1, JoinedNothing
<1>5. R # <<>> => 1 \in DOMAIN R BY <1>1
<1>6. \A i \in DOMAIN F : \E j \in DOMAIN F1 : F1[j] = F[i]
  <2>1. CASE T[1].cmd = "GET" BY <2>1
  <2>2. CASE T[1].cmd = "GET_MEMBER" BY <2>2
  <2> QED BY <2>1, <2>2
<1>7. f = "delete" => F1 = <<>>
  <2>1. T[1].cmd = "GET_MEMBER" => f # "delete" BY <1>2, PlannedHead
  <2> QED BY <2>1 DEF Sound, FoundOK
<1>8. T[1].cmd \in {"DEL", "GET_MEMBER"} => Doomed(R, F1, id)
  <2> SUFFICES ASSUME T[1].cmd = "GET_MEMBER" PROVE Doomed(R, F1, id) OBVIOUS
  <2>1. Len(F) + 1 \in DOMAIN F1 /\ F1[Len(F) + 1] = id OBVIOUS
  <2> QED BY <2>1 DEF Doomed
<1>9. f = "update" /\ Len(R) = 2 => R[2].arg.id \notin del
  <2> SUFFICES ASSUME f = "update", Len(R) = 2 PROVE R[2].arg.id \notin del OBVIOUS
  <2>1. Len(T) = 3 /\ R[2] = T[3] BY <1>1
  <2>2. T[1].arg = T[3].arg.id BY <1>2, <2>1 DEF Planned
  <2>3. id \notin del BY DEF Sound, AllGone
  <2> QED BY <2>1, <2>2, <2>3
<1> HIDE DEF R
<1>10. Joined(<<>>, Tail(T), R) BY <1>4 DEF R
<1>11. Sound(f, R, g1, F1, sc, del)' BY <1>3, <1>5, <1>6, <1>7, <1>8, <1>9, <1>10, KeyMove
<1> QED BY <1>11 DEF R

\* DEL, followed by SREM if the get before it found a session.
LEMMA DelMove ==
  ASSUME TypeInv, NEW f \in Functions, NEW T \in Seq(Step), T # <<>>, NEW id \in Ids, T[1] = Do("DEL", id),
         NEW g, NEW F \in Seq(Ids), NEW sc, NEW del \in SUBSET Ids, Sound(f, T, g, F, sc, del),
         value'[id] = Nil, \A x \in Ids : x # id => value'[x] = value[x], index' = index,
         NEW P, P = IF g = Nil THEN <<>> ELSE <<Do("SREM", id)>>
  PROVE  Sound(f, P \o Tail(T), g, F, sc, del)'
<1> DEFINE R == Tail(T)
           Q == P \o R
<1>1. R \in Seq(Step) /\ Len(R) = Len(T) - 1 /\ Len(T) \in Nat OBVIOUS
<1>2. Planned(f, T) /\ T[1].cmd = "DEL" /\ T[1].arg = id BY DEF Sound, Do
<1>3. Planned(f, R) /\ \A i \in DOMAIN R : R[i].cmd # "SREM" BY <1>2, PlannedTail
<1>4. f = "delete" => F = <<>> BY DEF Sound, FoundOK
<1>5. \A i \in DOMAIN F : \E j \in DOMAIN F : F[j] = F[i] OBVIOUS
<1>6. CASE g = Nil
  <2>1. Joined(<<>>, R, R) /\ Q = R BY <1>1, <1>6, JoinedNothing
  <2>2. R # <<>> => 1 \in DOMAIN R BY <1>1
  <2> HIDE DEF R
  <2>3. Joined(<<>>, Tail(T), R) BY <2>1 DEF R
  <2>4. Sound(f, R, g, F, sc, del)' BY <1>2, <1>3, <1>4, <1>5, <1>6, <2>2, <2>3, KeyMove
  <2> QED BY <2>1, <2>4 DEF R
<1>7. CASE g # Nil
  <2>1. Do("SREM", id) \in Step /\ Do("SREM", id).cmd = "SREM" /\ Do("SREM", id).arg = id
    BY DEF Do, Step, OnKey
  <2>2. P = <<Do("SREM", id)>> BY <1>7
  <2>3. P \in Seq(Step) /\ P # <<>> /\ DOMAIN P = {1} /\ Len(P) = 1 /\ P[1] = Do("SREM", id)
    <3> DEFINE x == Do("SREM", id)
    <3>1. x \in Step BY <2>1
    <3> HIDE DEF x
    <3>2. <<x>> \in Seq(Step) /\ Len(<<x>>) = 1 /\ DOMAIN <<x>> = {1} /\ <<x>>[1] = x BY <3>1
    <3>3. <<x>> # <<>> BY <3>2, NonEmpty
    <3> QED BY <2>2, <3>2, <3>3 DEF x
  <2>4. Joined(P, R, Q) BY <1>1, <2>3, Concat
  <2>5. Planned(f, Q)
    <3>1. \A i \in DOMAIN P : /\ P[i].cmd \in {"GET", "DEL", "SREM"} /\ P[i].arg = T[1].arg
                              /\ P[i].cmd = "SREM" => i = 1
      BY <1>2, <2>1, <2>3
    <3> QED BY <1>2, <2>3, <3>1, PlannedPush
  <2>6. f = "update" => Len(R) >= 2
    <3>1. f = "update" => Len(T) >= 3 BY <1>2, PlannedHead
    <3> QED BY <1>1, <3>1
  <2> HIDE DEF Q, R
  <2>7. 1 \in DOMAIN Q /\ Q[1] = Do("SREM", id) /\ Len(Q) = 1 + Len(R) BY <2>3, <2>4 DEF Joined
  <2>8. ~(f = "update" /\ Len(Q) = 2) BY <1>1, <2>6, <2>7
  <2>9. Joined(P, Tail(T), Q) BY <2>4 DEF R
  <2>10. Sound(f, Q, g, F, sc, del)' BY <1>2, <1>4, <1>5, <2>1, <2>5, <2>7, <2>8, <2>9, KeyMove
  <2> QED BY <2>10 DEF Q, R
<1> QED BY <1>6, <1>7

\* SREM, after the session is gone.
LEMMA SremMove ==
  ASSUME TypeInv, NEW f \in Functions, NEW T \in Seq(Step), T # <<>>, NEW id \in Ids, T[1] = Do("SREM", id),
         NEW g, NEW F \in Seq(Ids), NEW sc, NEW del \in SUBSET Ids, Sound(f, T, g, F, sc, del),
         value' = value, NEW v, index' = [index EXCEPT ![v] = @ \ {id}]
  PROVE  Sound(f, Tail(T), Nil, F, sc, del)'
<1> DEFINE R == Tail(T)
<1>1. R \in Seq(Step) OBVIOUS
<1>2. Planned(f, T) /\ T[1].cmd = "SREM" /\ T[1].arg = id BY DEF Sound, Do
<1>3. Planned(f, R) /\ \A i \in DOMAIN R : R[i].cmd # "SREM" BY <1>2, PlannedTail
<1>4. Joined(<<>>, R, R) BY <1>1, JoinedNothing
<1>5. f = "delete" => F = <<>> BY DEF Sound, FoundOK
<1>6. R # <<>> => 1 \in DOMAIN R BY <1>1
<1>7. value[id] = Nil BY <1>2 DEF Sound, SremLate
<1>8. \A x \in Ids, u \in Users : value'[x] # Nil /\ x \in index[u] => x \in index'[u]
  BY <1>7 DEF TypeInv, RedisOK, IndexOK
<1> QED BY <1>1, <1>2, <1>3, <1>4, <1>5, <1>6, <1>8, KeyMove

\* SET, in a create or in an update whose get found the session.
LEMMA SetMove ==
  ASSUME TypeInv, NEW f \in Functions, NEW T \in Seq(Step), T # <<>>, NEW s \in Inputs,
         T[1].cmd \in {"SET", "REPLACE"}, T[1].arg = s,
         NEW g, T[1].cmd = "REPLACE" => g # Nil,
         NEW F \in Seq(Ids), NEW sc, NEW del \in SUBSET Ids, Sound(f, T, g, F, sc, del),
         value'[s.id] # Nil, (Stored(s.id))' = s,
         \A x \in Ids : x # s.id => value'[x] = value[x], index' = index
  PROVE  Sound(f, Tail(T), Nil, F, sc, del)'
<1> DEFINE R == Tail(T)
<1>1. Planned(f, T) BY DEF Sound
<1>2. /\ f \in {"create", "update"} /\ Len(T) = 2 /\ T[2] = Do("SADD", s)
      /\ T[1].cmd = "SET" => f = "create"
      /\ T[1].cmd = "REPLACE" => f = "update"
  BY <1>1, PlannedHead
<1>3. T[2].cmd = "SADD" /\ T[2].arg = s BY <1>2 DEF Do
<1>4. R \in Seq(Step) /\ Len(R) = 1 /\ R[1] = T[2] BY <1>2, TailFacts
<1>5. R # <<>> BY <1>2, TailFacts
<1>6. Planned(f, R) BY <1>1, PlannedTail
<1> HIDE DEF R
<1>7. s.id \notin del
  <2>1. CASE f = "create" BY <1>2, <1>3, <2>1 DEF Sound, WritesFresh
  <2>2. CASE f = "update"
    <3>1. g # Nil BY <1>2, <2>2
    <3> QED BY <1>2, <1>3, <2>2, <3>1 DEF Sound, WritesFresh
  <2> QED BY <1>2, <2>1, <2>2
<1>8. \A x \in Ids : x # s.id => (Stored(x))' = Stored(x) BY DEF Stored
<1>9. Indexed(R)'
  <2> SUFFICES ASSUME NEW x \in Ids, value'[x] # Nil, x # s.id
               PROVE  x \in index'[(Stored(x))'.user_id]
    BY <1>3, <1>4, <1>5 DEF Indexed
  <2>1. x \in index[Stored(x).user_id] BY DEF Sound, Indexed
  <2> QED BY <1>8, <2>1
<1>10. SremLate(R)' BY <1>3, <1>4 DEF SremLate
<1>11. FoundOK(f, R, F) /\ ScopeOK(f, R, sc) BY <1>2 DEF Sound, FoundOK, ScopeOK
<1>12. Covered(f, R, F, sc)' BY <1>2 DEF Sound, ScopeOK, Covered, ToGo
<1>13. AllGone(del)' BY <1>7 DEF Sound, AllGone
<1>14. WritesFresh(f, R, Nil, del) BY <1>3, <1>4, <1>7 DEF WritesFresh
<1>15. Sound(f, R, Nil, F, sc, del)'
  BY <1>6, <1>9, <1>10, <1>11, <1>12, <1>13, <1>14 DEF Sound
<1> QED BY <1>15 DEF R

\* SADD puts the session in its user's set.
LEMMA SaddMove ==
  ASSUME TypeInv, NEW f \in Functions, NEW T \in Seq(Step), T # <<>>, NEW s \in Inputs, T[1] = Do("SADD", s),
         NEW g, NEW F \in Seq(Ids), NEW sc, NEW del \in SUBSET Ids, Sound(f, T, g, F, sc, del),
         value' = value, index' = [index EXCEPT ![s.user_id] = @ \cup {s.id}]
  PROVE  Sound(f, Tail(T), Nil, F, sc, del)' /\ Tail(T) = <<>>
<1>1. Planned(f, T) /\ T[1].cmd = "SADD" /\ T[1].arg = s BY DEF Sound, Do
<1>2. f \in {"create", "update"} /\ Len(T) = 1 BY <1>1, PlannedHead
<1>4. Tail(T) = <<>> BY <1>2, TailFacts
<1>5. Planned(f, <<>>) BY <1>1, <1>4, PlannedTail
<1>6. Indexed(<<>>)'
  <2> SUFFICES ASSUME NEW x \in Ids, value'[x] # Nil
               PROVE  x \in index'[(Stored(x))'.user_id]
    BY DEF Indexed
  <2>1. (Stored(x))' = Stored(x) /\ value[x] # Nil BY DEF Stored
  <2>2. Stored(x) \in Inputs /\ Stored(x).id = x BY <2>1, StoredInput DEF TypeInv, RedisOK
  <2>3. Stored(x).user_id \in Users /\ s.user_id \in Users BY <2>2, InputFields
  <2>4. x \in index[Stored(x).user_id] \/ x = s.id BY <1>1, <2>1 DEF Sound, Indexed
  <2>5. x = s.id => Stored(x).user_id = s.user_id BY <2>2, RedisAssumption
  <2> QED BY <2>1, <2>3, <2>4, <2>5 DEF TypeInv, RedisOK, IndexOK
<1>7. SremLate(<<>>)' BY DEF SremLate
<1>8. FoundOK(f, <<>>, F) /\ ScopeOK(f, <<>>, sc) BY <1>2 DEF Sound, FoundOK, ScopeOK
<1>9. Covered(f, <<>>, F, sc)' BY <1>2 DEF Sound, ScopeOK, Covered, ToGo
<1>10. AllGone(del)' BY DEF Sound, AllGone
<1>11. WritesFresh(f, <<>>, Nil, del) BY DEF WritesFresh
<1> QED BY <1>4, <1>5, <1>6, <1>7, <1>8, <1>9, <1>10, <1>11 DEF Sound

\* SMEMBERS: every session of the user is among the members, as Indexed says.
LEMMA SmembersMove ==
  ASSUME TypeInv, NEW f \in Functions, NEW T \in Seq(Step), T # <<>>, NEW u \in Users,
         T[1] = Do("SMEMBERS", u),
         NEW g, NEW F \in Seq(Ids), NEW sc, NEW del \in SUBSET Ids, Sound(f, T, g, F, sc, del),
         value' = value, index' = index, NEW m \in SetToSeqs(index[u])
  PROVE  Sound(f, [i \in DOMAIN m |-> Do("GET_MEMBER", m[i])] \o Tail(T), Nil, <<>>, sc, del)'
<1> DEFINE R == Tail(T)
           P == [i \in DOMAIN m |-> Do("GET_MEMBER", m[i])]
           Q == P \o R
<1>1. Planned(f, T) /\ T[1].cmd = "SMEMBERS" /\ T[1].arg = u BY DEF Sound, Do
<1>2. \/ f = "get_by_user_id" /\ Len(T) = 1
      \/ /\ f = "delete_by_user_id" /\ Len(T) = 3 /\ T[3].arg = u
         /\ T[2].cmd = "DELETE_FOUND" /\ T[3].cmd = "DEL_INDEX"
  BY <1>1, PlannedHead
<1>3. R \in Seq(Step) /\ Len(R) = Len(T) - 1 /\ (Len(T) = 3 => R[2] = T[3]) OBVIOUS
<1>4. Planned(f, R) /\ \A i \in DOMAIN R : R[i].cmd # "SREM" BY <1>1, PlannedTail
<1>5. /\ m \in Seq(index[u]) /\ index[u] \subseteq Ids
      /\ \A x \in index[u] : \E i \in DOMAIN m : m[i] = x
  BY MembersAll DEF TypeInv, RedisOK, IndexOK
<1>6. \A i \in DOMAIN m : /\ Do("GET_MEMBER", m[i]) \in Step /\ Do("GET_MEMBER", m[i]) \in OnKey
                          /\ Do("GET_MEMBER", m[i]).cmd = "GET_MEMBER"
                          /\ Do("GET_MEMBER", m[i]).arg = m[i]
  BY <1>5 DEF Do, Step, OnKey
<1>7. P \in Seq(Step) /\ DOMAIN P = DOMAIN m
  <2>1. Len(m) \in Nat /\ DOMAIN m = 1..Len(m) BY <1>5
  <2>2. P \in [1..Len(m) -> Step] BY <1>6, <2>1
  <2> QED BY <2>1, <2>2
<1>8. \A i \in DOMAIN P : P[i] \in OnKey /\ P[i].cmd = "GET_MEMBER" /\ P[i].arg = m[i]
  BY <1>6
<1> HIDE DEF P, R
<1>9. Joined(P, R, Q) BY <1>3, <1>7, Concat
<1>10. f = "get_by_user_id" => R = <<>>
  <2> SUFFICES ASSUME f = "get_by_user_id" PROVE R = <<>> OBVIOUS
  <2>1. ~(Len(R) >= 1) BY <1>2, <1>3
  <2> QED BY <1>3, <2>1, NonEmpty, Zenon
<1>11. f = "delete_by_user_id" => Len(R) = 2 BY <1>2, <1>3
<1>12. Planned(f, Q) BY <1>2, <1>3, <1>4, <1>7, <1>8, <1>10, <1>11, PlannedLoop
<1> HIDE DEF Q
<1>13. ASSUME f = "delete_by_user_id"
       PROVE  Q # <<>> /\ Q[Len(Q)] = T[3] /\ Q[1].cmd # "DEL_INDEX" /\ Len(T) = 3 /\ T[3].arg = u
  <2>1. Len(R) = 2 /\ Len(R) >= 1 /\ Len(T) = 3 /\ R[2] = T[3] BY <1>2, <1>3, <1>13
  <2>2. R # <<>> BY <1>3, <2>1, NonEmpty, Zenon
  <2>3. Q \in Seq(Step) /\ Len(Q) >= 2 /\ Len(Q) \in Nat /\ Q[Len(Q)] = R[2] BY <1>9, <2>1, <2>2 DEF Joined
  <2>4. Len(Q) >= 1 BY <2>3
  <2>5. Q # <<>> BY <2>3, <2>4, NonEmpty, Zenon
  <2>6. Q[1].cmd # "DEL_INDEX" BY <1>12, <2>3, <2>5, PlannedHead
  <2> QED BY <1>2, <1>13, <2>1, <2>3, <2>5, <2>6
<1>14. \A x \in Ids : (Stored(x))' = Stored(x) BY DEF Stored
<1>15. Indexed(Q)' BY <1>1, <1>14 DEF Sound, Indexed
<1>16. SremLate(Q)'
  <2>1. \A i \in DOMAIN Q : Q[i].cmd # "SREM" BY <1>4, <1>8, <1>9 DEF Joined
  <2>2. Q \in Seq(Step) BY <1>9 DEF Joined
  <2>3. Q # <<>> => 1 \in DOMAIN Q BY <2>2
  <2> QED BY <2>1, <2>3 DEF SremLate
<1>17. FoundOK(f, Q, <<>>) BY DEF FoundOK
<1>18. ScopeOK(f, Q, sc) BY <1>2, <1>13 DEF Sound, ScopeOK
<1>19. Covered(f, Q, <<>>, sc)'
  <2> SUFFICES ASSUME NEW x \in Ids, value'[x] # Nil, ToGo(f, Q, sc, x)'
               PROVE  Doomed(Q, <<>>, x)
    BY DEF Covered
  <2>1. f = "delete_by_user_id" BY <1>2 DEF Sound, ScopeOK, ToGo
  <2>2. Stored(x) \in Inputs /\ Stored(x).id = x /\ value[x] # Nil
    BY StoredInput DEF TypeInv, RedisOK
  <2>3. Stored(x).user_id = u
    <3>1. CASE x \in sc
      <4>1. PICK s \in Inputs : s.id = x /\ s.user_id = T[Len(T)].arg
        BY <2>1, <3>1 DEF Sound, ScopeOK
      <4> QED BY <1>13, <2>1, <2>2, <4>1, RedisAssumption
    <3>2. CASE x \notin sc BY <1>13, <1>14, <2>1, <3>2 DEF ToGo
    <3> QED BY <3>1, <3>2
  <2>4. x \in index[u] BY <1>1, <2>2, <2>3 DEF Sound, Indexed
  <2>5. PICK i \in DOMAIN m : m[i] = x BY <1>5, <2>4
  <2>6. i \in DOMAIN P /\ P[i].cmd = "GET_MEMBER" /\ P[i].arg = x BY <1>7, <1>8, <2>5
  <2>7. i \in DOMAIN Q /\ Q[i] = P[i] BY <1>9, <2>6 DEF Joined
  <2> QED BY <2>6, <2>7 DEF Doomed
<1>20. AllGone(del)' BY DEF Sound, AllGone
<1>21. WritesFresh(f, Q, Nil, del) BY <1>2 DEF WritesFresh
<1>22. Sound(f, Q, Nil, <<>>, sc, del)'
  BY <1>12, <1>15, <1>16, <1>17, <1>18, <1>19, <1>20, <1>21 DEF Sound
<1> QED BY <1>22 DEF Q, P, R

\* The end of the loop over what was collected.
LEMMA LoopEnds ==
  ASSUME TypeInv, NEW f \in Functions, NEW T \in Seq(Step), T # <<>>, T[1].cmd = "DELETE_FOUND",
         NEW g, NEW sc, NEW del \in SUBSET Ids, Sound(f, T, g, <<>>, sc, del),
         value' = value, index' = index
  PROVE  Sound(f, Tail(T), Nil, <<>>, sc, del)'
<1> DEFINE R == Tail(T)
<1>1. Planned(f, T) BY DEF Sound
<1>2. f = "delete_by_user_id" /\ Len(T) = 2 /\ T[2] = Do("DEL_INDEX", T[1].arg) BY <1>1, PlannedHead
<1>3. R \in Seq(Step) /\ Len(R) = 1 /\ R[1] = T[2] /\ DOMAIN R = 1..1 /\ DOMAIN T = 1..2
  <2>1. R \in Seq(Step) /\ Len(R) = 1 /\ R[1] = T[2] BY <1>2, TailFacts
  <2> HIDE DEF R
  <2> QED BY <1>2, <2>1
<1>4. Planned(f, R) BY <1>1, PlannedTail
<1>5. R[1].cmd = "DEL_INDEX" BY <1>2, <1>3 DEF Do
<1> HIDE DEF R
<1>6. \A x \in Ids : (Stored(x))' = Stored(x) BY DEF Stored
<1>7. Indexed(R)' BY <1>6 DEF Sound, Indexed
<1>8. SremLate(R)' BY <1>5 DEF SremLate
<1>9. FoundOK(f, R, <<>>) BY DEF FoundOK
<1>10. ScopeOK(f, R, sc) BY <1>2, <1>3 DEF Sound, ScopeOK
<1>11. Covered(f, R, <<>>, sc)'
  <2> SUFFICES ASSUME NEW x \in Ids, value'[x] # Nil, ToGo(f, R, sc, x)'
               PROVE  Doomed(R, <<>>, x)
    BY DEF Covered
  <2>1. ToGo(f, T, sc, x) BY <1>2, <1>3, <1>6 DEF ToGo
  <2>2. Doomed(T, <<>>, x) BY <2>1 DEF Sound, Covered
  <2> QED BY <1>2, <1>3, <1>5, <2>2 DEF Doomed
<1>12. AllGone(del)' BY DEF Sound, AllGone
<1>13. WritesFresh(f, R, Nil, del) BY <1>2 DEF WritesFresh
<1>14. Sound(f, R, Nil, <<>>, sc, del)'
  BY <1>4, <1>7, <1>8, <1>9, <1>10, <1>11, <1>12, <1>13 DEF Sound
<1> QED BY <1>14 DEF R

\* The loop over what was collected deletes the first of it.
LEMMA LoopMove ==
  ASSUME TypeInv, NEW f \in Functions, NEW T \in Seq(Step), T # <<>>, T[1].cmd = "DELETE_FOUND",
         NEW g, NEW F \in Seq(Ids), F # <<>>, NEW sc, NEW del \in SUBSET Ids, Sound(f, T, g, F, sc, del),
         value' = value, index' = index
  PROVE  Sound(f, DeleteSteps(Head(F)) \o T, Nil, Tail(F), sc, del)'
<1> DEFINE id == Head(F)
           P == DeleteSteps(id)
           Q == P \o T
           F1 == Tail(F)
<1>1. Planned(f, T) BY DEF Sound
<1>2. f = "delete_by_user_id" /\ Len(T) = 2 /\ T[2] = Do("DEL_INDEX", T[1].arg) BY <1>1, PlannedHead
<1>3. id \in Ids /\ F1 \in Seq(Ids) /\ \A i \in DOMAIN F : F[i] = id \/ \E j \in DOMAIN F1 : F1[j] = F[i]
  <2>1. id \in Ids /\ F1 \in Seq(Ids) /\ id = F[1] /\ DOMAIN F = 1..Len(F) /\ DOMAIN F1 = 1..(Len(F) - 1)
        /\ Len(F) \in Nat /\ \A j \in 1..(Len(F) - 1) : F1[j] = F[j + 1]
    OBVIOUS
  <2> HIDE DEF id, F1
  <2>2. ASSUME NEW i \in DOMAIN F, i # 1 PROVE \E j \in DOMAIN F1 : F1[j] = F[i]
    <3>1. i - 1 \in 1..(Len(F) - 1) /\ (i - 1) + 1 = i BY <2>1, <2>2
    <3>2. F1[i - 1] = F[i] BY <2>1, <3>1
    <3> QED BY <2>1, <3>1, <3>2
  <2> QED BY <2>1, <2>2
<1>4. /\ P \in Seq(Step) /\ Len(P) = 2 /\ P[1] = Do("GET", id) /\ P[2] = Do("DEL", id)
      /\ DOMAIN P = 1..2
  BY <1>3, KeySteps
<1>5. P[1].cmd = "GET" /\ P[2].cmd = "DEL" /\ P[2].arg = id BY <1>4 DEF Do
<1>6. \A i \in DOMAIN P : P[i] \in OnKey /\ P[i].cmd # "SREM"
  BY <1>3, <1>4 DEF Do, OnKey
<1> HIDE DEF id, P, F1
<1>7. Joined(P, T, Q) BY <1>4, Concat
<1>8. \A i \in DOMAIN T : T[i].cmd # "SREM"
  <2>1. T[2].cmd # "SREM" BY <1>2 DEF Do
  <2>2. DOMAIN T = {1, 2} BY <1>2
  <2> QED BY <2>1, <2>2
<1>9. Planned(f, Q) BY <1>1, <1>2, <1>4, <1>6, <1>8, PlannedLoop
<1> HIDE DEF Q
<1>10. 1 \in DOMAIN Q /\ Q[1].cmd = "GET" /\ 2 \in DOMAIN Q /\ Q[2].cmd = "DEL" /\ Q[2].arg = id
  BY <1>4, <1>5, <1>7 DEF Joined
<1>11. Q[Len(Q)] = T[Len(T)] BY <1>7 DEF Joined
<1>12. \A x \in Ids : (Stored(x))' = Stored(x) BY DEF Stored
<1>13. Indexed(Q)' BY <1>12 DEF Sound, Indexed
<1>14. SremLate(Q)' BY <1>10 DEF SremLate
<1>15. Q # <<>> BY <1>10
<1>16. FoundOK(f, Q, F1) BY <1>2, <1>10, <1>15 DEF FoundOK
<1>17. ScopeOK(f, Q, sc) BY <1>2, <1>11 DEF Sound, ScopeOK
<1>18. Covered(f, Q, F1, sc)'
  <2> SUFFICES ASSUME NEW x \in Ids, value'[x] # Nil, ToGo(f, Q, sc, x)'
               PROVE  Doomed(Q, F1, x)
    BY DEF Covered
  <2>1. ToGo(f, T, sc, x) BY <1>2, <1>11, <1>12 DEF ToGo
  <2>2. Doomed(T, F, x) BY <2>1 DEF Sound, Covered
  <2>3. CASE \E i \in DOMAIN T : T[i].cmd \in {"DEL", "GET_MEMBER"} /\ T[i].arg = x
    <3>1. DOMAIN T = {1, 2} /\ T[2].cmd = "DEL_INDEX" BY <1>2 DEF Do
    <3> QED BY <2>3, <3>1
  <2>4. CASE \E i \in DOMAIN F : F[i] = x BY <1>3, <1>10, <2>4 DEF Doomed
  <2> QED BY <2>2, <2>3, <2>4 DEF Doomed
<1>19. AllGone(del)' BY DEF Sound, AllGone
<1>20. WritesFresh(f, Q, Nil, del) BY <1>2 DEF WritesFresh
<1>21. Sound(f, Q, Nil, F1, sc, del)'
  BY <1>9, <1>13, <1>14, <1>16, <1>17, <1>18, <1>19, <1>20 DEF Sound
<1> QED BY <1>21 DEF Q, P, id, F1

\* DEL of the user's set comes when no session of the user is left.
LEMMA ForgetMove ==
  ASSUME TypeInv, NEW f \in Functions, NEW T \in Seq(Step), T # <<>>, NEW u \in Users,
         T[1] = Do("DEL_INDEX", u),
         NEW g, NEW F \in Seq(Ids), NEW sc, NEW del \in SUBSET Ids, Sound(f, T, g, F, sc, del),
         value' = value, index' = [index EXCEPT ![u] = {}]
  PROVE  Sound(f, Tail(T), Nil, <<>>, sc, del)' /\ Tail(T) = <<>>
<1>1. Planned(f, T) /\ T[1].cmd = "DEL_INDEX" /\ T[1].arg = u BY DEF Sound, Do
<1>2. f = "delete_by_user_id" /\ Len(T) = 1 BY <1>1, PlannedHead
<1>3. DOMAIN T = 1..1 BY <1>2
<1>4. Tail(T) = <<>> BY <1>2, TailFacts
<1>5. Planned(f, <<>>) BY <1>1, <1>4, PlannedTail
<1>6. F = <<>> BY <1>1, <1>2 DEF Sound, FoundOK
<1>7. \A x : ~Doomed(T, F, x) BY <1>1, <1>3, <1>6 DEF Doomed
<1>8. \A x \in Ids : value[x] # Nil => ~ToGo(f, T, sc, x) BY <1>7 DEF Sound, Covered
<1>9. \A x \in Ids : (Stored(x))' = Stored(x) BY DEF Stored
<1>10. Indexed(<<>>)'
  <2> SUFFICES ASSUME NEW x \in Ids, value'[x] # Nil
               PROVE  x \in index'[(Stored(x))'.user_id]
    BY DEF Indexed
  <2>1. Stored(x).user_id # u BY <1>1, <1>2, <1>8 DEF ToGo
  <2>2. Stored(x).user_id \in Users BY StoredInput, InputFields DEF TypeInv, RedisOK
  <2>3. x \in index[Stored(x).user_id] BY <1>1 DEF Sound, Indexed
  <2> QED BY <1>9, <2>1, <2>2, <2>3 DEF TypeInv, RedisOK, IndexOK
<1>11. SremLate(<<>>)' BY DEF SremLate
<1>12. FoundOK(f, <<>>, <<>>) /\ ScopeOK(f, <<>>, sc) BY <1>2 DEF FoundOK, ScopeOK
<1>13. Covered(f, <<>>, <<>>, sc)' BY <1>8 DEF Covered, ToGo
<1>14. AllGone(del)' BY DEF Sound, AllGone
<1>15. WritesFresh(f, <<>>, Nil, del) BY DEF WritesFresh
<1> QED BY <1>4, <1>5, <1>10, <1>11, <1>12, <1>13, <1>14, <1>15 DEF Sound

-----------------------------------------------------------------------------
(* The steps of a client alone.                                             *)

\* Between calls only the index and the deletions matter.
LEMMA SoundIdle ==
  ASSUME NEW d, Indexed(<<>>), AllGone(d)
  PROVE  Sound("none", <<>>, Nil, <<>>, {}, d)
BY DEF Sound, Planned, SremLate, FoundOK, ScopeOK, Covered, ToGo, WritesFresh

\* The same in the next state.
LEMMA SoundIdleNext ==
  ASSUME NEW d, Indexed(<<>>)', AllGone(d)'
  PROVE  Sound("none", <<>>, Nil, <<>>, {}, d)'
BY DEF Sound, Planned, SremLate, FoundOK, ScopeOK, Covered, ToGo, WritesFresh

\* The variables of client c after the step.
SoundAfter(c) == Sound(fn[c], todo[c], got[c], found[c], scope[c], deleted)'

\* A call that goes on, or returns when nothing is left to do.
LEMMA SoloContinue ==
  ASSUME TypeInv, NEW c \in Clients, Clients = {c},
         NEW f, f = fn[c], NEW sc, sc = scope[c], NEW del, del = deleted,
         NEW T \in Seq(Step), NEW g, NEW F, Continue(c, T, g, F), Sound(f, T, g, F, sc, del)'
  PROVE  SoundAfter(c)
<1>1. CASE T # <<>>
  <2>1. /\ todo'[c] = T /\ got'[c] = g /\ found'[c] = F /\ fn'[c] = f /\ scope'[c] = sc /\ deleted' = del
    BY <1>1 DEF Continue, TypeInv, CallsOK
  <2> QED BY <2>1 DEF SoundAfter, Sound, Indexed, SremLate, Covered, ToGo, AllGone
<1>2. CASE T = <<>>
  <2>1. PICK code \in {0, -1} : Return(c, code) /\ (f # "get" => code = 0)
    BY <1>2 DEF Continue
  <2>2. /\ todo'[c] = <<>> /\ got'[c] = Nil /\ found'[c] = <<>> /\ fn'[c] = "none" /\ scope'[c] = {}
        /\ deleted' = IF code = 0 THEN del \cup sc ELSE del
    BY <2>1 DEF Return, TypeInv, CallsOK
  <2>3. Indexed(<<>>)' BY <1>2 DEF Sound
  <2>4. sc \subseteq Ids BY DEF TypeInv, CallsOK
  <2>5. \A x \in sc : value'[x] = Nil
    <3> SUFFICES ASSUME NEW x \in sc, value'[x] # Nil PROVE FALSE OBVIOUS
    <3>1. f \in {"delete", "delete_by_user_id"} BY DEF Sound, ScopeOK
    <3>2. F = <<>> BY <1>2, <3>1 DEF Sound, FoundOK
    <3>3. ToGo(f, T, sc, x)' BY DEF ToGo
    <3>4. Doomed(T, F, x) BY <2>4, <3>3 DEF Sound, Covered
    <3> QED BY <1>2, <3>2, <3>4 DEF Doomed
  <2>6. PICK d : d = deleted' OBVIOUS
  <2>7. AllGone(d)' BY <2>2, <2>5, <2>6 DEF Sound, AllGone
  <2>8. Sound("none", <<>>, Nil, <<>>, {}, d)' BY <2>3, <2>7, SoundIdleNext
  <2> QED BY <2>2, <2>6, <2>8
       DEF SoundAfter, Sound, Indexed, SremLate, Covered, ToGo, AllGone
<1> QED BY <1>1, <1>2

\* An update that returns without a session to replace.
LEMMA SoloGiveUp ==
  ASSUME TypeInv, NEW c \in Clients, Clients = {c},
         Sound(fn[c], todo[c], got[c], found[c], scope[c], deleted),
         NEW s \in Inputs, UpdateMissing(c, s)
  PROVE  SoundAfter(c)
<1>1. todo[c][1] = Do("REPLACE", s) BY PendingHead DEF UpdateMissing, TypeInv
<1>2. /\ Return(c, -1) /\ UNCHANGED redis BY DEF UpdateMissing
<1>3. /\ todo'[c] = <<>> /\ got'[c] = Nil /\ found'[c] = <<>> /\ fn'[c] = "none" /\ scope'[c] = {}
      /\ deleted' = deleted
  BY <1>2 DEF Return, TypeInv, CallsOK
<1>4. value' = value /\ index' = index BY <1>2 DEF redis
<1>5. todo[c][1].cmd = "REPLACE" BY <1>1 DEF Do
<1>6. Indexed(<<>>)' BY <1>4, <1>5 DEF Sound, Indexed, Stored
<1>7. PICK d : d = deleted' OBVIOUS
<1>8. AllGone(d)' BY <1>3, <1>4, <1>7 DEF Sound, AllGone
<1>9. Sound("none", <<>>, Nil, <<>>, {}, d)' BY <1>6, <1>8, SoundIdleNext
<1> QED BY <1>3, <1>7, <1>9 DEF SoundAfter, Sound, Indexed, SremLate, Covered, ToGo, AllGone

\* Every command that is answered leaves a client alone sound.
LEMMA SoloCommand ==
  ASSUME TypeInv, NEW c \in Clients, Clients = {c}, ~failed',
         Sound(fn[c], todo[c], got[c], found[c], scope[c], deleted), Command(c)
  PROVE  SoundAfter(c)
<1>1. PICK f, T, g, F, sc, del :
        f = fn[c] /\ T = todo[c] /\ g = got[c] /\ F = found[c] /\ sc = scope[c] /\ del = deleted
  OBVIOUS
<1>2. Sound(f, T, g, F, sc, del) BY <1>1
<1>3. T \in Seq(Step) /\ F \in Seq(Ids) /\ del \in SUBSET Ids /\ f \in Functions \cup {"none"}
      /\ (T = <<>> <=> f = "none")
  BY <1>1 DEF TypeInv, CallsOK
<1>4. ASSUME NEW cmd, NEW arg, Pending(c, cmd, arg)
      PROVE  /\ T # <<>> /\ f \in Functions /\ T[1] = Do(cmd, arg) /\ T[1].cmd = cmd /\ T[1].arg = arg
             /\ Rest(c) = Tail(T) /\ Tail(T) \in Seq(Step)
  <2>1. T # <<>> /\ T[1] = Do(cmd, arg) /\ Rest(c) = Tail(T) /\ Tail(T) \in Seq(Step)
    BY <1>1, <1>4, PendingHead DEF TypeInv, Rest
  <2>2. T[1].cmd = cmd /\ T[1].arg = arg BY <2>1 DEF Do
  <2> QED BY <1>3, <2>1, <2>2
<1>5. ~Refused(c) /\ ~ReplyLost(c)
  <2>1. ~(failed' = TRUE) OBVIOUS
  <2> QED BY <2>1, Zenon DEF Refused, ReplyLost
<1>6. ASSUME NEW U \in Seq(Step), NEW g1, NEW F1, Continue(c, U, g1, F1), Sound(f, U, g1, F1, sc, del)'
      PROVE  SoundAfter(c)
  BY <1>1, <1>6, SoloContinue
<1>7. ASSUME NEW id \in Ids, Get(c, id) PROVE SoundAfter(c)
  <2>1. PICK keep \in BOOLEAN :
          Pending(c, IF keep THEN "GET_MEMBER" ELSE "GET", id) /\ GetReply(c, id, keep)
    BY <1>5, <1>7 DEF Get
  <2>2. PICK cmd \in {"GET", "GET_MEMBER"} :
          Pending(c, cmd, id) /\ cmd = IF keep THEN "GET_MEMBER" ELSE "GET"
    BY <2>1
  <2>3. /\ T # <<>> /\ f \in Functions /\ T[1].cmd = cmd /\ T[1].arg = id
        /\ Rest(c) = Tail(T) /\ Tail(T) \in Seq(Step)
    BY <1>4, <2>2
  <2>4. value' = value /\ index' = index BY <2>1 DEF GetReply, redis
  <2>5. CASE value[id] = Nil /\ Continue(c, Rest(c), Nil, found[c])
    <3>1. Sound(f, Tail(T), Nil, F, sc, del)' BY <1>2, <1>3, <2>3, <2>4, <2>5, GetMiss
    <3> QED BY <1>1, <1>6, <2>3, <2>5, <3>1
  <2>6. CASE Continue(c, DeleteSteps(id) \o Rest(c), Nil, found[c])
    <3>1. Sound(f, DeleteSteps(id) \o Tail(T), Nil, F, sc, del)'
      BY <1>2, <1>3, <2>3, <2>4, GetExpired
    <3>2. DeleteSteps(id) \o Tail(T) \in Seq(Step) BY <2>3, KeySteps
    <3> QED BY <1>1, <1>6, <2>3, <2>6, <3>1, <3>2
  <2>7. CASE /\ value[id] # Nil
             /\ Continue(c, Rest(c), Stored(id), IF keep THEN Append(found[c], id) ELSE found[c])
    <3>1. PICK F1, g1 : /\ F1 = IF keep THEN Append(found[c], id) ELSE found[c]
                        /\ g1 = Stored(id)
      OBVIOUS
    <3>2. /\ T[1].cmd = "GET_MEMBER" => F1 = Append(F, id)
          /\ T[1].cmd = "GET" => F1 = F
      <4>1. CASE keep BY <1>1, <2>2, <2>3, <3>1, <4>1
      <4>2. CASE ~keep BY <1>1, <2>2, <2>3, <3>1, <4>2
      <4> QED BY <4>1, <4>2
    <3>3. Sound(f, Tail(T), g1, F1, sc, del)' BY <1>2, <1>3, <2>3, <2>4, <2>7, <3>2, GetHit
    <3>4. Continue(c, Tail(T), g1, F1) BY <2>3, <2>7, <3>1
    <3> QED BY <1>6, <2>3, <3>3, <3>4
  <2> QED BY <2>1, <2>5, <2>6, <2>7 DEF GetReply
<1>8. ASSUME NEW s \in Inputs, Set(c, s) PROVE SoundAfter(c)
  <2>1. SetTo(c, s) /\ Continue(c, Rest(c), Nil, found[c]) BY <1>5, <1>8 DEF Set
  <2>2. PICK cmd \in {"SET", "REPLACE"} : Pending(c, cmd, s) /\ (cmd = "REPLACE" => g # Nil)
    BY <1>1, <1>8 DEF Set
  <2>3. /\ T # <<>> /\ f \in Functions /\ T[1].cmd = cmd /\ T[1].arg = s
        /\ Rest(c) = Tail(T) /\ Tail(T) \in Seq(Step)
    BY <1>4, <2>2
  <2>4. /\ value'[s.id] # Nil /\ (Stored(s.id))' = s
        /\ \A x \in Ids : x # s.id => value'[x] = value[x]
        /\ index' = index
    <3>1. now \in Nat /\ RedisOK BY RedisAssumption DEF TypeInv
    <3> QED BY <2>1, <3>1, SetTypes
  <2>5. Sound(f, Tail(T), Nil, F, sc, del)' BY <1>2, <1>3, <2>2, <2>3, <2>4, SetMove
  <2> QED BY <1>1, <1>6, <2>1, <2>3, <2>5
<1>9. ASSUME NEW s \in Inputs, UpdateMissing(c, s) PROVE SoundAfter(c)
  BY <1>9, SoloGiveUp
<1>10. ASSUME NEW s \in Inputs, Sadd(c, s) PROVE SoundAfter(c)
  <2>1. AddTo(s) /\ Continue(c, Rest(c), Nil, found[c]) /\ Pending(c, "SADD", s)
    BY <1>5, <1>10 DEF Sadd
  <2>2. /\ T # <<>> /\ f \in Functions /\ T[1] = Do("SADD", s)
        /\ Rest(c) = Tail(T) /\ Tail(T) \in Seq(Step)
    BY <1>4, <2>1
  <2>3. value' = value /\ index' = [index EXCEPT ![s.user_id] = @ \cup {s.id}] BY <2>1 DEF AddTo
  <2>4. Sound(f, Tail(T), Nil, F, sc, del)' BY <1>2, <1>3, <2>2, <2>3, SaddMove
  <2> QED BY <1>1, <1>6, <2>1, <2>2, <2>4
<1>11. ASSUME NEW id \in Ids, Del(c, id) PROVE SoundAfter(c)
  <2>1. PICK P : P = IF g = Nil THEN <<>> ELSE <<Do("SREM", id)>> OBVIOUS
  <2>2. Drop(id) /\ Continue(c, P \o Rest(c), got[c], found[c]) /\ Pending(c, "DEL", id)
    BY <1>1, <1>5, <1>11, <2>1 DEF Del
  <2>3. /\ T # <<>> /\ f \in Functions /\ T[1] = Do("DEL", id)
        /\ Rest(c) = Tail(T) /\ Tail(T) \in Seq(Step)
    BY <1>4, <2>2
  <2>4. value'[id] = Nil /\ index' = index /\ \A x \in Ids : x # id => value'[x] = value[x]
    BY <2>2, DelTypes DEF TypeInv
  <2>5. Sound(f, P \o Tail(T), g, F, sc, del)' BY <1>2, <1>3, <2>1, <2>3, <2>4, DelMove
  <2>6. P \o Tail(T) \in Seq(Step)
    <3>1. Do("SREM", id) \in Step BY DEF Do, Step, OnKey
    <3>2. P \in Seq(Step) BY <2>1, <3>1
    <3> QED BY <2>3, <3>2
  <2> QED BY <1>1, <1>6, <2>2, <2>3, <2>5, <2>6
<1>12. ASSUME NEW id \in Ids, Srem(c, id) PROVE SoundAfter(c)
  <2>1. RemoveFrom(c, id) /\ Continue(c, Rest(c), Nil, found[c]) /\ Pending(c, "SREM", id)
    BY <1>5, <1>12 DEF Srem
  <2>2. /\ T # <<>> /\ f \in Functions /\ T[1] = Do("SREM", id)
        /\ Rest(c) = Tail(T) /\ Tail(T) \in Seq(Step)
    BY <1>4, <2>1
  <2>3. PICK v : value' = value /\ index' = [index EXCEPT ![v] = @ \ {id}] BY <2>1 DEF RemoveFrom
  <2>4. Sound(f, Tail(T), Nil, F, sc, del)' BY <1>2, <1>3, <2>2, <2>3, SremMove
  <2> QED BY <1>1, <1>6, <2>1, <2>2, <2>4
<1>13. ASSUME NEW u \in Users, Smembers(c, u) PROVE SoundAfter(c)
  <2>1. PICK m \in SetToSeqs(index[u]) :
          Continue(c, [i \in DOMAIN m |-> Do("GET_MEMBER", m[i])] \o Rest(c), Nil, <<>>)
    BY <1>5, <1>13 DEF Smembers
  <2>2. Pending(c, "SMEMBERS", u) /\ value' = value /\ index' = index
    BY <1>5, <1>13 DEF Smembers, redis
  <2>3. /\ T # <<>> /\ f \in Functions /\ T[1] = Do("SMEMBERS", u)
        /\ Rest(c) = Tail(T) /\ Tail(T) \in Seq(Step)
    BY <1>4, <2>2
  <2> DEFINE M == [i \in DOMAIN m |-> Do("GET_MEMBER", m[i])]
  <2>4. m \in Seq(Ids)
    <3>1. IsFiniteSet(index[u]) /\ index[u] \subseteq Ids BY DEF TypeInv, RedisOK, IndexOK
    <3>2. m \in Seq(index[u]) BY <3>1, MembersAll
    <3> QED BY <3>1, <3>2
  <2>5. M \in Seq(Step)
    <3>1. \A i \in DOMAIN m : Do("GET_MEMBER", m[i]) \in Step BY <2>4 DEF Do, Step, OnKey
    <3>2. Len(m) \in Nat /\ DOMAIN m = 1..Len(m) BY <2>4
    <3>3. M \in [1..Len(m) -> Step] BY <3>1, <3>2
    <3> QED BY <3>2, <3>3
  <2>6. PICK M1 : M1 = M OBVIOUS
  <2>7. Sound(f, M \o Tail(T), Nil, <<>>, sc, del)' BY <1>2, <1>3, <2>2, <2>3, SmembersMove
  <2>8. Continue(c, M \o Tail(T), Nil, <<>>) BY <2>1, <2>3
  <2> HIDE DEF M
  <2>9. Sound(f, M1 \o Tail(T), Nil, <<>>, sc, del)' /\ Continue(c, M1 \o Tail(T), Nil, <<>>)
    BY <2>6, <2>7, <2>8
  <2>10. M1 \o Tail(T) \in Seq(Step) BY <2>3, <2>5, <2>6
  <2> QED BY <1>6, <2>9, <2>10
<1>14. ASSUME NEW u \in Users, DeleteFound(c, u) PROVE SoundAfter(c)
  <2>1. Pending(c, "DELETE_FOUND", u) /\ value' = value /\ index' = index BY <1>14 DEF DeleteFound, redis
  <2>2. /\ T # <<>> /\ f \in Functions /\ T[1].cmd = "DELETE_FOUND"
        /\ Rest(c) = Tail(T) /\ Tail(T) \in Seq(Step)
    BY <1>4, <2>1
  <2>3. CASE found[c] = <<>> /\ Continue(c, Rest(c), Nil, <<>>)
    <3>1. Sound(f, T, g, <<>>, sc, del) BY <1>1, <1>2, <2>3
    <3>2. Sound(f, Tail(T), Nil, <<>>, sc, del)' BY <1>3, <2>1, <2>2, <3>1, LoopEnds
    <3> QED BY <1>6, <2>2, <2>3, <3>2
  <2>4. CASE found[c] # <<>> /\ Continue(c, DeleteSteps(Head(found[c])) \o todo[c], Nil, Tail(found[c]))
    <3>1. F # <<>> /\ Continue(c, DeleteSteps(Head(F)) \o T, Nil, Tail(F)) BY <1>1, <2>4
    <3>2. Sound(f, DeleteSteps(Head(F)) \o T, Nil, Tail(F), sc, del)'
      BY <1>2, <1>3, <2>1, <2>2, <3>1, LoopMove
    <3>3. Head(F) \in Ids BY <1>3, <3>1
    <3>4. DeleteSteps(Head(F)) \o T \in Seq(Step) BY <1>3, <3>3, KeySteps
    <3> QED BY <1>6, <3>1, <3>2, <3>4
  <2> QED BY <1>14, <2>3, <2>4 DEF DeleteFound
<1>15. ASSUME NEW u \in Users, DelIndex(c, u) PROVE SoundAfter(c)
  <2>1. Forget(u) /\ Continue(c, Rest(c), Nil, <<>>) /\ Pending(c, "DEL_INDEX", u)
    BY <1>5, <1>15 DEF DelIndex
  <2>2. /\ T # <<>> /\ f \in Functions /\ T[1] = Do("DEL_INDEX", u)
        /\ Rest(c) = Tail(T) /\ Tail(T) \in Seq(Step)
    BY <1>4, <2>1
  <2>3. value' = value /\ index' = [index EXCEPT ![u] = {}] BY <2>1 DEF Forget
  <2>4. Sound(f, Tail(T), Nil, <<>>, sc, del)' BY <1>2, <1>3, <2>2, <2>3, ForgetMove
  <2> QED BY <1>6, <2>1, <2>2, <2>4
<1>16. ASSUME NEW id \in Ids, Overflow(c, id) PROVE SoundAfter(c)
  <2>1. failed' = TRUE BY <1>16 DEF Overflow
  <2> QED BY <2>1
<1> QED BY <1>7, <1>8, <1>9, <1>10, <1>11, <1>12, <1>13, <1>14, <1>15, <1>16 DEF Command

\* A call that begins is about to delete what it has to remove.
LEMMA SoloBegin ==
  ASSUME TypeInv, NEW c \in Clients, Clients = {c},
         Sound(fn[c], todo[c], got[c], found[c], scope[c], deleted),
         NEW f \in Functions, NEW steps \in Seq(Step), steps # <<>>, NEW gone, NEW fresh,
         Begin(c, f, steps, gone, fresh),
         Planned(f, steps), steps[1].cmd # "SREM", steps[1].cmd # "DEL_INDEX",
         ScopeOK(f, steps, gone),
         \A x \in gone : Doomed(steps, <<>>, x),
         f = "delete_by_user_id" => steps[1].cmd = "SMEMBERS",
         f = "create" => steps[Len(steps)].arg.id \in fresh,
         f = "update" => Len(steps) # 2
  PROVE  SoundAfter(c)
<1>1. todo[c] = <<>> /\ fn[c] = "none" BY DEF Begin, Idle, TypeInv, CallsOK
<1>2. found[c] = <<>> BY <1>1 DEF Sound, FoundOK
<1>3. PICK g, sc, del : g = got[c] /\ sc = gone \ Creating /\ del = deleted \ fresh OBVIOUS
<1>4. /\ fn'[c] = f /\ todo'[c] = steps /\ got'[c] = g /\ found'[c] = <<>> /\ scope'[c] = sc
      /\ deleted' = del
  BY <1>2, <1>3 DEF Begin, TypeInv, CallsOK, locals
<1>5. value' = value /\ index' = index BY DEF Begin, redis
<1>6. Indexed(steps)' BY <1>1, <1>5 DEF Sound, Indexed, Stored
<1>7. SremLate(steps)' BY DEF SremLate
<1>8. FoundOK(f, steps, <<>>) BY DEF FoundOK
<1>9. ScopeOK(f, steps, sc) BY <1>3 DEF ScopeOK
<1>10. Covered(f, steps, <<>>, sc)' BY <1>3 DEF Covered, ToGo, Doomed
<1>11. AllGone(del)' BY <1>3, <1>5 DEF Sound, AllGone
<1>12. WritesFresh(f, steps, g, del) BY <1>3 DEF WritesFresh
<1>13. Sound(f, steps, g, <<>>, sc, del)'
  BY <1>6, <1>7, <1>8, <1>9, <1>10, <1>11, <1>12 DEF Sound
<1> QED BY <1>4, <1>13 DEF SoundAfter, Sound, Indexed, SremLate, Covered, ToGo, AllGone

\* Every call begins soundly.
LEMMA SoloCall ==
  ASSUME TypeInv, NEW c \in Clients, Clients = {c},
         Sound(fn[c], todo[c], got[c], found[c], scope[c], deleted), Call(c)
  PROVE  SoundAfter(c)
<1>0. {"create", "get", "update", "delete", "get_by_user_id", "delete_by_user_id"} \subseteq Functions
  BY DEF Functions
<1>1. \A cmd, arg : Do(cmd, arg).cmd = cmd /\ Do(cmd, arg).arg = arg BY DEF Do
<1>2. \A id \in Ids : Do("GET", id) \in OnKey BY DEF Do, OnKey
<1>3. ASSUME NEW s \in Inputs, Begin(c, "create", CreateSteps(s), {}, {s.id})
      PROVE  SoundAfter(c)
  <2>1. PICK T : T = CreateSteps(s) OBVIOUS
  <2>2. T \in Seq(Step) /\ Len(T) = 2 /\ T[1] = Do("SET", s) /\ T[2] = Do("SADD", s) /\ DOMAIN T = 1..2
    BY <2>1, SessionSteps
  <2>3. T # <<>>
    <3>1. T \in Seq(Step) /\ Len(T) >= 1 BY <2>2
    <3> QED BY <3>1, NonEmpty, Zenon
  <2>4. T[1].cmd = "SET" /\ T[2].cmd = "SADD" /\ T[2].arg = s BY <1>1, <2>2
  <2>5. Planned("create", T) BY <2>2, <2>4 DEF Planned
  <2>6. ScopeOK("create", T, {}) BY DEF ScopeOK
  <2> QED BY <1>0, <1>3, <2>1, <2>2, <2>3, <2>4, <2>5, <2>6, SoloBegin
<1>4. ASSUME NEW s \in Inputs, Begin(c, "update", UpdateSteps(s), {}, {})
      PROVE  SoundAfter(c)
  <2>1. PICK T : T = UpdateSteps(s) OBVIOUS
  <2>2. /\ T \in Seq(Step) /\ Len(T) = 3 /\ DOMAIN T = 1..3
        /\ T[1] = Do("GET", s.id) /\ T[2] = Do("REPLACE", s) /\ T[3] = Do("SADD", s)
    BY <2>1, SessionSteps
  <2>3. T # <<>>
    <3>1. T \in Seq(Step) /\ Len(T) >= 1 BY <2>2
    <3> QED BY <3>1, NonEmpty, Zenon
  <2>4. T[1].cmd = "GET" /\ T[1].arg = s.id /\ T[2].cmd = "REPLACE" /\ T[3].cmd = "SADD" /\ T[3].arg = s
    BY <1>1, <2>2
  <2>5. Planned("update", T) BY <2>2, <2>4 DEF Planned
  <2>6. ScopeOK("update", T, {}) BY DEF ScopeOK
  <2>7. Begin(c, "update", T, {}, {}) /\ T \in Seq(Step) /\ Len(T) # 2 BY <1>4, <2>1, <2>2
  <2> QED BY <1>0, <2>3, <2>4, <2>5, <2>6, <2>7, SoloBegin
<1>5. ASSUME NEW id \in Ids, Begin(c, "get", GetSteps(id), {}, {})
      PROVE  SoundAfter(c)
  <2>1. PICK T : T = GetSteps(id) OBVIOUS
  <2>2. T \in Seq(Step) /\ Len(T) = 1 /\ DOMAIN T = 1..1 /\ T[1] = Do("GET", id) BY <2>1, KeySteps
  <2>3. T # <<>>
    <3>1. T \in Seq(Step) /\ Len(T) >= 1 BY <2>2
    <3> QED BY <3>1, NonEmpty, Zenon
  <2>4. T[1].cmd = "GET" BY <1>1, <2>2
  <2>5. Planned("get", T) BY <2>2, <2>4 DEF Planned
  <2>6. ScopeOK("get", T, {}) BY DEF ScopeOK
  <2> QED BY <1>0, <1>5, <2>1, <2>2, <2>3, <2>4, <2>5, <2>6, SoloBegin
<1>6. ASSUME NEW id \in Ids, Begin(c, "delete", DeleteSteps(id), {id}, {})
      PROVE  SoundAfter(c)
  <2>1. PICK T : T = DeleteSteps(id) OBVIOUS
  <2>2. /\ T \in Seq(Step) /\ Len(T) = 2 /\ DOMAIN T = 1..2
        /\ T[1] = Do("GET", id) /\ T[2] = Do("DEL", id)
    BY <2>1, KeySteps
  <2>3. T # <<>>
    <3>1. T \in Seq(Step) /\ Len(T) >= 1 BY <2>2
    <3> QED BY <3>1, NonEmpty, Zenon
  <2>4. T[1].cmd = "GET" /\ T[2].cmd = "DEL" /\ T[2].arg = id BY <1>1, <2>2
  <2>5. Planned("delete", T) BY <2>2, <2>4 DEF Planned
  <2>6. ScopeOK("delete", T, {id}) BY DEF ScopeOK
  <2>7. Doomed(T, <<>>, id) BY <2>2, <2>4 DEF Doomed
  <2> QED BY <1>0, <1>6, <2>1, <2>2, <2>3, <2>4, <2>5, <2>6, <2>7, SoloBegin
<1>7. ASSUME NEW u \in Users, Begin(c, "get_by_user_id", GetByUserIdSteps(u), {}, {})
      PROVE  SoundAfter(c)
  <2>1. PICK T : T = GetByUserIdSteps(u) OBVIOUS
  <2>2. T \in Seq(Step) /\ Len(T) = 1 /\ DOMAIN T = 1..1 /\ T[1] = Do("SMEMBERS", u)
    BY <2>1, UserSteps
  <2>3. T # <<>>
    <3>1. T \in Seq(Step) /\ Len(T) >= 1 BY <2>2
    <3> QED BY <3>1, NonEmpty, Zenon
  <2>4. T[1].cmd = "SMEMBERS" BY <1>1, <2>2
  <2>5. Planned("get_by_user_id", T) BY <2>2, <2>4 DEF Planned
  <2>6. ScopeOK("get_by_user_id", T, {}) BY DEF ScopeOK
  <2> QED BY <1>0, <1>7, <2>1, <2>2, <2>3, <2>4, <2>5, <2>6, SoloBegin
<1>8. ASSUME NEW u \in Users,
             Begin(c, "delete_by_user_id", DeleteByUserIdSteps(u),
                   {s.id : s \in {t \in Inputs : t.user_id = u}}, {})
      PROVE  SoundAfter(c)
  <2> DEFINE S == {s.id : s \in {t \in Inputs : t.user_id = u}}
  <2>1. PICK T : T = DeleteByUserIdSteps(u) OBVIOUS
  <2>2. /\ T \in Seq(Step) /\ Len(T) = 3 /\ DOMAIN T = 1..3 /\ T[1] = Do("SMEMBERS", u)
        /\ T[2] = Do("DELETE_FOUND", u) /\ T[3] = Do("DEL_INDEX", u)
    BY <2>1, UserSteps
  <2>3. T # <<>>
    <3>1. T \in Seq(Step) /\ Len(T) >= 1 BY <2>2
    <3> QED BY <3>1, NonEmpty, Zenon
  <2>4. T[1].cmd = "SMEMBERS" /\ T[2].cmd = "DELETE_FOUND" /\ T[3].cmd = "DEL_INDEX" /\ T[3].arg = u
    BY <1>1, <2>2
  <2>5. Planned("delete_by_user_id", T) BY <2>2, <2>4 DEF Planned
  <2>6. ScopeOK("delete_by_user_id", T, S) BY <2>2, <2>4 DEF ScopeOK
  <2>7. \A x : Doomed(T, <<>>, x) BY <2>3, <2>4 DEF Doomed
  <2>8. Begin(c, "delete_by_user_id", T, S, {}) BY <1>8, <2>1
  <2> HIDE DEF S
  <2> QED BY <1>0, <2>2, <2>3, <2>4, <2>5, <2>6, <2>7, <2>8, SoloBegin
<1> QED BY <1>3, <1>4, <1>5, <1>6, <1>7, <1>8 DEF Call

\* Keys that Redis drops were in nobody's way.
LEMMA SoloTick ==
  ASSUME TypeInv, NEW c \in Clients,
         Sound(fn[c], todo[c], got[c], found[c], scope[c], deleted), Tick
  PROVE  SoundAfter(c)
<1>1. PICK f, T, g, F, sc, del :
        f = fn[c] /\ T = todo[c] /\ g = got[c] /\ F = found[c] /\ sc = scope[c] /\ del = deleted
  OBVIOUS
<1>2. Sound(f, T, g, F, sc, del) /\ del \subseteq Ids BY <1>1 DEF TypeInv, CallsOK
<1>3. /\ fn'[c] = f /\ todo'[c] = T /\ got'[c] = g /\ found'[c] = F /\ scope'[c] = sc
      /\ deleted' = del /\ index' = index
  BY <1>1 DEF Tick, locals
<1>4. \A x \in Ids : value'[x] = Nil \/ value'[x] = value[x] BY DEF Tick
<1>5. \A x \in Ids : value'[x] # Nil => value'[x] = value[x] /\ (Stored(x))' = Stored(x)
  BY <1>4 DEF Stored
<1>6. Indexed(T)' BY <1>2, <1>3, <1>5 DEF Sound, Indexed
<1>7. SremLate(T)'
  <2> SUFFICES ASSUME T # <<>>, T[1].cmd = "SREM" PROVE value'[T[1].arg] = Nil BY DEF SremLate
  <2>1. value[T[1].arg] = Nil BY <1>2 DEF Sound, SremLate
  <2>2. T[1].arg \in Ids
    <3>1. T \in Seq(Step) BY <1>1 DEF TypeInv, CallsOK
    <3>2. T[1] \in Step BY <3>1
    <3> QED BY <3>2, StepKinds
  <2> QED BY <1>4, <2>1, <2>2
<1>8. Covered(f, T, F, sc)' BY <1>2, <1>5 DEF Sound, Covered, ToGo
<1>9. AllGone(del)' BY <1>2, <1>4 DEF Sound, AllGone
<1>10. Sound(f, T, g, F, sc, del)' BY <1>2, <1>6, <1>7, <1>8, <1>9 DEF Sound
<1> QED BY <1>3, <1>10 DEF SoundAfter, Sound, Indexed, SremLate, Covered, ToGo, AllGone

\* Every step of one client keeps it sound, as long as nothing fails.
LEMMA SoloNext ==
  ASSUME TypeInv, SoloInv, [Next]_vars
  PROVE  SoloInv'
<1> SUFFICES ASSUME OneClient, ~failed', NEW c \in Clients PROVE SoundAfter(c)
  BY DEF SoloInv, SoundAfter, OneClient
<1>1. Clients = {c} BY DEF OneClient
<1>2. ~failed
  <2>1. ASSUME NEW d \in Clients, Command(d) PROVE failed' = failed \/ failed' = TRUE
    BY <2>1 DEF Command, Get, Overflow, Set, UpdateMissing, Sadd, Del, Srem, Smembers, DeleteFound, DelIndex,
                GetReply, Answered, Refused, ReplyLost
  <2>2. ASSUME NEW d \in Clients, Call(d) PROVE failed' = failed
    BY <2>2 DEF Call, Begin
  <2>3. failed' = failed \/ failed' = TRUE
    BY <2>1, <2>2 DEF Next, Restart, Tick, vars
  <2> QED BY <2>3 DEF TypeInv, CallsOK
<1>3. Sound(fn[c], todo[c], got[c], found[c], scope[c], deleted) BY <1>2 DEF SoloInv
<1>4. CASE Call(c) BY <1>1, <1>3, <1>4, SoloCall
<1>5. CASE Command(c) BY <1>1, <1>3, <1>5, SoloCommand
<1>6. CASE Restart(c)
  <2>1. failed' = TRUE BY <1>6 DEF Restart
  <2> QED BY <2>1
<1>7. CASE Tick BY <1>3, <1>7, SoloTick
<1>8. CASE UNCHANGED vars
  BY <1>3, <1>8 DEF vars, redis, locals, SoundAfter, Sound, Indexed, SremLate, Covered, ToGo, AllGone, Stored
<1> QED BY <1>1, <1>4, <1>5, <1>6, <1>7, <1>8 DEF Next

\* One client begins with nothing stored.
LEMMA SoloInit ==
  ASSUME Init
  PROVE  SoloInv
<1> SUFFICES ASSUME NEW c \in Clients
             PROVE  Sound(fn[c], todo[c], got[c], found[c], scope[c], deleted)
  BY DEF SoloInv
<1>1. /\ fn[c] = "none" /\ todo[c] = <<>> /\ got[c] = Nil /\ found[c] = <<>> /\ scope[c] = {}
      /\ deleted = {}
  BY DEF Init
<1>2. Indexed(<<>>) /\ AllGone({}) BY DEF Init, Indexed, AllGone
<1>3. Sound("none", <<>>, Nil, <<>>, {}, {}) BY <1>2, SoundIdle
<1> QED BY <1>1, <1>3

\* What the index and the deletions of one client rest on.
THEOREM SoloInvariant == Spec => []SoloInv
<1>1. Init => TypeInv /\ SoloInv BY TypeInit, SoloInit
<1>2. TypeInv /\ SoloInv /\ [Next]_vars => SoloInv' BY SoloNext
<1>3. TypeInv /\ [Next]_vars => TypeInv' BY TypeNext
<1> QED BY <1>1, <1>2, <1>3, PTL DEF Spec

\* A server that is the only client of its Redis keeps its index complete: as
\* long as no command fails, every stored session is in its user's set between
\* two calls, so redis_delete_by_user_id finds it.
THEOREM OneClientIndexComplete == Spec => [](OneClient => IndexComplete)
<1>1. SoloInv => (OneClient => IndexComplete)
  <2> SUFFICES ASSUME SoloInv, OneClient, ~failed, \A c \in Clients : Idle(c),
                      NEW id \in Ids, value[id] # Nil
               PROVE  id \in index[Stored(id).user_id]
    BY DEF IndexComplete
  <2>1. PICK c \in Clients : TRUE BY DEF OneClient
  <2>2. todo[c] = <<>> BY <2>1 DEF Idle
  <2> QED BY <2>1, <2>2 DEF SoloInv, Sound, Indexed
<1> QED BY <1>1, SoloInvariant, PTL

\* For such a server a deletion that reported success stays done: as long as no
\* command fails, nothing it deleted, alone or with its user's other sessions, is
\* stored again before it is created again.
THEOREM OneClientDeletionTakesEffect == Spec => [](OneClient => DeletionTakesEffect)
<1>1. SoloInv => (OneClient => DeletionTakesEffect)
  <2> SUFFICES ASSUME SoloInv, OneClient, ~failed PROVE DeletedIsGone
    BY DEF DeletionTakesEffect
  <2>1. PICK c \in Clients : TRUE BY DEF OneClient
  <2> QED BY <2>1 DEF SoloInv, Sound, AllGone, DeletedIsGone
<1> QED BY <1>1, SoloInvariant, PTL
=============================================================================
