---------------------------- MODULE MCRedisStore ----------------------------
(***************************************************************************)
(* RedisStore on a small instance: two sessions of one user, which expire   *)
(* at 2, or never: with the clock one ahead they can be stored with time    *)
(* left (at 0), with none left (at 1) and when they have expired (at 2).    *)
(***************************************************************************)
EXTENDS RedisStore

CONSTANT ClockAhead  \* the same for every client

MCAhead == [c \in Clients |-> ClockAhead]

MCInputs ==
  {[id |-> id, user_id |-> u, state |-> "bound", public_key |-> Nil,
    algorithm |-> Nil, challenge |-> ch, expires_at |-> t, created_at |-> 0] :
     id \in Ids, u \in Users, ch \in Challenges, t \in {2, Nil}}

Symmetry == Permutations(Ids) \cup Permutations(Clients)
=============================================================================
