--------------------------- MODULE MCMemoryStore ---------------------------
(***************************************************************************)
(* MemoryStore on a small instance: sessions of every identifier and user,  *)
(* some of which expire when the clock first moves.                         *)
(***************************************************************************)
EXTENDS MemoryStore

MCInputs ==
  {[id |-> id, user_id |-> u, state |-> "active", public_key |-> Nil,
    algorithm |-> Nil, challenge |-> c, expires_at |-> t, created_at |-> 0] :
     id \in Ids, u \in Users, c \in Challenges, t \in {0, Nil}}

Symmetry == Permutations(Ids) \cup Permutations(Users)
=============================================================================
