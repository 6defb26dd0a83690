------------------------------ MODULE Session ------------------------------
(***************************************************************************)
(* The session object of session.c: the record every store keeps and every *)
(* manager call copies, changes and writes back.                            *)
(*                                                                         *)
(* Strings are model values: what the code compares with strcmp is compared *)
(* with = here.  Nil stands for a NULL pointer and, in expires_at, for a    *)
(* session whose has_expires flag is false.                                 *)
(***************************************************************************)
EXTENDS Integers

CONSTANTS
  Ids,         \* session identifiers (UUIDv7 strings)
  Users,       \* user identifiers
  Keys,        \* public keys (JWK JSON strings)
  Challenges,  \* the challenges 32 random bytes can give
  Fallback,    \* the constant "fallback-challenge" of manager.c
  Nil,         \* NULL
  SessionTtl   \* OpenDBSC_ManagerConfig.session_ttl_seconds

ASSUME NilAssumption == Nil \notin Ids \cup Users \cup Keys \cup Challenges

ASSUME FallbackAssumption == Fallback \notin Challenges /\ Fallback # Nil

ASSUME TtlAssumption == SessionTtl \in Nat

Algorithms == {"none", "ES256", "RS256", "other"}

ASSUME NilAlgorithmAssumption == Nil \notin Algorithms

ChallengeValues == Challenges \cup {Fallback}

Session ==
  [id: Ids, user_id: Users, state: {"active", "bound"},
   public_key: Keys \cup {Nil}, algorithm: Algorithms \cup {Nil},
   challenge: ChallengeValues, expires_at: Nat \cup {Nil}, created_at: Nat]

ASSUME NilSessionAssumption == Nil \notin Session

\* apply_session_ttl: a positive ttl moves the expiry, any other clears it.
ExpiryAt(t) == IF SessionTtl > 0 THEN t + SessionTtl ELSE Nil

\* opendbsc_session_init
EmptySession ==
  [id |-> Nil, user_id |-> Nil, state |-> "active", public_key |-> Nil,
   algorithm |-> Nil, challenge |-> Nil, expires_at |-> Nil, created_at |-> 0]

\* The session opendbsc_manager_initiate fills in field by field.
NewSession(id, u, c, t) ==
  [id |-> id, user_id |-> u, state |-> "active", public_key |-> Nil,
   algorithm |-> Nil, challenge |-> c, expires_at |-> ExpiryAt(t),
   created_at |-> t]

\* The bind of opendbsc_manager_register: key, algorithm, challenge, expiry.
Bound(s, key, alg, c, t) ==
  [s EXCEPT !.state = "bound", !.public_key = key, !.algorithm = alg,
            !.challenge = c, !.expires_at = ExpiryAt(t)]

\* Mutant of Extended: the creation time is set again.
ExtendedRecreated(s, c, t) ==
  [s EXCEPT !.challenge = c, !.expires_at = ExpiryAt(t), !.created_at = t]

\* The rotation of opendbsc_manager_refresh: challenge and expiry only.
Extended(s, c, t) == [s EXCEPT !.challenge = c, !.expires_at = ExpiryAt(t)]

\* Strictly after: a session is still good in the second it expires in.
IsExpired(s, t) == s.expires_at # Nil /\ t > s.expires_at
=============================================================================
