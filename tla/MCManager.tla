----------------------------- MODULE MCManager -----------------------------
(***************************************************************************)
(* Manager on small instances.  All keys are EC keys, so that keys, ids and *)
(* challenges can be permuted; ProofJWT's own runs mix the key families.    *)
(***************************************************************************)
EXTENDS Manager, TLC

MCKeyType == [k \in Keys |-> "EC"]

\* A registration proof: signed by the key it carries.
Registration(k) ==
  [parses |-> TRUE, algorithm |-> "ES256", type |-> "dbsc+jwt", jwk |-> k,
   challenge |-> Nil, authorization |-> Authorization, signature |-> "raw",
   signer |-> k]

\* A refresh proof: no key in it.
Refresh(k) == [Registration(k) EXCEPT !.jwk = Nil, !.authorization = Nil]

\* A proof without key and without signature.
Unsigned == [Registration(Nil) EXCEPT !.algorithm = "none"]

GoodShapes == {Registration(k) : k \in Keys} \cup {Refresh(k) : k \in Keys}

\* Adds the key-less proof, which a registration accepts.
UnforgedShapes == GoodShapes \cup {Unsigned}

\* The proofs of one key's owner, and what the owner of another key makes: a
\* registration of the first one's key, and a refresh signed with its own.
ForgedShapes ==
  LET mine == CHOOSE k \in Keys : TRUE
  IN  {Registration(mine), Refresh(mine)} \cup
      UNION {{[Registration(mine) EXCEPT !.signer = k], Refresh(k)} :
               k \in Keys \ {mine}}

\* Adds a proof signed by a key other than its own, and one that does not
\* return the authorization value.
AllShapes ==
  UnforgedShapes
  \cup {[Registration(k) EXCEPT !.signer = Nil] : k \in Keys}
  \cup {[Registration(k) EXCEPT !.authorization = Nil] : k \in Keys}

\* The calls under way that will rotate their session's challenge.
Rotating ==
  {w \in Workers :
     \/ pc[w] = "register" /\ RegistrationAccepted(header[w], loaded[w])
     \/ pc[w] = "refresh" /\ RefreshAccepted(header[w], loaded[w])}

\* The bound on challenges: a state that needs more of them than are left is
\* not explored further.  The code has 2^256.
EnoughChallenges ==
  Cardinality(Rotating) <= Cardinality(Challenges \ IssuedChallenges)

\* The bound on failures of getentropy: a state in which the constant was given
\* to a second session, or announced by a second call, is not explored further.
FewFallbacks ==
  /\ Cardinality({i \in issued : i.challenge = Fallback}) <= 1
  /\ Cardinality({e \in events : e.next = Fallback}) <= 1

Symmetry == Permutations(Ids) \cup Permutations(Keys) \cup Permutations(Challenges)
WorkerSymmetry == Symmetry \cup Permutations(Workers)

\* The keys of ForgedShapes are not alike.
ForgedSymmetry ==
  Permutations(Users) \cup Permutations(Ids) \cup Permutations(Challenges)
  \cup Permutations(Workers)
=============================================================================
