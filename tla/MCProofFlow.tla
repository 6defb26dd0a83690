---------------------------- MODULE MCProofFlow ----------------------------
(***************************************************************************)
(* ProofFlow with two EC keys, an RSA key and one that does not load.  All  *)
(* combinations of claims and signatures are tried; tokens that do not even *)
(* parse, or carry no typ at all, are represented by one each.              *)
(***************************************************************************)
EXTENDS ProofFlow, TLC

\* Challenges are only compared with each other.
Symmetry == Permutations(Challenges)

CONSTANTS ec1, ec2, rsa1, junk

MCKeyType ==
  [k \in Keys |-> IF k \in {ec1, ec2} THEN "EC" ELSE IF k = junk THEN "bad" ELSE "RSA"]

Tried == {t \in Token : t.challenge # Fallback /\ t.parses /\ t.type # Nil}

MCTokens ==
  LET honest == HonestRefresh(ec1)
  IN  Tried \cup {[honest EXCEPT !.parses = FALSE], [honest EXCEPT !.type = Nil]}
=============================================================================
