------------------------------ MODULE MCSystem ------------------------------
(***************************************************************************)
(* System with one browser, which signs with an EC key.  Challenges are     *)
(* numbers here, and are generated in order.  Nothing in the specification  *)
(* tells one challenge from another, so every other order is a renaming of  *)
(* this one.                                                                *)
(***************************************************************************)
EXTENDS System

MCKeyType == [k \in Keys |-> "EC"]

MCKeyOf == [b \in Clients |-> CHOOSE k \in Keys : TRUE]

MCTokenShapes == {Proof(k, jwk, Nil) : k \in Keys, jwk \in Keys \cup {Nil}}

InOrder == \A c \in IssuedChallenges : \A d \in Challenges : d < c => d \in IssuedChallenges
=============================================================================
