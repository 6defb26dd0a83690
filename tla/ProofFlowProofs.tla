-------------------------- MODULE ProofFlowProofs --------------------------
(***************************************************************************)
(* Proofs about the two verification flows, for every set of keys, of       *)
(* challenges and of tokens that clients may send.                          *)
(*                                                                         *)
(* The first two lemmas say what the flows of jwt.c establish about a token *)
(* they accept; they unfold the verification once, and the invariants use   *)
(* nothing else of it.                                                      *)
(***************************************************************************)
EXTENDS ProofFlow, TLAPS

\* What decode_and_verify establishes about a registration proof: a proof with
\* a key is signed by that key, which OpenSSL loads.
LEMMA RegistrationProof ==
  ASSUME NEW t \in Token, DecodeAndVerify(t)
  PROVE  /\ t.jwk = Nil => t.algorithm = "none"
         /\ t.jwk # Nil => t.signer = t.jwk /\ KeyLoads(t.jwk)
BY DEF DecodeAndVerify, CheckRegistrationJwkRules, VerifySignatureWithJwk, EVP_DigestVerify

\* What verify_with_jwk establishes about a refresh proof: it is signed by the
\* key it is checked against, and brings none.
LEMMA RefreshProof ==
  ASSUME NEW t \in Token, NEW key, VerifyWithJwk(t, key)
  PROVE  t.jwk = Nil /\ t.signer = key
BY DEF VerifyWithJwk, VerifySignatureWithJwk, EVP_DigestVerify

\* The standard proof of a key that loads, of either family, verifies.
LEMMA HonestRefreshVerifies ==
  ASSUME NEW k \in Keys, KeyLoads(k)
  PROVE  VerifyWithJwk(HonestRefresh(k), k)
<1>1. KeyType[k] \in {"EC", "RSA"}
  BY DEF KeyLoads
<1>2. Fallback # Nil /\ Nil # "ES256" /\ Nil # "RS256"
  BY FallbackAssumption, NilAlgorithmAssumption DEF Algorithms
<1>3. CASE KeyType[k] = "EC"
  <2>1. /\ HonestRefresh(k).parses
        /\ HonestRefresh(k).algorithm = "ES256"
        /\ HonestRefresh(k).type = "dbsc+jwt"
        /\ HonestRefresh(k).jwk = Nil
        /\ HonestRefresh(k).challenge = Fallback
        /\ HonestRefresh(k).signature = "raw"
        /\ HonestRefresh(k).signer = k
    BY <1>3 DEF HonestRefresh
  <2>2. EVP_DigestVerify(HonestRefresh(k), k)
    BY <1>3, <2>1 DEF EVP_DigestVerify, CheckedForm
  <2> QED
    BY <1>2, <2>1, <2>2 DEF VerifyWithJwk, Decodes, Parses, CheckProofType,
       VerifySignatureWithJwk, SignatureConverts
<1>4. CASE KeyType[k] = "RSA"
  <2>1. /\ HonestRefresh(k).parses
        /\ HonestRefresh(k).algorithm = "RS256"
        /\ HonestRefresh(k).type = "dbsc+jwt"
        /\ HonestRefresh(k).jwk = Nil
        /\ HonestRefresh(k).challenge = Fallback
        /\ HonestRefresh(k).signature = "pkcs1"
        /\ HonestRefresh(k).signer = k
    BY <1>4 DEF HonestRefresh
  <2>2. EVP_DigestVerify(HonestRefresh(k), k)
    BY <1>4, <2>1 DEF EVP_DigestVerify, CheckedForm
  <2> QED
    BY <1>2, <2>1, <2>2 DEF VerifyWithJwk, Decodes, Parses, CheckProofType,
       VerifySignatureWithJwk, SignatureConverts
<1> QED
  BY <1>1, <1>3, <1>4

-----------------------------------------------------------------------------
\* What is stored is a key that loads.
KeyIsGood == stored # Nil => stored \in Keys /\ KeyLoads(stored)

\* As long as every challenge was stored, the current one is not spent.
ChallengeIsUnspent ==
  /\ challenge \in issued
  /\ spent \subseteq issued
  /\ "challenge" \notin failed => challenge \notin spent /\ ~replayed

FlowInv == AcceptedIsOwned /\ KeyIsGood /\ ChallengeIsUnspent

\* Init of the flow satisfies the inductive invariant.
LEMMA FlowInvInit == Init => FlowInv
BY DEF Init, FlowInv, AcceptedIsOwned, KeyIsGood, ChallengeIsUnspent

\* A call that refuses its proof changes neither key nor challenge.
LEMMA RefusedStep ==
  ASSUME FlowInv, NEW name, NEW t, NEW ok, ~ok, Settle(name, t, ok)
  PROVE  FlowInv'
BY DEF FlowInv, AcceptedIsOwned, KeyIsGood, ChallengeIsUnspent, Settle

\* A call that accepts its proof rotates the challenge to one never issued, or
\* records that it could not.
LEMMA AcceptedStep ==
  ASSUME FlowInv, NEW name, NEW t, NEW ok, ok, Settle(name, t, ok)
  PROVE  /\ ChallengeIsUnspent'
         /\ asked' = challenge /\ (challenge' # asked' \/ "challenge" \in failed')
<1>1. PICK c \in Challenges \ issued, lost \in SUBSET {"public_key", "challenge"} :
        /\ challenge' = Rotated(c, lost)
        /\ issued' = issued \cup {c}
        /\ failed' = failed \cup lost
  BY DEF Settle
<1>2. spent' = spent \cup {challenge} /\ replayed' = (replayed \/ challenge \in spent)
  BY DEF Settle
<1>3. challenge' = c \/ (challenge' = challenge /\ "challenge" \in lost)
  BY <1>1 DEF Rotated, set_string
<1>4. asked' = challenge
  BY DEF Settle
<1> QED
  BY <1>1, <1>2, <1>3, <1>4 DEF FlowInv, ChallengeIsUnspent

\* The registration flow keeps the invariant.
LEMMA RegisterStep ==
  ASSUME FlowInv, NEW t \in Tokens, Register(t)
  PROVE  FlowInv'
<1> DEFINE ok == DecodeAndVerify(t) /\ t.challenge = challenge
<1>1. Settle("register", t, ok)
  BY DEF Register
<1>2. t \in Token
  BY TokensAssumption
<1>3. CASE ~ok
  BY <1>1, <1>3, RefusedStep
<1>4. CASE ok
  <2>1. /\ ChallengeIsUnspent'
        /\ asked' = challenge /\ (challenge' # asked' \/ "challenge" \in failed')
    <3> HIDE DEF ok
    <3> QED BY <1>1, <1>4, AcceptedStep
  <2>2. flow' = "register" /\ token' = t
    BY <1>1, <1>4 DEF Settle
  <2>3. AcceptedIsOwned'
    BY <1>2, <1>4, <2>1, <2>2, RegistrationProof DEF AcceptedIsOwned
  <2>4. stored' = stored \/ stored' = t.jwk
    BY <1>1, <1>4 DEF Settle, KeyStored, set_string
  <2>5. KeyIsGood'
    BY <1>2, <1>4, <2>4, RegistrationProof DEF FlowInv, KeyIsGood, Token, KeyLoads
  <2> QED
    BY <2>1, <2>3, <2>5 DEF FlowInv
<1> QED
  BY <1>3, <1>4

\* The refresh flow keeps the invariant.
LEMMA RefreshStep ==
  ASSUME FlowInv, NEW t \in Tokens, Refresh(t)
  PROVE  FlowInv'
<1> DEFINE ok == stored # Nil /\ VerifyWithJwk(t, stored) /\ t.challenge = challenge
<1>1. Settle("refresh", t, ok)
  BY DEF Refresh
<1>2. t \in Token
  BY TokensAssumption
<1>3. CASE ~ok
  BY <1>1, <1>3, RefusedStep
<1>4. CASE ok
  <2>1. /\ ChallengeIsUnspent'
        /\ asked' = challenge /\ (challenge' # asked' \/ "challenge" \in failed')
    <3> HIDE DEF ok
    <3> QED BY <1>1, <1>4, AcceptedStep
  <2>2. flow' = "refresh" /\ token' = t /\ stored' = stored
    BY <1>1, <1>4 DEF Settle
  <2>3. AcceptedIsOwned'
    BY <1>2, <1>4, <2>1, <2>2, RefreshProof DEF AcceptedIsOwned
  <2>5. KeyIsGood'
    BY <2>2 DEF FlowInv, KeyIsGood, KeyLoads
  <2> QED
    BY <2>1, <2>3, <2>5 DEF FlowInv
<1> QED
  BY <1>3, <1>4

\* Every behaviour of the flows keeps the inductive invariant.
THEOREM FlowInvariant == Spec => []FlowInv
<1>1. FlowInv /\ [Next]_vars => FlowInv'
  <2> SUFFICES ASSUME FlowInv, [Next]_vars PROVE FlowInv'
    OBVIOUS
  <2>1. CASE Next
    BY <2>1, RegisterStep, RefreshStep DEF Next
  <2>2. CASE UNCHANGED vars
    BY <2>2 DEF vars, FlowInv, AcceptedIsOwned, KeyIsGood, KeyLoads, ChallengeIsUnspent
  <2> QED
    BY <2>1, <2>2
<1> QED
  BY <1>1, FlowInvInit, PTL DEF Spec

\* Whatever tokens are sent and whichever setters fail: an accepted proof is over
\* the challenge the session asked for and, but for a registration with "none",
\* signed by the key it registers or by the one registered before.
THEOREM ProofsAreOwned == Spec => []AcceptedIsOwned
BY FlowInvariant, PTL DEF FlowInv

\* A challenge is accepted twice only after a setter lost its successor.
THEOREM ReplayNeedsLostSetter == Spec => []ReplayOnlyWithoutMemory
<1>1. FlowInv => ReplayOnlyWithoutMemory
  BY DEF FlowInv, ChallengeIsUnspent, ReplayOnlyWithoutMemory
<1> QED
  BY <1>1, FlowInvariant, PTL

\* Every key a registration stores can refresh with the standard proof.
THEOREM RegistrationLocksNobodyOut == Spec => []RegisteredKeyRefreshes
<1>1. FlowInv => RegisteredKeyRefreshes
  BY HonestRefreshVerifies DEF FlowInv, KeyIsGood, RegisteredKeyRefreshes
<1> QED
  BY <1>1, FlowInvariant, PTL
=============================================================================
