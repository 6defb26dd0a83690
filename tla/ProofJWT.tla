------------------------------ MODULE ProofJWT ------------------------------
(***************************************************************************)
(* Decoding and verification of DBSC proof JWTs (jwt.c).                    *)
(*                                                                         *)
(* A token is abstracted to what the checks look at.  parses says whether   *)
(* the three parts split, base64url-decode and parse as JSON.  signer is    *)
(* the key that really signed this header and payload, Nil if none did, and *)
(* signature the byte format it is in: "raw" is the 64-byte R||S of JWS     *)
(* ES256, "der" an ASN.1 ECDSA signature, "pkcs1" an RSA signature.         *)
(***************************************************************************)
EXTENDS Session

CONSTANTS
  KeyType,         \* [Keys -> {"EC", "RSA", "bad"}]: what evp_pkey_from_jwk makes of it
  Authorizations   \* authorization values a payload may carry

ASSUME KeyTypeAssumption == KeyType \in [Keys -> {"EC", "RSA", "bad"}]

ASSUME AuthorizationsAssumption == Nil \notin Authorizations

Token ==
  [parses: BOOLEAN, algorithm: Algorithms \cup {Nil},
   type: {"dbsc+jwt", "other"} \cup {Nil}, jwk: Keys \cup {Nil},
   challenge: ChallengeValues \cup {Nil},
   authorization: Authorizations \cup {Nil},
   signature: {"raw", "der", "pkcs1"}, signer: Keys \cup {Nil}]

ASSUME NilTokenAssumption == Nil \notin Token

\* The token splits at its two dots and its parts are base64url.
Parses(t) == t.parses

\* opendbsc_jwt_decode with parse_proof: alg and jti are the required claims.
Decodes(t) == Parses(t) /\ t.algorithm # Nil /\ t.challenge # Nil

\* es256_raw_to_der accepts 64 bytes and nothing else.
SignatureConverts(t) == t.algorithm = "ES256" => t.signature = "raw"

\* The format the signature has when it reaches EVP_DigestVerifyFinal.
CheckedForm(t) == IF t.algorithm = "ES256" THEN "der" ELSE t.signature

\* evp_pkey_from_jwk: the family follows kty; a key with missing or malformed
\* coordinates, modulus or curve does not load.
KeyLoads(key) == key # Nil /\ KeyType[key] \in {"EC", "RSA"}

\* OpenSSL, external: an EC key checks DER signatures, an RSA key PKCS#1 ones.
EVP_DigestVerify(t, key) ==
  /\ t.signer = key
  /\ CheckedForm(t) = [EC |-> "der", RSA |-> "pkcs1", bad |-> "none"][KeyType[key]]

\* verify_signature_with_jwk.  The key's family is never compared with alg.
VerifySignatureWithJwk(t, key) ==
  \/ t.algorithm = "none"
  \/ /\ t.algorithm \in {"ES256", "RS256"}
     /\ SignatureConverts(t)
     /\ KeyLoads(key)
     /\ EVP_DigestVerify(t, key)

CheckProofType(t) == t.type = "dbsc+jwt"

\* "none" tokens carry no key, all others carry one.
CheckRegistrationJwkRules(t) == (t.algorithm = "none") <=> (t.jwk = Nil)

\* Mutant of DecodeAndVerify: the signature is not checked.
DecodeOnly(t) == Decodes(t) /\ CheckProofType(t) /\ CheckRegistrationJwkRules(t)

\* opendbsc_jwt_decode_and_verify: the registration flow.
DecodeAndVerify(t) ==
  /\ Decodes(t)
  /\ CheckProofType(t)
  /\ CheckRegistrationJwkRules(t)
  /\ VerifySignatureWithJwk(t, t.jwk)

\* Mutant of VerifyWithJwk: "none" is let through.
VerifyAllowingNone(t, key) ==
  /\ Decodes(t)
  /\ t.jwk = Nil
  /\ CheckProofType(t)
  /\ VerifySignatureWithJwk(t, key)

\* opendbsc_jwt_verify_with_jwk: the refresh flow, against the stored key.
VerifyWithJwk(t, key) ==
  /\ Decodes(t)
  /\ t.jwk = Nil
  /\ CheckProofType(t)
  /\ t.algorithm # "none"
  /\ VerifySignatureWithJwk(t, key)
=============================================================================
