----------------------------- MODULE ProofFlow -----------------------------
(***************************************************************************)
(* The two verification flows of jwt.c in sequence, over every token: a     *)
(* registration pins the key of its proof, refreshes are checked against    *)
(* it, and each rotates the challenge.  Expiry, the store and overlapping   *)
(* calls are Manager's; here keys of both families, and keys OpenSSL cannot *)
(* load, meet proofs in every format, and the setters of session.c fail,    *)
(* which the manager does not look at.                                      *)
(***************************************************************************)
EXTENDS ProofJWT

CONSTANT Tokens  \* the tokens clients send

ASSUME TokensAssumption == Tokens \subseteq Token

VARIABLES
  bound,      \* whether a registration was accepted
  stored,     \* session.public_key
  challenge,  \* session.challenge
  flow,       \* the flow of the last call
  token,      \* its proof, if it was accepted
  accepted,   \* its outcome
  asked,      \* history: the session's challenge when it came
  issued,     \* history: the challenges generated
  spent,      \* history: the challenges that were accepted
  replayed,   \* history: whether one was accepted again
  failed      \* history: the fields whose setter failed

vars == <<bound, stored, challenge, flow, token, accepted, asked, issued, spent, replayed, failed>>

Init ==
  /\ bound = FALSE
  /\ stored = Nil
  /\ challenge \in Challenges
  /\ flow = "none"
  /\ token = Nil
  /\ accepted = FALSE
  /\ asked = challenge
  /\ issued = {challenge}
  /\ spent = {}
  /\ replayed = FALSE
  /\ failed = {}

\* set_string of session.c: a copy that fails leaves the field as it was.
set_string(old, v, field, lost) == IF v # Nil /\ field \in lost THEN old ELSE v

\* Mutant of Rotated: refresh forgets to store the new challenge.
RotatedOnce(c, lost) == IF bound THEN challenge ELSE set_string(challenge, c, "challenge", lost)

Rotated(c, lost) == set_string(challenge, c, "challenge", lost)

KeyStored(t, lost) == set_string(stored, t.jwk, "public_key", lost)

\* The outcome of a call with proof t: what an accepted one changes, with a
\* new challenge and failing setters.
Settle(name, t, ok) ==
  /\ flow' = name
  /\ token' = IF ok THEN t ELSE Nil
  /\ accepted' = ok
  /\ asked' = challenge
  /\ \/ ~ok /\ UNCHANGED <<bound, stored, challenge, issued, spent, replayed, failed>>
     \/ /\ ok
        /\ \E c \in Challenges \ issued, lost \in SUBSET {"public_key", "challenge"} :
             /\ name = "refresh" => "public_key" \notin lost
             /\ challenge' = Rotated(c, lost)
             /\ stored' = IF name = "register" THEN KeyStored(t, lost) ELSE stored
             /\ issued' = issued \cup {c}
             /\ failed' = failed \cup lost
        /\ bound' = TRUE
        /\ spent' = spent \cup {challenge}
        /\ replayed' = (replayed \/ challenge \in spent)

\* opendbsc_manager_register, as far as the proof goes.
Register(t) ==
  /\ ~bound
  /\ Settle("register", t, DecodeAndVerify(t) /\ t.challenge = challenge)

\* opendbsc_manager_refresh, as far as the proof goes.
Refresh(t) ==
  /\ bound
  /\ Settle("refresh", t,
            stored # Nil /\ VerifyWithJwk(t, stored) /\ t.challenge = challenge)

Next == \E t \in Tokens : Register(t) \/ Refresh(t)

Spec == Init /\ [][Next]_vars

-----------------------------------------------------------------------------
\* An accepted proof was made over the challenge the session asked for, which
\* the session then asks for no longer, unless the setter failed.  A refresh was
\* signed by the registered key and brought no key of its own; a registration
\* was signed by the key it brought, except the unsigned "none", which brings
\* none.  A key that was lost to a failing setter is nobody's: no proof is
\* accepted after it.
AcceptedIsOwned ==
  accepted =>
    /\ token.challenge = asked
    /\ challenge # asked \/ "challenge" \in failed
    /\ \/ flow = "refresh" /\ token.signer = stored /\ token.jwk = Nil
       \/ flow = "register" /\ token.jwk # Nil /\ token.signer = token.jwk
       \/ flow = "register" /\ token.jwk = Nil /\ token.algorithm = "none"

\* A challenge is accepted a second time only after a setter failed to store
\* its successor, which the manager ignores.
ReplayOnlyWithoutMemory == replayed => "challenge" \in failed

\* The refresh proof a holder of key k makes by the book.
HonestRefresh(k) ==
  [parses |-> TRUE, algorithm |-> [EC |-> "ES256", RSA |-> "RS256", bad |-> "other"][KeyType[k]],
   type |-> "dbsc+jwt", jwk |-> Nil, challenge |-> Fallback, authorization |-> Nil,
   signature |-> [EC |-> "raw", RSA |-> "pkcs1", bad |-> "der"][KeyType[k]], signer |-> k]

\* No registration locks its owner out: whatever form the accepted proof had,
\* the standard refresh proof of the registered key verifies.
RegisteredKeyRefreshes ==
  stored # Nil => VerifyWithJwk(HonestRefresh(stored), stored)
=============================================================================
