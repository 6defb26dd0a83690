------------------------------ MODULE Manager ------------------------------
(***************************************************************************)
(* The DBSC session manager (manager.c) over a session store.               *)
(*                                                                         *)
(* Every worker is a thread or a server process that calls the manager.  A  *)
(* call reads the store, works on its own copy of the session and writes it *)
(* back; nothing locks the session in between.  So each call is split where *)
(* others can get in: at its store calls.  What happens between two store   *)
(* calls is local to the worker and belongs to the later one's action.      *)
(***************************************************************************)
EXTENDS SessionStore, ProofJWT

CONSTANTS
  Workers,
  TokenShapes,     \* proofs clients send, before a challenge is filled in
  Authorization,   \* OpenDBSC_ManagerConfig.authorization, or Nil
  EntropyMayFail,  \* whether getentropy may fail
  AllocMayFail     \* whether the allocations the manager checks may fail

ASSUME TokenShapesAssumption == TokenShapes \subseteq Token

ASSUME AuthorizationAssumption == Authorization \in Authorizations \cup {Nil}

ASSUME FailureAssumption == EntropyMayFail \in BOOLEAN /\ AllocMayFail \in BOOLEAN

VARIABLES
  pc,       \* where each worker is: idle, or before the write of a call
  loaded,   \* the worker's copy of the session
  header,   \* the Secure-Session-Response header of the call
  owned,    \* whether the worker's last proof struct still owns heap memory
  resp,     \* the worker's last OpenDBSC_ManagerResponse and return code
  usedIds,  \* history: identifiers generated so far
  issued,   \* history: challenges generated so far and for which session
  events    \* history: what emit_event reported

workerVars == <<pc, loaded, header, owned, resp>>
historyVars == <<usedIds, issued, events>>
vars == <<storeVars, workerVars, historyVars>>

Response ==
  [rc: {0, -1}, status: {0, 200, 400, 401, 403}, session: Ids \cup {Nil},
   challenge: ChallengeValues \cup {Nil}, cookie: {"none", "set", "clear"},
   body: {"none", "text", "continue", "stop"}]

Event ==
  [type: {"LOGIN", "REGISTER", "REFRESH", "CLOSE"}, session: Ids,
   key: Keys \cup {Nil}, signer: Keys \cup {Nil},
   jti: ChallengeValues \cup {Nil}, next: ChallengeValues \cup {Nil}]

\* The fields of a response: session and challenge are those of its headers.
Respond(rc, status, id, c, cookie, body) ==
  [rc |-> rc, status |-> status, session |-> id, challenge |-> c,
   cookie |-> cookie, body |-> body]

\* opendbsc_manager_response_init
EmptyResponse == Respond(0, 0, Nil, Nil, "none", "none")

InternalError == Respond(-1, 0, Nil, Nil, "none", "none")

ErrorResponse(status) == Respond(0, status, Nil, Nil, "none", "text")

\* Mutant of ChallengeResponse: 403 without the challenge header.
ChallengeResponseBare(s) == Respond(0, 403, s.id, Nil, "none", "text")

\* set_challenge_response: the stored challenge is announced again.
ChallengeResponse(s) == Respond(0, 403, s.id, s.challenge, "none", "text")

\* Login: cookie, and the challenge in the registration header.
LoginResponse(s) == Respond(0, 200, s.id, s.challenge, "set", "none")

\* Registration and refresh: cookie, next challenge, instruction body.
SuccessResponse(s) == Respond(0, 200, s.id, s.challenge, "set", "continue")

\* Close: a cookie with Max-Age=0, and "continue": false.
CloseResponse(s, rc) == Respond(rc, 200, s.id, Nil, "clear", "stop")

\* opendbsc_manager_get_session answers with its return code alone.
LookupResponse(out) ==
  Respond(IF out = Nil THEN -1 ELSE 0, 0, Nil, Nil, "none", "none")

\* Mutant of emit_event: session and key in the wrong order.
emit_event_swapped(type, id, key, signer, jti, next) ==
  events' = events \cup
    {[type |-> type, session |-> key, key |-> id, signer |-> signer,
      jti |-> jti, next |-> next]}

emit_event(type, id, key, signer, jti, next) ==
  events' = events \cup
    {[type |-> type, session |-> id, key |-> key, signer |-> signer,
      jti |-> jti, next |-> next]}

IssuedChallenges == {i.challenge : i \in issued}

\* generate_challenge: random bytes, or the constant when getentropy fails.
generate_challenge ==
  (Challenges \ IssuedChallenges) \cup (IF EntropyMayFail THEN {Fallback} ELSE {})

\* opendbsc_session_new_id: a UUIDv7 nobody has.
session_new_id == Ids \ usedIds

Issue(c, id) == issued' = issued \cup {[challenge |-> c, session |-> id]}

\* The headers a client can send: none, a proof without jti, or a proof over
\* some challenge handed out earlier.
Headers ==
  {Nil} \cup TokenShapes \cup
  {[t EXCEPT !.challenge = c] : t \in TokenShapes, c \in IssuedChallenges}

-----------------------------------------------------------------------------
Init ==
  /\ StoreInit
  /\ pc = [w \in Workers |-> "idle"]
  /\ loaded = [w \in Workers |-> Nil]
  /\ header = [w \in Workers |-> Nil]
  /\ owned = [w \in Workers |-> FALSE]
  /\ resp = [w \in Workers |-> EmptyResponse]
  /\ usedIds = {}
  /\ issued = {}
  /\ events = {}

\* The call returns with response r; leak says whether its proof is not freed.
Return(w, r, leak) ==
  /\ pc' = [pc EXCEPT ![w] = "idle"]
  /\ loaded' = [loaded EXCEPT ![w] = Nil]
  /\ header' = [header EXCEPT ![w] = Nil]
  /\ owned' = [owned EXCEPT ![w] = leak]
  /\ resp' = [resp EXCEPT ![w] = r]

\* The call goes on to step, with its copy s of the session.
Proceed(w, step, s, hdr) ==
  /\ pc' = [pc EXCEPT ![w] = step]
  /\ loaded' = [loaded EXCEPT ![w] = s]
  /\ header' = [header EXCEPT ![w] = hdr]
  /\ owned' = [owned EXCEPT ![w] = FALSE]
  /\ resp' = [resp EXCEPT ![w] = EmptyResponse]

-----------------------------------------------------------------------------
\* opendbsc_manager_initiate
InitiateStore(w, u, id, c, ok) ==
  LET s == NewSession(id, u, c, now)
  IN  /\ Create(s, ok)
      /\ usedIds' = usedIds \cup {id}
      /\ Issue(c, id)
      /\ \/ /\ ok
            /\ emit_event("LOGIN", id, Nil, Nil, Nil, c)
            /\ Return(w, LoginResponse(s), FALSE)
         \/ /\ ~ok
            /\ UNCHANGED events
            /\ Return(w, InternalError, FALSE)

Initiate(w, u) ==
  /\ pc[w] = "idle"
  /\ \E id \in session_new_id, c \in generate_challenge, ok \in BOOLEAN :
       InitiateStore(w, u, id, c, ok)

\* No identifier without entropy, no challenge without memory.
InitiateFails(w) ==
  /\ pc[w] = "idle"
  /\ EntropyMayFail \/ AllocMayFail
  /\ Return(w, InternalError, FALSE)
  /\ UNCHANGED <<storeVars, historyVars>>

\* opendbsc_manager_get_session
GetSession(w, id) ==
  /\ pc[w] = "idle"
  /\ \E out \in {sessions[id], Nil} :
       /\ Get(id, out)
       /\ Return(w, LookupResponse(out), FALSE)
  /\ UNCHANGED historyVars

-----------------------------------------------------------------------------
\* opendbsc_manager_register up to its store read and the checks that need
\* no proof.
RegisterMissingCookie(w) ==
  /\ pc[w] = "idle"
  /\ Return(w, ErrorResponse(401), FALSE)
  /\ UNCHANGED <<storeVars, historyVars>>

\* Mutant of RegisterLoad: the state of the session is not looked at.
RegisterLoadAnyState(w, id, hdr) ==
  /\ pc[w] = "idle"
  /\ \E out \in {sessions[id], Nil} :
       /\ Get(id, out)
       /\ \/ /\ out = Nil
             /\ Return(w, ErrorResponse(401), FALSE)
          \/ /\ out # Nil
             /\ hdr # Nil
             /\ Proceed(w, "register", out, hdr)
  /\ UNCHANGED historyVars

RegisterLoad(w, id, hdr) ==
  /\ pc[w] = "idle"
  /\ \E out \in {sessions[id], Nil} :
       /\ Get(id, out)
       /\ \/ /\ out = Nil
             /\ Return(w, ErrorResponse(401), FALSE)
          \/ /\ out # Nil
             /\ out.state # "active"
             /\ Return(w, ErrorResponse(400), FALSE)
          \/ /\ out # Nil
             /\ out.state = "active"
             /\ hdr = Nil
             /\ Return(w, ChallengeResponse(out), FALSE)
          \/ /\ out # Nil
             /\ out.state = "active"
             /\ hdr # Nil
             /\ Proceed(w, "register", out, hdr)
  /\ UNCHANGED historyVars

AuthorizationMatches(t) == Authorization # Nil => t.authorization = Authorization

RegistrationAccepted(t, s) ==
  /\ DecodeAndVerify(t)
  /\ t.challenge = s.challenge
  /\ AuthorizationMatches(t)

\* 403 and the same challenge again.  A proof that decodes but does not
\* verify is not freed; one with the wrong challenge or authorization is.
RegisterReject(w) ==
  /\ pc[w] = "register"
  /\ ~RegistrationAccepted(header[w], loaded[w])
  /\ Return(w, ChallengeResponse(loaded[w]),
            Decodes(header[w]) /\ ~DecodeAndVerify(header[w]))
  /\ UNCHANGED <<storeVars, historyVars>>

RegisterNoChallenge(w) ==
  /\ pc[w] = "register"
  /\ RegistrationAccepted(header[w], loaded[w])
  /\ AllocMayFail
  /\ Return(w, InternalError, FALSE)
  /\ UNCHANGED <<storeVars, historyVars>>

\* Mutant of RegisterStore: the response is built before the rotation.
RegisterStoreOldChallenge(w, c, ok) ==
  LET t == header[w]
      s == Bound(loaded[w], t.jwk, t.algorithm, c, now)
  IN  /\ Update(s, ok)
      /\ Issue(c, s.id)
      /\ UNCHANGED <<usedIds, events>>
      /\ Return(w, SuccessResponse(loaded[w]), FALSE)

\* Mutant of RegisterStore: the result of the update is ignored.
RegisterStoreUnchecked(w, c, ok) ==
  LET t == header[w]
      s == Bound(loaded[w], t.jwk, t.algorithm, c, now)
  IN  /\ Update(s, ok)
      /\ Issue(c, s.id)
      /\ UNCHANGED usedIds
      /\ emit_event("REGISTER", s.id, t.jwk, t.signer, t.challenge, c)
      /\ Return(w, SuccessResponse(s), FALSE)

\* The bind and its store update.
RegisterStore(w, c, ok) ==
  LET t == header[w]
      s == Bound(loaded[w], t.jwk, t.algorithm, c, now)
  IN  /\ Update(s, ok)
      /\ Issue(c, s.id)
      /\ UNCHANGED usedIds
      /\ \/ /\ ok
            /\ emit_event("REGISTER", s.id, t.jwk, t.signer, t.challenge, c)
            /\ Return(w, SuccessResponse(s), FALSE)
         \/ /\ ~ok
            /\ UNCHANGED events
            /\ Return(w, InternalError, FALSE)

RegisterBind(w) ==
  /\ pc[w] = "register"
  /\ RegistrationAccepted(header[w], loaded[w])
  /\ \E c \in generate_challenge, ok \in BOOLEAN : RegisterStore(w, c, ok)

-----------------------------------------------------------------------------
\* opendbsc_manager_refresh, split like registration.
RefreshMissingId(w) ==
  /\ pc[w] = "idle"
  /\ Return(w, ErrorResponse(400), FALSE)
  /\ UNCHANGED <<storeVars, historyVars>>

RefreshLoad(w, id, hdr) ==
  /\ pc[w] = "idle"
  /\ \E out \in {sessions[id], Nil} :
       /\ Get(id, out)
       /\ \/ /\ out = Nil
             /\ Return(w, ErrorResponse(401), FALSE)
          \/ /\ out # Nil
             /\ out.state # "bound"
             /\ Return(w, ErrorResponse(400), FALSE)
          \/ /\ out # Nil
             /\ out.state = "bound"
             /\ hdr = Nil
             /\ Return(w, ChallengeResponse(out), FALSE)
          \/ /\ out # Nil
             /\ out.state = "bound"
             /\ hdr # Nil
             /\ Proceed(w, "refresh", out, hdr)
  /\ UNCHANGED historyVars

RefreshVerified(t, s) == s.public_key # Nil /\ VerifyWithJwk(t, s.public_key)

RefreshAccepted(t, s) == RefreshVerified(t, s) /\ t.challenge = s.challenge

\* With no stored key the proof is never decoded, so there is none to free.
RefreshReject(w) ==
  /\ pc[w] = "refresh"
  /\ ~RefreshAccepted(header[w], loaded[w])
  /\ Return(w, ChallengeResponse(loaded[w]),
            /\ loaded[w].public_key # Nil
            /\ Decodes(header[w])
            /\ ~RefreshVerified(header[w], loaded[w]))
  /\ UNCHANGED <<storeVars, historyVars>>

\* Both error returns after the verification keep the proof allocated.
RefreshNoChallenge(w) ==
  /\ pc[w] = "refresh"
  /\ RefreshAccepted(header[w], loaded[w])
  /\ AllocMayFail
  /\ Return(w, InternalError, TRUE)
  /\ UNCHANGED <<storeVars, historyVars>>

RefreshStore(w, c, ok) ==
  LET t == header[w]
      s == Extended(loaded[w], c, now)
  IN  /\ Update(s, ok)
      /\ Issue(c, s.id)
      /\ UNCHANGED usedIds
      /\ \/ /\ ok
            /\ emit_event("REFRESH", s.id, s.public_key, t.signer, t.challenge, c)
            /\ Return(w, SuccessResponse(s), FALSE)
         \/ /\ ~ok
            /\ UNCHANGED events
            /\ Return(w, InternalError, TRUE)

RefreshExtend(w) ==
  /\ pc[w] = "refresh"
  /\ RefreshAccepted(header[w], loaded[w])
  /\ \E c \in generate_challenge, ok \in BOOLEAN : RefreshStore(w, c, ok)

-----------------------------------------------------------------------------
\* opendbsc_manager_close
CloseMissingId(w) ==
  /\ pc[w] = "idle"
  /\ Return(w, ErrorResponse(400), FALSE)
  /\ UNCHANGED <<storeVars, historyVars>>

CloseLoad(w, id) ==
  /\ pc[w] = "idle"
  /\ \E out \in {sessions[id], Nil} :
       /\ Get(id, out)
       /\ \/ /\ out = Nil
             /\ Return(w, ErrorResponse(401), FALSE)
          \/ /\ out # Nil
             /\ AllocMayFail
             /\ Return(w, InternalError, FALSE)
          \/ /\ out # Nil
             /\ Proceed(w, "close", out, Nil)
  /\ UNCHANGED historyVars

\* Mutant of CloseDelete: what the delete returned is not passed on.
CloseDeleteUnchecked(w, ok) ==
  /\ pc[w] = "close"
  /\ Delete(loaded[w].id, ok)
  /\ UNCHANGED events
  /\ Return(w, CloseResponse(loaded[w], 0), FALSE)
  /\ UNCHANGED <<usedIds, issued>>

\* The response is complete before the delete, whatever the delete returns.
CloseDelete(w, ok) ==
  /\ pc[w] = "close"
  /\ Delete(loaded[w].id, ok)
  /\ \/ /\ ok
        /\ emit_event("CLOSE", loaded[w].id, Nil, Nil, Nil, Nil)
        /\ Return(w, CloseResponse(loaded[w], 0), FALSE)
     \/ /\ ~ok
        /\ UNCHANGED events
        /\ Return(w, CloseResponse(loaded[w], -1), FALSE)
  /\ UNCHANGED <<usedIds, issued>>

-----------------------------------------------------------------------------
ClockTick == Tick /\ UNCHANGED <<workerVars, historyVars>>

WorkerStep(w) ==
  \/ \E u \in Users : Initiate(w, u)
  \/ InitiateFails(w)
  \/ \E id \in Ids : GetSession(w, id)
  \/ RegisterMissingCookie(w)
  \/ \E id \in Ids : \E hdr \in Headers : RegisterLoad(w, id, hdr)
  \/ RegisterReject(w)
  \/ RegisterNoChallenge(w)
  \/ RegisterBind(w)
  \/ RefreshMissingId(w)
  \/ \E id \in Ids : \E hdr \in Headers : RefreshLoad(w, id, hdr)
  \/ RefreshReject(w)
  \/ RefreshNoChallenge(w)
  \/ RefreshExtend(w)
  \/ CloseMissingId(w)
  \/ \E id \in Ids : CloseLoad(w, id)
  \/ \E ok \in BOOLEAN : CloseDelete(w, ok)

Next == ClockTick \/ \E w \in Workers : WorkerStep(w)

Spec == Init /\ [][Next]_vars

-----------------------------------------------------------------------------
WorkerTypeOK ==
  /\ pc \in [Workers -> {"idle", "register", "refresh", "close"}]
  /\ loaded \in [Workers -> Session \cup {Nil}]
  /\ header \in [Workers -> Token \cup {Nil}]
  /\ owned \in [Workers -> BOOLEAN]
  /\ resp \in [Workers -> Response]

HistoryTypeOK ==
  /\ usedIds \subseteq Ids
  /\ issued \subseteq [challenge: ChallengeValues, session: Ids]
  /\ events \subseteq Event

\* Every variable holds a value of its type, and a session is stored under
\* its own identifier.
TypeOK == StoreTypeOK /\ WorkerTypeOK /\ HistoryTypeOK

\* The key a registration acknowledged is the one the session has for as long
\* as it exists: opendbsc_manager_register binds once and nothing replaces it.
KeyPinned ==
  \A e \in events :
    e.type = "REGISTER" /\ sessions[e.session] # Nil =>
      /\ sessions[e.session].state = "bound"
      /\ sessions[e.session].public_key = e.key

\* A challenge is spent by the call that accepts a proof over it: no two
\* acknowledged registrations or refreshes, of one session or of two, rest on
\* the same challenge (register and refresh rotate it before they answer).  The
\* one exception is the constant of generate_challenge: while getentropy fails
\* it is rotated into itself, but it never makes a random challenge good again.
SpentOnce ==
  \A e1, e2 \in events :
    e1.jti \notin {Nil, Fallback} /\ e1.jti = e2.jti => e1 = e2

\* The challenge in a worker's last response, in the registration or in the
\* challenge header, is the one the session still expects: the client that
\* answers it is not turned away.
AnnouncedChallengeIsCurrent ==
  \A w \in Workers :
    LET s == sessions[resp[w].session]
    IN  resp[w].challenge # Nil => s = Nil \/ s.challenge = resp[w].challenge

\* Every acknowledged registration or refresh with a key was signed by that
\* very key, over a challenge that was generated for that very session.
ProvenPossession ==
  \A e \in events :
    e.type \in {"REGISTER", "REFRESH"} =>
      /\ e.signer = e.key \/ e.key = Nil
      /\ [challenge |-> e.jti, session |-> e.session] \in issued

\* A session whose close was acknowledged never comes back, whatever calls
\* were already holding a copy of it when opendbsc_manager_close deleted it.
ClosedStaysClosed ==
  \A e \in events : e.type = "CLOSE" => sessions[e.session] = Nil

\* A close that returns 0 with its complete response (status 200, cookie
\* cleared) has removed the session, and no call brings it back; after a delete
\* that failed the response is the same and only the return code, -1, tells.
CloseIsTruthful ==
  \A w \in Workers :
    resp[w].rc = 0 /\ resp[w].cookie = "clear" => sessions[resp[w].session] = Nil

\* Writing back a copy never changes whose session it is or when it began,
\* and never unbinds it.
SessionIdentityStable ==
  [][\A id \in Ids :
       sessions[id] # Nil /\ sessions'[id] # Nil =>
         /\ sessions'[id].user_id = sessions[id].user_id
         /\ sessions'[id].created_at = sessions[id].created_at
         /\ sessions[id].state = "bound" => sessions'[id].state = "bound"]_vars

\* No call returns while its proof struct still owns memory.
ProofReleased == \A w \in Workers : pc[w] = "idle" => ~owned[w]
=============================================================================
