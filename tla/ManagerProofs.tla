--------------------------- MODULE ManagerProofs ---------------------------
(***************************************************************************)
(* Theorems about Manager, for every value of its constants: any number of  *)
(* workers, identifiers, keys and challenges, any backend within the store  *)
(* contract, failing or not.  The second half is about calls that do not    *)
(* overlap.                                                                 *)
(***************************************************************************)
EXTENDS Manager, TLAPS

\* What a call holds between its read and its write.
CallsHoldSessions ==
  \A w \in Workers :
    pc[w] # "idle" =>
      /\ loaded[w] # Nil
      /\ pc[w] \in {"register", "refresh"} => header[w] # Nil
      /\ pc[w] = "register" => loaded[w].state = "active"
      /\ pc[w] = "refresh" => loaded[w].state = "bound"

-----------------------------------------------------------------------------
\* The store calls, summed up: one entry changes, to one of few values.

\* create and update leave, under the session's identifier, what was there,
\* the new session, or nothing; update never fills an empty entry.
LEMMA WriteEffect ==
  ASSUME NEW s, NEW ok, Create(s, ok) \/ Update(s, ok), StoreTypeOK, s \in Session
  PROVE  /\ now' = now
         /\ \E v \in {sessions[s.id], s, Nil} :
              sessions' = [sessions EXCEPT ![s.id] = v]
         /\ Update(s, ok) /\ sessions[s.id] = Nil => sessions' = sessions
<1>1. s.id \in Ids
  BY DEF Session
<1>2. sessions = [sessions EXCEPT ![s.id] = sessions[s.id]]
  BY <1>1 DEF StoreTypeOK
<1>3. CASE Create(s, ok)
  <2>1. now' = now /\ \E v \in {sessions[s.id], s, Nil} :
                        sessions' = [sessions EXCEPT ![s.id] = v]
    BY <1>2, <1>3 DEF Create, Torn, Put
  <2> QED BY <2>1, <1>1 DEF Update, Put, StoreTypeOK
<1>4. CASE Update(s, ok)
  BY <1>2, <1>4 DEF Update, Torn, Put
<1> QED BY <1>3, <1>4

\* get changes nothing or removes the session, and returns it or nothing.
LEMMA GetEffect ==
  ASSUME NEW id \in Ids, NEW out, Get(id, out), StoreTypeOK
  PROVE  /\ now' = now
         /\ out \in {sessions[id], Nil}
         /\ out # Nil => sessions' = sessions
         /\ \E v \in {sessions[id], Nil} : sessions' = [sessions EXCEPT ![id] = v]
<1>1. sessions = [sessions EXCEPT ![id] = sessions[id]]
  BY DEF StoreTypeOK
<1> QED BY <1>1 DEF Get, Put

\* An entry set to a session of that identifier, or to nothing, is well typed.
LEMMA PutType ==
  ASSUME StoreTypeOK, now' \in Nat, NEW id \in Ids, NEW v \in Session \cup {Nil},
         v # Nil => v.id = id, sessions' = [sessions EXCEPT ![id] = v]
  PROVE  StoreTypeOK'
BY DEF StoreTypeOK

\* A call that returns a well-formed response keeps the worker variables typed.
LEMMA ReturnType ==
  ASSUME WorkerTypeOK, CallsHoldSessions, NEW w \in Workers, NEW r \in Response,
         NEW leak \in BOOLEAN, Return(w, r, leak)
  PROVE  WorkerTypeOK' /\ CallsHoldSessions'
<1>1. WorkerTypeOK'
  BY DEF WorkerTypeOK, Return
<1>2. CallsHoldSessions'
  BY DEF WorkerTypeOK, Return, CallsHoldSessions
<1> QED BY <1>1, <1>2

\* A call that keeps a session and a header keeps the worker variables typed.
LEMMA ProceedType ==
  ASSUME WorkerTypeOK, CallsHoldSessions, NEW w \in Workers,
         NEW step \in {"register", "refresh", "close"}, NEW s \in Session,
         NEW hdr \in Token \cup {Nil}, step \in {"register", "refresh"} => hdr # Nil,
         step = "register" => s.state = "active",
         step = "refresh" => s.state = "bound",
         Proceed(w, step, s, hdr)
  PROVE  WorkerTypeOK' /\ CallsHoldSessions'
<1>1. EmptyResponse \in Response
  BY DEF EmptyResponse, Respond, Response
<1>2. WorkerTypeOK'
  BY <1>1 DEF WorkerTypeOK, Proceed
<1>3. CallsHoldSessions'
  BY NilSessionAssumption DEF WorkerTypeOK, Proceed, CallsHoldSessions
<1> QED BY <1>2, <1>3

\* Every response the manager builds is a Response.
LEMMA ResponseTypes ==
  /\ EmptyResponse \in Response
  /\ InternalError \in Response
  /\ \A out : LookupResponse(out) \in Response
  /\ \A st \in {400, 401} : ErrorResponse(st) \in Response
  /\ \A s \in Session :
       /\ ChallengeResponse(s) \in Response
       /\ LoginResponse(s) \in Response
       /\ SuccessResponse(s) \in Response
       /\ \A rc \in {0, -1} : CloseResponse(s, rc) \in Response
BY DEF EmptyResponse, InternalError, LookupResponse, ErrorResponse, Respond,
       ChallengeResponse, LoginResponse, SuccessResponse, CloseResponse,
       Response, Session

\* Every session the manager builds or changes is a Session of its identifier.
LEMMA SessionTypes ==
  ASSUME NEW s \in Session, NEW t \in Nat, NEW c \in ChallengeValues
  PROVE  /\ \A key \in Keys \cup {Nil}, alg \in Algorithms \cup {Nil} :
              Bound(s, key, alg, c, t) \in Session
         /\ Extended(s, c, t) \in Session
<1>1. ExpiryAt(t) \in Nat \cup {Nil}
  BY TtlAssumption DEF ExpiryAt
<1> QED BY <1>1 DEF Bound, Extended, Session

\* Every header a client sends is a Token or missing.
LEMMA HeaderType ==
  ASSUME HistoryTypeOK
  PROVE  Headers \subseteq Token \cup {Nil} /\ generate_challenge \subseteq ChallengeValues
<1>1. IssuedChallenges \subseteq ChallengeValues
  BY DEF IssuedChallenges, HistoryTypeOK
<1>2. \A t \in TokenShapes, c \in IssuedChallenges :
        [t EXCEPT !.challenge = c] \in Token
  BY <1>1, TokenShapesAssumption DEF Token
<1> QED BY <1>2, TokenShapesAssumption DEF Headers, generate_challenge, ChallengeValues

-----------------------------------------------------------------------------
\* Type correctness.  TypeOK alone is not inductive: what a call answers is a
\* field of the session it holds, so it must hold one.
TypeInv == TypeOK /\ CallsHoldSessions

\* A step that reads session id and leaves the histories alone.
LEMMA LoadTypeOK ==
  ASSUME TypeInv, NEW w \in Workers, NEW id \in Ids, NEW out, Get(id, out),
         UNCHANGED historyVars, WorkerTypeOK' /\ CallsHoldSessions'
  PROVE  TypeInv'
<1>1. PICK v \in {sessions[id], Nil} : sessions' = [sessions EXCEPT ![id] = v]
  BY GetEffect DEF TypeInv, TypeOK
<1>2. now' = now
  BY GetEffect DEF TypeInv, TypeOK
<1>3. now' \in Nat /\ v \in Session \cup {Nil} /\ (v # Nil => v.id = id)
  BY <1>1, <1>2 DEF TypeInv, TypeOK, StoreTypeOK
<1>4. StoreTypeOK'
  BY <1>1, <1>3, PutType DEF TypeInv, TypeOK
<1>5. HistoryTypeOK'
  BY DEF TypeInv, TypeOK, HistoryTypeOK, historyVars
<1> QED BY <1>4, <1>5 DEF TypeInv, TypeOK

\* A step that writes session s, issues c for it and may report an event.
LEMMA WriteTypeOK ==
  ASSUME TypeInv, NEW s \in Session, NEW ok, Create(s, ok) \/ Update(s, ok),
         NEW c \in ChallengeValues, Issue(c, s.id),
         usedIds' \subseteq Ids, events' \subseteq Event,
         WorkerTypeOK' /\ CallsHoldSessions'
  PROVE  TypeInv'
<1>1. s.id \in Ids
  BY DEF Session
<1>2. PICK v \in {sessions[s.id], s, Nil} : sessions' = [sessions EXCEPT ![s.id] = v]
  BY WriteEffect DEF TypeInv, TypeOK
<1>n. now' = now
  BY WriteEffect DEF TypeInv, TypeOK
<1>3. now' \in Nat /\ v \in Session \cup {Nil} /\ (v # Nil => v.id = s.id)
  BY <1>1, <1>2, <1>n DEF TypeInv, TypeOK, StoreTypeOK
<1>4. StoreTypeOK'
  BY <1>1, <1>2, <1>3, PutType DEF TypeInv, TypeOK
<1>5. HistoryTypeOK'
  BY <1>1 DEF TypeInv, TypeOK, HistoryTypeOK, Issue
<1> QED BY <1>4, <1>5 DEF TypeInv, TypeOK

\* Reporting a well-formed event keeps the histories typed.
LEMMA EventType ==
  ASSUME HistoryTypeOK, NEW type \in {"LOGIN", "REGISTER", "REFRESH", "CLOSE"},
         NEW id \in Ids, NEW key \in Keys \cup {Nil}, NEW signer \in Keys \cup {Nil},
         NEW jti \in ChallengeValues \cup {Nil}, NEW next \in ChallengeValues \cup {Nil},
         emit_event(type, id, key, signer, jti, next)
  PROVE  events' \subseteq Event
BY DEF emit_event, HistoryTypeOK, Event

\* Every step keeps TypeInv: one case per action.
LEMMA TypeStep == TypeInv /\ [Next]_vars => TypeInv'
<1> SUFFICES ASSUME TypeInv, [Next]_vars PROVE TypeInv'
  OBVIOUS
<1> USE ResponseTypes
<1>t. StoreTypeOK /\ WorkerTypeOK /\ HistoryTypeOK /\ CallsHoldSessions
  BY DEF TypeInv, TypeOK
<1>h. Headers \subseteq Token \cup {Nil} /\ generate_challenge \subseteq ChallengeValues
  BY <1>t, HeaderType
<1>u. ASSUME UNCHANGED <<storeVars, historyVars>>, WorkerTypeOK' /\ CallsHoldSessions'
      PROVE  TypeInv'
  BY <1>t, <1>u DEF TypeInv, TypeOK, StoreTypeOK, HistoryTypeOK, storeVars, historyVars
<1>1. CASE UNCHANGED vars
  BY <1>1, <1>t DEF vars, storeVars, workerVars, historyVars, TypeInv, TypeOK,
                    StoreTypeOK, WorkerTypeOK, HistoryTypeOK, CallsHoldSessions
<1>2. CASE ClockTick
  BY <1>2, <1>t DEF ClockTick, Tick, workerVars, historyVars, TypeInv, TypeOK,
                    StoreTypeOK, WorkerTypeOK, HistoryTypeOK, CallsHoldSessions
<1>3. ASSUME NEW w \in Workers, WorkerStep(w) PROVE TypeInv'
  <2>0. /\ pc[w] # "idle" => loaded[w] \in Session
        /\ pc[w] \in {"register", "refresh"} => header[w] \in Token
    BY <1>t DEF WorkerTypeOK, CallsHoldSessions
  <2>1. ASSUME NEW u \in Users, Initiate(w, u) PROVE TypeInv'
    <3>1. PICK id \in Ids \ usedIds, c \in generate_challenge, ok \in BOOLEAN :
            InitiateStore(w, u, id, c, ok)
      BY <2>1 DEF Initiate, session_new_id
    <3> DEFINE s == NewSession(id, u, c, now)
    <3>2. c \in ChallengeValues /\ now \in Nat
      BY <1>h, <1>t DEF StoreTypeOK
    <3>3. s \in Session /\ s.id = id
      BY <3>2, TtlAssumption DEF NewSession, Session, ExpiryAt
    <3> HIDE DEF s
    <3>4. /\ Create(s, ok) /\ Issue(c, s.id) /\ usedIds' = usedIds \cup {id}
          /\ \/ ok /\ emit_event("LOGIN", id, Nil, Nil, Nil, c)
                   /\ Return(w, LoginResponse(s), FALSE)
             \/ ~ok /\ UNCHANGED events /\ Return(w, InternalError, FALSE)
      BY <3>1, <3>3 DEF InitiateStore, s
    <3>5. usedIds' \subseteq Ids
      BY <3>4, <1>t DEF HistoryTypeOK
    <3>6. events' \subseteq Event
      <4>1. CASE UNCHANGED events
        BY <4>1, <1>t DEF HistoryTypeOK
      <4>2. CASE emit_event("LOGIN", id, Nil, Nil, Nil, c)
        BY <4>2, <3>2, <1>t, EventType
      <4> QED BY <3>4, <4>1, <4>2
    <3>7. WorkerTypeOK' /\ CallsHoldSessions'
      BY <3>3, <3>4, <1>t, ReturnType
    <3> QED BY <3>2, <3>3, <3>4, <3>5, <3>6, <3>7, WriteTypeOK
  <2>2. CASE InitiateFails(w)
    BY <2>2, <1>u, <1>t, ReturnType DEF InitiateFails
  <2>3. ASSUME NEW id \in Ids, GetSession(w, id) PROVE TypeInv'
    <3>1. PICK out : Get(id, out) /\ Return(w, LookupResponse(out), FALSE)
      BY <2>3 DEF GetSession
    <3>2. WorkerTypeOK' /\ CallsHoldSessions'
      BY <3>1, <1>t, ReturnType
    <3> QED BY <2>3, <3>1, <3>2, LoadTypeOK DEF GetSession
  <2>4. CASE RegisterMissingCookie(w)
    BY <2>4, <1>u, <1>t, ReturnType, ZenonT(30) DEF RegisterMissingCookie
  <2>5. ASSUME NEW id \in Ids, NEW hdr \in Headers, RegisterLoad(w, id, hdr)
        PROVE  TypeInv'
    <3>1. PICK out \in {sessions[id], Nil} :
            /\ Get(id, out)
            /\ \/ Return(w, ErrorResponse(401), FALSE)
               \/ Return(w, ErrorResponse(400), FALSE)
               \/ out # Nil /\ Return(w, ChallengeResponse(out), FALSE)
               \/ /\ out # Nil /\ hdr # Nil /\ out.state = "active"
                  /\ Proceed(w, "register", out, hdr)
      BY <2>5, ZenonT(30) DEF RegisterLoad
    <3>2. out # Nil => out \in Session
      BY <1>t DEF StoreTypeOK
    <3>3. WorkerTypeOK' /\ CallsHoldSessions'
      BY <3>1, <3>2, <1>t, <1>h, ReturnType, ProceedType, ZenonT(30)
    <3> QED BY <2>5, <3>1, <3>3, LoadTypeOK DEF RegisterLoad
  <2>6. CASE RegisterReject(w)
    <3>1. WorkerTypeOK' /\ CallsHoldSessions'
      BY <2>6, <2>0, <1>t, ReturnType DEF RegisterReject
    <3> QED BY <2>6, <3>1, <1>u DEF RegisterReject
  <2>7. CASE RegisterNoChallenge(w)
    BY <2>7, <1>u, <1>t, ReturnType DEF RegisterNoChallenge
  <2>8. CASE RegisterBind(w)
    <3>1. PICK c \in generate_challenge, ok \in BOOLEAN : RegisterStore(w, c, ok)
      BY <2>8 DEF RegisterBind
    <3> DEFINE t == header[w]
               s == Bound(loaded[w], t.jwk, t.algorithm, c, now)
    <3>2. c \in ChallengeValues /\ now \in Nat
      BY <1>h, <1>t DEF StoreTypeOK
    <3>3. /\ t.jwk \in Keys \cup {Nil} /\ t.algorithm \in Algorithms \cup {Nil}
          /\ t.signer \in Keys \cup {Nil} /\ t.challenge \in ChallengeValues \cup {Nil}
      BY <2>0, <2>8 DEF RegisterBind, Token
    <3>4. s \in Session /\ s.id \in Ids
      <4>1. s \in Session
        BY <2>0, <2>8, <3>2, <3>3, SessionTypes DEF RegisterBind
      <4> QED BY <4>1 DEF Session
    <3>5. /\ Update(s, ok) /\ Issue(c, s.id) /\ usedIds' = usedIds
          /\ \/ ok /\ emit_event("REGISTER", s.id, t.jwk, t.signer, t.challenge, c)
                   /\ Return(w, SuccessResponse(s), FALSE)
             \/ ~ok /\ UNCHANGED events /\ Return(w, InternalError, FALSE)
      BY <3>1 DEF RegisterStore
    <3> HIDE DEF s, t
    <3>6. events' \subseteq Event
      <4>1. CASE UNCHANGED events
        BY <4>1, <1>t DEF HistoryTypeOK
      <4>2. CASE emit_event("REGISTER", s.id, t.jwk, t.signer, t.challenge, c)
        BY <4>2, <3>2, <3>3, <3>4, <1>t, EventType
      <4> QED BY <3>5, <4>1, <4>2
    <3>7. WorkerTypeOK' /\ CallsHoldSessions'
      BY <3>4, <3>5, <1>t, ReturnType
    <3> QED BY <3>2, <3>4, <3>5, <3>6, <3>7, <1>t, WriteTypeOK DEF HistoryTypeOK
  <2>9. CASE RefreshMissingId(w)
    BY <2>9, <1>u, <1>t, ReturnType, ZenonT(30) DEF RefreshMissingId
  <2>10. ASSUME NEW id \in Ids, NEW hdr \in Headers, RefreshLoad(w, id, hdr)
         PROVE  TypeInv'
    <3>1. PICK out \in {sessions[id], Nil} :
            /\ Get(id, out)
            /\ \/ Return(w, ErrorResponse(401), FALSE)
               \/ Return(w, ErrorResponse(400), FALSE)
               \/ out # Nil /\ Return(w, ChallengeResponse(out), FALSE)
               \/ /\ out # Nil /\ hdr # Nil /\ out.state = "bound"
                  /\ Proceed(w, "refresh", out, hdr)
      BY <2>10, ZenonT(30) DEF RefreshLoad
    <3>2. out # Nil => out \in Session
      BY <1>t DEF StoreTypeOK
    <3>3. WorkerTypeOK' /\ CallsHoldSessions'
      BY <3>1, <3>2, <1>t, <1>h, ReturnType, ProceedType, ZenonT(30)
    <3> QED BY <2>10, <3>1, <3>3, LoadTypeOK DEF RefreshLoad
  <2>11. CASE RefreshReject(w)
    <3>1. WorkerTypeOK' /\ CallsHoldSessions'
      BY <2>11, <2>0, <1>t, ReturnType DEF RefreshReject
    <3> QED BY <2>11, <3>1, <1>u DEF RefreshReject
  <2>12. CASE RefreshNoChallenge(w)
    BY <2>12, <1>u, <1>t, ReturnType DEF RefreshNoChallenge
  <2>13. CASE RefreshExtend(w)
    <3>1. PICK c \in generate_challenge, ok \in BOOLEAN : RefreshStore(w, c, ok)
      BY <2>13 DEF RefreshExtend
    <3> DEFINE t == header[w]
               s == Extended(loaded[w], c, now)
    <3>2. c \in ChallengeValues /\ now \in Nat
      BY <1>h, <1>t DEF StoreTypeOK
    <3>3. t.signer \in Keys \cup {Nil} /\ t.challenge \in ChallengeValues \cup {Nil}
      BY <2>0, <2>13 DEF RefreshExtend, Token
    <3>4. s \in Session /\ s.id \in Ids /\ s.public_key \in Keys \cup {Nil}
      <4>1. s \in Session
        BY <2>0, <2>13, <3>2, SessionTypes DEF RefreshExtend
      <4> QED BY <4>1 DEF Session
    <3>5. /\ Update(s, ok) /\ Issue(c, s.id) /\ usedIds' = usedIds
          /\ \/ ok /\ emit_event("REFRESH", s.id, s.public_key, t.signer, t.challenge, c)
                   /\ Return(w, SuccessResponse(s), FALSE)
             \/ ~ok /\ UNCHANGED events /\ Return(w, InternalError, TRUE)
      BY <3>1 DEF RefreshStore
    <3> HIDE DEF s, t
    <3>6. events' \subseteq Event
      <4>1. CASE UNCHANGED events
        BY <4>1, <1>t DEF HistoryTypeOK
      <4>2. CASE emit_event("REFRESH", s.id, s.public_key, t.signer, t.challenge, c)
        BY <4>2, <3>2, <3>3, <3>4, <1>t, EventType
      <4> QED BY <3>5, <4>1, <4>2
    <3>7. WorkerTypeOK' /\ CallsHoldSessions'
      BY <3>4, <3>5, <1>t, ReturnType
    <3> QED BY <3>2, <3>4, <3>5, <3>6, <3>7, <1>t, WriteTypeOK DEF HistoryTypeOK
  <2>14. CASE CloseMissingId(w)
    BY <2>14, <1>u, <1>t, ReturnType, ZenonT(30) DEF CloseMissingId
  <2>15. ASSUME NEW id \in Ids, CloseLoad(w, id) PROVE TypeInv'
    <3>1. PICK out \in {sessions[id], Nil} :
            /\ Get(id, out)
            /\ \/ Return(w, ErrorResponse(401), FALSE)
               \/ Return(w, InternalError, FALSE)
               \/ out # Nil /\ Proceed(w, "close", out, Nil)
      BY <2>15, ZenonT(30) DEF CloseLoad
    <3>2. out # Nil => out \in Session
      BY <1>t DEF StoreTypeOK
    <3>3. WorkerTypeOK' /\ CallsHoldSessions'
      BY <3>1, <3>2, <1>t, ReturnType, ProceedType, ZenonT(30)
    <3> QED BY <2>15, <3>1, <3>3, LoadTypeOK DEF CloseLoad
  <2>16. ASSUME NEW ok \in BOOLEAN, CloseDelete(w, ok) PROVE TypeInv'
    <3> DEFINE s == loaded[w]
    <3>1. s \in Session /\ s.id \in Ids
      <4>1. s \in Session
        BY <2>0, <2>16 DEF CloseDelete
      <4> QED BY <4>1 DEF Session
    <3>2. /\ Delete(s.id, ok)
          /\ \/ ok /\ emit_event("CLOSE", s.id, Nil, Nil, Nil, Nil)
                   /\ Return(w, CloseResponse(s, 0), FALSE)
             \/ ~ok /\ UNCHANGED events /\ Return(w, CloseResponse(s, -1), FALSE)
          /\ UNCHANGED <<usedIds, issued>>
      BY <2>16 DEF CloseDelete
    <3> HIDE DEF s
    <3>3. events' \subseteq Event
      <4>1. CASE UNCHANGED events
        BY <4>1, <1>t DEF HistoryTypeOK
      <4>2. CASE emit_event("CLOSE", s.id, Nil, Nil, Nil, Nil)
        BY <4>2, <3>1, <1>t, EventType
      <4> QED BY <3>2, <4>1, <4>2
    <3>4. WorkerTypeOK' /\ CallsHoldSessions'
      BY <3>1, <3>2, <1>t, ReturnType
    <3>5. StoreTypeOK'
      BY <3>1, <3>2, <1>t DEF Delete, Put, StoreTypeOK
    <3> QED BY <3>2, <3>3, <3>4, <3>5, <1>t DEF TypeInv, TypeOK, HistoryTypeOK
  <2> QED
    BY <1>3, <2>1, <2>2, <2>3, <2>4, <2>5, <2>6, <2>7, <2>8, <2>9, <2>10, <2>11,
       <2>12, <2>13, <2>14, <2>15, <2>16 DEF WorkerStep
<1> QED BY <1>1, <1>2, <1>3 DEF Next

\* Initial states satisfy TypeInv.
LEMMA TypeInit == Init => TypeInv
BY ResponseTypes DEF Init, StoreInit, TypeInv, TypeOK, StoreTypeOK, WorkerTypeOK,
       HistoryTypeOK, CallsHoldSessions

\* Every reachable state is well typed, with any number of workers.
THEOREM TypeCorrect == Spec => []TypeOK
<1>1. TypeInv => TypeOK
  BY DEF TypeInv
<1> QED BY <1>1, TypeInit, TypeStep, PTL DEF Spec

-----------------------------------------------------------------------------
\* What a step of a worker is, seen from the others: an early return, a read
\* that may take a copy, or one of the four writes.
Quits(w) ==
  /\ \E r \in Response, leak \in BOOLEAN : Return(w, r, leak)
  /\ UNCHANGED <<storeVars, historyVars>>

Loads(w) ==
  /\ UNCHANGED historyVars
  /\ \E id \in Ids, out \in Session \cup {Nil} :
       /\ Get(id, out)
       /\ \/ \E r \in Response : Return(w, r, FALSE)
          \/ /\ out # Nil
             /\ \E step \in {"register", "refresh", "close"}, hdr \in Token \cup {Nil} :
                  Proceed(w, step, out, hdr)

Writes(w) ==
  \/ \E u \in Users : Initiate(w, u)
  \/ RegisterBind(w)
  \/ RefreshExtend(w)
  \/ \E ok \in BOOLEAN : CloseDelete(w, ok)

\* Every step of a worker is one of three kinds: it answers without the store, it
\* reads a session, or it writes one; the invariants are shown kind by kind.
LEMMA StepKinds ==
  ASSUME TypeInv, NEW w \in Workers, WorkerStep(w)
  PROVE  Quits(w) \/ Loads(w) \/ Writes(w)
<1> USE ResponseTypes
<1>t. StoreTypeOK /\ WorkerTypeOK /\ HistoryTypeOK /\ CallsHoldSessions
  BY DEF TypeInv, TypeOK
<1>h. Headers \subseteq Token \cup {Nil}
  BY <1>t, HeaderType
<1>l. pc[w] # "idle" => loaded[w] \in Session
  BY <1>t DEF WorkerTypeOK, CallsHoldSessions
<1>o. \A id \in Ids : \A out \in {sessions[id], Nil} : out \in Session \cup {Nil}
  BY <1>t DEF StoreTypeOK
<1>1. CASE \E u \in Users : Initiate(w, u)
  BY <1>1 DEF Writes
<1>2. CASE InitiateFails(w) \/ RegisterMissingCookie(w) \/ RefreshMissingId(w)
           \/ CloseMissingId(w)
  BY <1>2, ZenonT(30) DEF Quits, InitiateFails, RegisterMissingCookie, RefreshMissingId,
              CloseMissingId
<1>3. CASE RegisterReject(w) \/ RefreshReject(w)
  BY <1>3, <1>l DEF Quits, RegisterReject, RefreshReject
<1>4. CASE RegisterNoChallenge(w) \/ RefreshNoChallenge(w)
  BY <1>4 DEF Quits, RegisterNoChallenge, RefreshNoChallenge
<1>5. CASE \E id \in Ids : GetSession(w, id)
  <2>1. PICK id \in Ids : GetSession(w, id)
    BY <1>5
  <2>2. PICK out \in {sessions[id], Nil} :
          Get(id, out) /\ Return(w, LookupResponse(out), FALSE)
    BY <2>1 DEF GetSession
  <2>3. UNCHANGED historyVars
    BY <2>1 DEF GetSession
  <2>4. out \in Session \cup {Nil} /\ \E r \in Response : Return(w, r, FALSE)
    BY <2>2, <1>o
  <2> QED BY <2>2, <2>3, <2>4 DEF Loads
<1>6. CASE \E id \in Ids : \E hdr \in Headers : RegisterLoad(w, id, hdr)
  <2>1. PICK id \in Ids, hdr \in Headers : RegisterLoad(w, id, hdr)
    BY <1>6
  <2>2. PICK out \in {sessions[id], Nil} :
          /\ Get(id, out)
          /\ \/ Return(w, ErrorResponse(401), FALSE)
             \/ Return(w, ErrorResponse(400), FALSE)
             \/ out # Nil /\ Return(w, ChallengeResponse(out), FALSE)
             \/ out # Nil /\ Proceed(w, "register", out, hdr)
    BY <2>1, ZenonT(30) DEF RegisterLoad
  <2>3. UNCHANGED historyVars
    BY <2>1 DEF RegisterLoad
  <2>4. out \in Session \cup {Nil}
    BY <1>o
  <2>5. \/ \E r \in Response : Return(w, r, FALSE)
        \/ /\ out # Nil
           /\ \E step \in {"register", "refresh", "close"}, h \in Token \cup {Nil} :
                Proceed(w, step, out, h)
    BY <2>2, <2>4, <1>h, ZenonT(30)
  <2> QED BY <2>2, <2>3, <2>4, <2>5 DEF Loads
<1>7. CASE \E id \in Ids : \E hdr \in Headers : RefreshLoad(w, id, hdr)
  <2>1. PICK id \in Ids, hdr \in Headers : RefreshLoad(w, id, hdr)
    BY <1>7
  <2>2. PICK out \in {sessions[id], Nil} :
          /\ Get(id, out)
          /\ \/ Return(w, ErrorResponse(401), FALSE)
             \/ Return(w, ErrorResponse(400), FALSE)
             \/ out # Nil /\ Return(w, ChallengeResponse(out), FALSE)
             \/ out # Nil /\ Proceed(w, "refresh", out, hdr)
    BY <2>1, ZenonT(30) DEF RefreshLoad
  <2>3. UNCHANGED historyVars
    BY <2>1 DEF RefreshLoad
  <2>4. out \in Session \cup {Nil}
    BY <1>o
  <2>5. \/ \E r \in Response : Return(w, r, FALSE)
        \/ /\ out # Nil
           /\ \E step \in {"register", "refresh", "close"}, h \in Token \cup {Nil} :
                Proceed(w, step, out, h)
    BY <2>2, <2>4, <1>h, ZenonT(30)
  <2> QED BY <2>2, <2>3, <2>4, <2>5 DEF Loads
<1>8. CASE \E id \in Ids : CloseLoad(w, id)
  <2>1. PICK id \in Ids : CloseLoad(w, id)
    BY <1>8
  <2>2. PICK out \in {sessions[id], Nil} :
          /\ Get(id, out)
          /\ \/ Return(w, ErrorResponse(401), FALSE)
             \/ Return(w, InternalError, FALSE)
             \/ out # Nil /\ Proceed(w, "close", out, Nil)
    BY <2>1, ZenonT(30) DEF CloseLoad
  <2>3. UNCHANGED historyVars
    BY <2>1 DEF CloseLoad
  <2>4. out \in Session \cup {Nil}
    BY <1>o
  <2>5. \/ \E r \in Response : Return(w, r, FALSE)
        \/ /\ out # Nil
           /\ \E step \in {"register", "refresh", "close"}, h \in Token \cup {Nil} :
                Proceed(w, step, out, h)
    BY <2>2, <2>4, <1>h, ZenonT(30)
  <2> QED BY <2>2, <2>3, <2>4, <2>5 DEF Loads
<1>9. CASE RegisterBind(w) \/ RefreshExtend(w) \/ \E ok \in BOOLEAN : CloseDelete(w, ok)
  BY <1>9 DEF Writes
<1> QED
  BY <1>1, <1>2, <1>3, <1>4, <1>5, <1>6, <1>7, <1>8, <1>9 DEF WorkerStep

-----------------------------------------------------------------------------
\* The invariant behind the properties that hold with any number of workers.

\* Only generated identifiers are stored, held or reported.
IdsGenerated ==
  /\ \A id \in Ids : sessions[id] # Nil => id \in usedIds
  /\ \A w \in Workers : pc[w] # "idle" => loaded[w].id \in usedIds
  /\ \A e \in events : e.session \in usedIds

\* A copy may be stale, but it is a copy of the session that is stored.
CopiesAgree ==
  \A w \in Workers :
    LET s == sessions[loaded[w].id]
    IN  pc[w] # "idle" /\ s # Nil =>
          s.user_id = loaded[w].user_id /\ s.created_at = loaded[w].created_at

\* The challenge of a stored session, and of a copy, was generated for it.
ChallengesGenerated ==
  /\ \A id \in Ids :
       sessions[id] # Nil =>
         [challenge |-> sessions[id].challenge, session |-> id] \in issued
  /\ \A w \in Workers :
       pc[w] # "idle" =>
         [challenge |-> loaded[w].challenge, session |-> loaded[w].id] \in issued

ConcurrentInv ==
  /\ TypeInv
  /\ IdsGenerated
  /\ ClosedStaysClosed
  /\ CopiesAgree
  /\ ChallengesGenerated
  /\ ProvenPossession

\* A proof the verification accepts was signed by the key it is checked with.
LEMMA AcceptedIsSigned ==
  ASSUME NEW t \in Token
  PROVE  /\ DecodeAndVerify(t) => t.jwk = Nil \/ t.signer = t.jwk
         /\ \A key : VerifyWithJwk(t, key) => t.signer = key
BY DEF DecodeAndVerify, CheckRegistrationJwkRules, VerifyWithJwk,
       VerifySignatureWithJwk, EVP_DigestVerify

\* Initial states satisfy ConcurrentInv.
LEMMA ConcurrentInit == Init => ConcurrentInv
<1>1. Init => TypeInv
  BY TypeInit
<1>2. Init => IdsGenerated /\ ClosedStaysClosed /\ CopiesAgree /\ ChallengesGenerated
              /\ ProvenPossession
  BY DEF Init, StoreInit, IdsGenerated, ClosedStaysClosed, CopiesAgree,
         ChallengesGenerated, ProvenPossession
<1> QED BY <1>1, <1>2 DEF ConcurrentInv

\* A step that changes only the worker keeps ConcurrentInv.
LEMMA ConcurrentQuit ==
  ASSUME ConcurrentInv, NEW w \in Workers, Quits(w)
  PROVE  (IdsGenerated /\ ClosedStaysClosed /\ CopiesAgree /\ ChallengesGenerated
            /\ ProvenPossession)'
<1>1. PICK r \in Response, leak \in BOOLEAN : Return(w, r, leak)
  BY DEF Quits
<1>2. UNCHANGED <<sessions, usedIds, issued, events>>
  BY DEF Quits, storeVars, historyVars
<1>3. \A x \in Workers : pc'[x] # "idle" =>
        pc[x] # "idle" /\ loaded'[x] = loaded[x]
  BY <1>1 DEF Return, ConcurrentInv, TypeInv, TypeOK, WorkerTypeOK
<1> QED
  BY <1>2, <1>3 DEF ConcurrentInv, IdsGenerated, ClosedStaysClosed, CopiesAgree,
                    ChallengesGenerated, ProvenPossession

\* A step that reads a session, and perhaps keeps a copy, keeps ConcurrentInv.
LEMMA ConcurrentLoad ==
  ASSUME ConcurrentInv, NEW w \in Workers, Loads(w)
  PROVE  (IdsGenerated /\ ClosedStaysClosed /\ CopiesAgree /\ ChallengesGenerated
            /\ ProvenPossession)'
<1>1. PICK id \in Ids, out \in Session \cup {Nil} :
        /\ Get(id, out)
        /\ \/ \E r \in Response : Return(w, r, FALSE)
           \/ /\ out # Nil
              /\ \E step \in {"register", "refresh", "close"}, hdr \in Token \cup {Nil} :
                   Proceed(w, step, out, hdr)
  BY DEF Loads
<1>t. StoreTypeOK /\ WorkerTypeOK
  BY DEF ConcurrentInv, TypeInv, TypeOK
<1>2. UNCHANGED <<usedIds, issued, events>>
  BY DEF Loads, historyVars
<1>3. PICK v \in {sessions[id], Nil} : sessions' = [sessions EXCEPT ![id] = v]
  BY <1>1, <1>t, GetEffect
<1>4. \A i \in Ids : sessions'[i] # Nil => sessions'[i] = sessions[i]
  BY <1>3, <1>t DEF StoreTypeOK
<1>4a. \A i \in Ids : sessions[i] = Nil => sessions'[i] = Nil
  BY <1>3, <1>t DEF StoreTypeOK
<1>o. out \in {sessions[id], Nil}
  BY <1>1, <1>t, GetEffect
<1>5. \A x \in Workers : pc'[x] # "idle" =>
        \/ pc[x] # "idle" /\ loaded'[x] = loaded[x]
        \/ loaded'[x] = sessions[id] /\ sessions[id] # Nil /\ sessions[id].id = id
  BY <1>1, <1>o, <1>t DEF Return, Proceed, WorkerTypeOK, StoreTypeOK
<1>6. \A x \in Workers : pc'[x] # "idle" => loaded'[x].id \in Ids
  <2>1. \A x \in Workers : pc[x] # "idle" => loaded[x] \in Session
    BY DEF ConcurrentInv, TypeInv, TypeOK, WorkerTypeOK, CallsHoldSessions
  <2> QED BY <1>5, <2>1 DEF Session
<1>7. IdsGenerated'
  BY <1>2, <1>4, <1>5 DEF ConcurrentInv, IdsGenerated
<1>8. ClosedStaysClosed'
  <2>1. \A e \in events : e.session \in Ids
    BY DEF ConcurrentInv, TypeInv, TypeOK, HistoryTypeOK, Event
  <2> QED BY <1>2, <1>4a, <2>1 DEF ConcurrentInv, ClosedStaysClosed
<1>9. CopiesAgree'
  BY <1>4, <1>5, <1>6 DEF ConcurrentInv, CopiesAgree
<1>10. ChallengesGenerated'
  BY <1>2, <1>4, <1>5 DEF ConcurrentInv, ChallengesGenerated
<1>11. ProvenPossession'
  BY <1>2 DEF ConcurrentInv, ProvenPossession
<1> QED BY <1>7, <1>8, <1>9, <1>10, <1>11

\* What registration and refresh have in common: the worker writes its copy
\* back with a new challenge c, and reports event e if the store took it.
Rotates(w, s, c, e) ==
  /\ pc[w] # "idle"
  /\ s \in Session /\ c \in ChallengeValues
  /\ s.id = loaded[w].id /\ s.state = "bound" /\ s.challenge = c
  /\ s.user_id = loaded[w].user_id /\ s.created_at = loaded[w].created_at
  /\ loaded[w].state = "bound" => s.public_key = loaded[w].public_key
  /\ e.type = (IF loaded[w].state = "bound" THEN "REFRESH" ELSE "REGISTER")
  /\ e.session = s.id /\ e.jti = loaded[w].challenge /\ e.key = s.public_key
  /\ e.signer = e.key \/ e.key = Nil
  /\ e.next = c
  /\ Issue(c, s.id) /\ UNCHANGED usedIds
  /\ \/ Update(s, TRUE) /\ events' = events \cup {e} /\ Return(w, SuccessResponse(s), FALSE)
     \/ /\ Update(s, FALSE) /\ UNCHANGED events
        /\ \E leak \in BOOLEAN : Return(w, InternalError, leak)

\* What a registration or refresh that reaches its update does, acknowledged or not.
LEMMA RotateEffect ==
  ASSUME TypeInv, NEW w \in Workers, RegisterBind(w) \/ RefreshExtend(w)
  PROVE  \E s, e : \E c \in generate_challenge : Rotates(w, s, c, e)
<1>t. StoreTypeOK /\ WorkerTypeOK /\ HistoryTypeOK /\ CallsHoldSessions
  BY DEF TypeInv, TypeOK
<1>g. generate_challenge \subseteq ChallengeValues /\ now \in Nat
  BY <1>t, HeaderType DEF StoreTypeOK
<1>p. pc[w] \in {"register", "refresh"}
  BY DEF RegisterBind, RefreshExtend
<1>l. loaded[w] \in Session /\ header[w] \in Token
  BY <1>t, <1>p DEF WorkerTypeOK, CallsHoldSessions
<1> DEFINE t == header[w]
           l == loaded[w]
<1>1. CASE RegisterBind(w)
  <2>1. PICK c \in generate_challenge, ok \in BOOLEAN : RegisterStore(w, c, ok)
    BY <1>1 DEF RegisterBind
  <2> DEFINE s == Bound(l, t.jwk, t.algorithm, c, now)
             e == [type |-> "REGISTER", session |-> s.id, key |-> t.jwk,
                   signer |-> t.signer, jti |-> t.challenge, next |-> c]
  <2>2. t.challenge = l.challenge /\ (t.jwk = Nil \/ t.signer = t.jwk)
    BY <1>1, <1>l, AcceptedIsSigned DEF RegisterBind, RegistrationAccepted
  <2>3. s \in Session
    <3>1. t.jwk \in Keys \cup {Nil} /\ t.algorithm \in Algorithms \cup {Nil}
      BY <1>l DEF Token
    <3> QED BY <3>1, <1>l, <1>g, SessionTypes
  <2>4. /\ s.id = l.id /\ s.state = "bound" /\ s.challenge = c
        /\ s.user_id = l.user_id /\ s.created_at = l.created_at
        /\ s.public_key = t.jwk
    BY <1>l DEF Bound, Session
  <2>5. l.state = "active"
    BY <1>1, <1>t DEF RegisterBind, CallsHoldSessions
  <2>6. Issue(c, s.id) /\ UNCHANGED usedIds
    BY <2>1 DEF RegisterStore
  <2>7. \/ Update(s, TRUE) /\ events' = events \cup {e} /\ Return(w, SuccessResponse(s), FALSE)
        \/ Update(s, FALSE) /\ UNCHANGED events /\ Return(w, InternalError, FALSE)
    <3>1. CASE ok = TRUE
      BY <2>1, <3>1 DEF RegisterStore, emit_event
    <3>2. CASE ok = FALSE
      BY <2>1, <3>2 DEF RegisterStore
    <3> QED BY <3>1, <3>2
  <2>8. /\ e.type = "REGISTER" /\ e.session = s.id /\ e.jti = t.challenge
        /\ e.key = t.jwk /\ e.signer = t.signer /\ e.next = c
    OBVIOUS
  <2> HIDE DEF s, e
  <2>9. Rotates(w, s, c, e)
    BY <1>p, <1>g, <2>2, <2>3, <2>4, <2>5, <2>6, <2>7, <2>8 DEF Rotates
  <2> QED BY <2>9
<1>2. CASE RefreshExtend(w)
  <2>1. PICK c \in generate_challenge, ok \in BOOLEAN : RefreshStore(w, c, ok)
    BY <1>2 DEF RefreshExtend
  <2> DEFINE s == Extended(l, c, now)
             e == [type |-> "REFRESH", session |-> s.id, key |-> s.public_key,
                   signer |-> t.signer, jti |-> t.challenge, next |-> c]
  <2>2. t.challenge = l.challenge /\ t.signer = l.public_key
    BY <1>2, <1>l, AcceptedIsSigned DEF RefreshExtend, RefreshAccepted, RefreshVerified
  <2>3. s \in Session
    BY <1>l, <1>g, SessionTypes
  <2>4. /\ s.id = l.id /\ s.state = l.state /\ s.challenge = c
        /\ s.user_id = l.user_id /\ s.created_at = l.created_at
        /\ s.public_key = l.public_key
    BY <1>l DEF Extended, Session
  <2>5. l.state = "bound"
    BY <1>2, <1>t DEF RefreshExtend, CallsHoldSessions
  <2>6. Issue(c, s.id) /\ UNCHANGED usedIds
    BY <2>1 DEF RefreshStore
  <2>7. \/ Update(s, TRUE) /\ events' = events \cup {e} /\ Return(w, SuccessResponse(s), FALSE)
        \/ Update(s, FALSE) /\ UNCHANGED events /\ Return(w, InternalError, TRUE)
    <3>1. CASE ok = TRUE
      BY <2>1, <3>1 DEF RefreshStore, emit_event
    <3>2. CASE ok = FALSE
      BY <2>1, <3>2 DEF RefreshStore
    <3> QED BY <3>1, <3>2
  <2>8. /\ e.type = "REFRESH" /\ e.session = s.id /\ e.jti = t.challenge
        /\ e.key = s.public_key /\ e.signer = t.signer /\ e.next = c
    OBVIOUS
  <2> HIDE DEF s, e
  <2>9. Rotates(w, s, c, e)
    BY <1>p, <1>g, <2>2, <2>3, <2>4, <2>5, <2>6, <2>7, <2>8 DEF Rotates
  <2> QED BY <2>9
<1> QED BY <1>1, <1>2

\* The update of a registration or a refresh keeps ConcurrentInv.
LEMMA ConcurrentRotate ==
  ASSUME ConcurrentInv, NEW w \in Workers, RegisterBind(w) \/ RefreshExtend(w)
  PROVE  (IdsGenerated /\ ClosedStaysClosed /\ CopiesAgree /\ ChallengesGenerated
            /\ ProvenPossession)'
<1>t. StoreTypeOK /\ WorkerTypeOK /\ HistoryTypeOK /\ CallsHoldSessions
  BY DEF ConcurrentInv, TypeInv, TypeOK
<1>1. PICK s, e, c : Rotates(w, s, c, e)
  BY RotateEffect DEF ConcurrentInv
<1>2. s \in Session /\ s.id \in Ids /\ s.id = loaded[w].id /\ pc[w] # "idle"
  BY <1>1 DEF Rotates, Session
<1>3. /\ \E v \in {sessions[s.id], s, Nil} : sessions' = [sessions EXCEPT ![s.id] = v]
      /\ sessions[s.id] = Nil => sessions' = sessions
  <2>1. PICK ok \in BOOLEAN : Update(s, ok)
    BY <1>1 DEF Rotates
  <2> QED BY <2>1, <1>2, <1>t, WriteEffect
<1>4. /\ \A i \in Ids : sessions'[i] \in {sessions[i], Nil} \/ (i = s.id /\ sessions'[i] = s)
      /\ \A i \in Ids : sessions[i] = Nil => sessions'[i] = Nil
  BY <1>2, <1>3, <1>t DEF StoreTypeOK
<1>5. \A x \in Workers : pc'[x] # "idle" => pc[x] # "idle" /\ loaded'[x] = loaded[x]
  BY <1>1, <1>t DEF Rotates, Return, WorkerTypeOK
<1>6. usedIds' = usedIds /\ events' \subseteq events \cup {e}
  BY <1>1 DEF Rotates
<1>7. issued' = issued \cup {[challenge |-> s.challenge, session |-> s.id]}
  BY <1>1 DEF Rotates, Issue
<1>8. \A x \in Workers : pc[x] # "idle" => loaded[x].id \in Ids
  BY <1>t DEF WorkerTypeOK, CallsHoldSessions, Session
<1>9. \A f \in events : f.session \in Ids
  BY <1>t DEF HistoryTypeOK, Event
<1>10. /\ e.type \in {"REGISTER", "REFRESH"} /\ e.session = s.id
       /\ e.jti = loaded[w].challenge /\ (e.signer = e.key \/ e.key = Nil)
  BY <1>1 DEF Rotates
<1>11. IdsGenerated'
  BY <1>2, <1>4, <1>5, <1>6, <1>10 DEF ConcurrentInv, IdsGenerated
<1>12. ClosedStaysClosed'
  BY <1>4, <1>6, <1>9, <1>10 DEF ConcurrentInv, ClosedStaysClosed
<1>13. CopiesAgree'
  <2>1. s.user_id = loaded[w].user_id /\ s.created_at = loaded[w].created_at
    BY <1>1 DEF Rotates
  <2>2. SUFFICES ASSUME NEW x \in Workers, pc'[x] # "idle", sessions'[loaded[x].id] # Nil
                 PROVE  /\ sessions'[loaded[x].id].user_id = loaded[x].user_id
                        /\ sessions'[loaded[x].id].created_at = loaded[x].created_at
    BY <1>5 DEF CopiesAgree
  <2>3. sessions[loaded[x].id] # Nil /\ pc[x] # "idle"
    BY <2>2, <1>4, <1>5, <1>8
  <2>4. CASE sessions'[loaded[x].id] = sessions[loaded[x].id]
    BY <2>3, <2>4 DEF ConcurrentInv, CopiesAgree
  <2>5. CASE loaded[x].id = s.id /\ sessions'[loaded[x].id] = s
    BY <2>1, <2>3, <2>5, <1>2 DEF ConcurrentInv, CopiesAgree
  <2> QED BY <2>2, <2>3, <2>4, <2>5, <1>4, <1>8
<1>14. ChallengesGenerated'
  BY <1>4, <1>5, <1>7 DEF ConcurrentInv, ChallengesGenerated
<1>15. ProvenPossession'
  <2>1. [challenge |-> e.jti, session |-> e.session] \in issued
    BY <1>2, <1>10 DEF ConcurrentInv, ChallengesGenerated
  <2> QED BY <2>1, <1>6, <1>7, <1>10 DEF ConcurrentInv, ProvenPossession
<1> QED BY <1>11, <1>12, <1>13, <1>14, <1>15

\* The create of a new session keeps ConcurrentInv.
LEMMA ConcurrentInitiate ==
  ASSUME ConcurrentInv, NEW w \in Workers, NEW u \in Users, Initiate(w, u)
  PROVE  (IdsGenerated /\ ClosedStaysClosed /\ CopiesAgree /\ ChallengesGenerated
            /\ ProvenPossession)'
<1>t. StoreTypeOK /\ WorkerTypeOK /\ HistoryTypeOK /\ CallsHoldSessions
  BY DEF ConcurrentInv, TypeInv, TypeOK
<1>1. PICK id \in Ids \ usedIds, c \in generate_challenge, ok \in BOOLEAN :
        InitiateStore(w, u, id, c, ok)
  BY DEF Initiate, session_new_id
<1> DEFINE s == NewSession(id, u, c, now)
<1>2. s \in Session /\ s.id = id /\ s.challenge = c
  <2>1. c \in ChallengeValues /\ ExpiryAt(now) \in Nat \cup {Nil} /\ now \in Nat
    BY <1>t, HeaderType, TtlAssumption DEF StoreTypeOK, ExpiryAt
  <2> QED BY <2>1 DEF NewSession, Session
<1>3. \E v \in {sessions[id], s, Nil} : sessions' = [sessions EXCEPT ![id] = v]
  <2>1. Create(s, ok)
    BY <1>1 DEF InitiateStore
  <2> HIDE DEF s
  <2> QED BY <2>1, <1>2, <1>t, WriteEffect
<1>4. /\ issued' = issued \cup {[challenge |-> c, session |-> id]}
      /\ usedIds' = usedIds \cup {id}
      /\ \E r \in Response : Return(w, r, FALSE)
  BY <1>1, <1>2, ResponseTypes DEF InitiateStore, Issue
<1>5. \A f \in events' : f \in events \/ (f.type = "LOGIN" /\ f.session = id)
  <2>1. \/ events' = events
        \/ events' = events \cup {[type |-> "LOGIN", session |-> id, key |-> Nil,
                                   signer |-> Nil, jti |-> Nil, next |-> c]}
    BY <1>1 DEF InitiateStore, emit_event
  <2> QED BY <2>1
<1> HIDE DEF s
<1>6. \A i \in Ids : sessions'[i] \in {sessions[i], Nil} \/ (i = id /\ sessions'[i] = s)
  BY <1>3, <1>t DEF StoreTypeOK
<1>7. \A i \in usedIds : sessions'[i] \in {sessions[i], Nil}
  BY <1>6, <1>t DEF HistoryTypeOK
<1>8. \A x \in Workers : pc'[x] # "idle" => pc[x] # "idle" /\ loaded'[x] = loaded[x]
  BY <1>4, <1>t DEF Return, WorkerTypeOK
<1>9. IdsGenerated'
  BY <1>4, <1>5, <1>6, <1>8 DEF ConcurrentInv, IdsGenerated
<1>10. ClosedStaysClosed'
  BY <1>5, <1>7 DEF ConcurrentInv, IdsGenerated, ClosedStaysClosed
<1>11. CopiesAgree'
  BY <1>7, <1>8 DEF ConcurrentInv, IdsGenerated, CopiesAgree
<1>12. ChallengesGenerated'
  BY <1>2, <1>4, <1>6, <1>8 DEF ConcurrentInv, ChallengesGenerated
<1>13. ProvenPossession'
  BY <1>4, <1>5 DEF ConcurrentInv, ProvenPossession
<1> QED BY <1>9, <1>10, <1>11, <1>12, <1>13

\* The delete of a close keeps ConcurrentInv.
LEMMA ConcurrentClose ==
  ASSUME ConcurrentInv, NEW w \in Workers, NEW ok \in BOOLEAN, CloseDelete(w, ok)
  PROVE  (IdsGenerated /\ ClosedStaysClosed /\ CopiesAgree /\ ChallengesGenerated
            /\ ProvenPossession)'
<1>t. StoreTypeOK /\ WorkerTypeOK /\ HistoryTypeOK /\ CallsHoldSessions
  BY DEF ConcurrentInv, TypeInv, TypeOK
<1> DEFINE id == loaded[w].id
<1>1. id \in Ids /\ pc[w] # "idle"
  BY <1>t DEF CloseDelete, WorkerTypeOK, CallsHoldSessions, Session
<1>2. /\ \/ sessions' = sessions /\ events' = events
         \/ /\ sessions' = [sessions EXCEPT ![id] = Nil]
            /\ \A f \in events' : f \in events \/ (f.type = "CLOSE" /\ f.session = id)
      /\ UNCHANGED <<usedIds, issued>>
  <2> DEFINE e == [type |-> "CLOSE", session |-> id, key |-> Nil, signer |-> Nil,
                   jti |-> Nil, next |-> Nil]
  <2>1. \/ sessions' = sessions /\ events' = events
        \/ sessions' = [sessions EXCEPT ![id] = Nil] /\ events' = events \cup {e}
    BY DEF CloseDelete, Delete, Put, emit_event
  <2>2. UNCHANGED <<usedIds, issued>>
    BY DEF CloseDelete
  <2>3. e.type = "CLOSE" /\ e.session = id
    OBVIOUS
  <2> QED BY <2>1, <2>2, <2>3
<1>3. \A i \in Ids : sessions'[i] \in {sessions[i], Nil}
  BY <1>1, <1>2, <1>t DEF StoreTypeOK
<1>4. \A x \in Workers : pc'[x] # "idle" => pc[x] # "idle" /\ loaded'[x] = loaded[x]
  BY <1>t DEF CloseDelete, Return, WorkerTypeOK
<1>5. \A x \in Workers : pc[x] # "idle" => loaded[x].id \in Ids
  BY <1>t DEF WorkerTypeOK, CallsHoldSessions, Session
<1>6. \A f \in events : f.session \in Ids
  BY <1>t DEF HistoryTypeOK, Event
<1>7. IdsGenerated'
  BY <1>1, <1>2, <1>3, <1>4 DEF ConcurrentInv, IdsGenerated
<1>8. ClosedStaysClosed'
  BY <1>1, <1>2, <1>3, <1>6, <1>t DEF ConcurrentInv, ClosedStaysClosed, StoreTypeOK
<1>9. CopiesAgree'
  BY <1>3, <1>4, <1>5 DEF ConcurrentInv, CopiesAgree
<1>10. ChallengesGenerated'
  BY <1>2, <1>3, <1>4 DEF ConcurrentInv, ChallengesGenerated
<1>11. ProvenPossession'
  BY <1>2 DEF ConcurrentInv, ProvenPossession
<1> QED BY <1>7, <1>8, <1>9, <1>10, <1>11

\* Every step keeps ConcurrentInv, whatever the other workers are doing.
LEMMA ConcurrentStep == ConcurrentInv /\ [Next]_vars => ConcurrentInv'
<1> SUFFICES ASSUME ConcurrentInv, [Next]_vars PROVE ConcurrentInv'
  OBVIOUS
<1>1. TypeInv /\ TypeInv'
  BY TypeStep DEF ConcurrentInv
<1>2. CASE UNCHANGED vars \/ ClockTick
  <2>1. UNCHANGED <<sessions, pc, loaded, usedIds, issued, events>>
    BY <1>2 DEF vars, storeVars, workerVars, historyVars, ClockTick, Tick
  <2> QED
    BY <2>1, <1>1 DEF ConcurrentInv, IdsGenerated, ClosedStaysClosed, CopiesAgree,
                      ChallengesGenerated, ProvenPossession
<1>3. ASSUME NEW w \in Workers, WorkerStep(w) PROVE ConcurrentInv'
  <2>1. CASE Quits(w)
    BY <2>1, <1>1, ConcurrentQuit DEF ConcurrentInv
  <2>2. CASE Loads(w)
    BY <2>2, <1>1, ConcurrentLoad DEF ConcurrentInv
  <2>3. CASE \E u \in Users : Initiate(w, u)
    BY <2>3, <1>1, ConcurrentInitiate DEF ConcurrentInv
  <2>4. CASE RegisterBind(w) \/ RefreshExtend(w)
    BY <2>4, <1>1, ConcurrentRotate DEF ConcurrentInv
  <2>5. CASE \E ok \in BOOLEAN : CloseDelete(w, ok)
    BY <2>5, <1>1, ConcurrentClose DEF ConcurrentInv
  <2> QED BY <1>1, <1>3, <2>1, <2>2, <2>3, <2>4, <2>5, StepKinds DEF Writes
<1> QED BY <1>2, <1>3 DEF Next

\* ConcurrentInv holds in every reachable state.
LEMMA ConcurrentInvariant == Spec => []ConcurrentInv
BY ConcurrentInit, ConcurrentStep, PTL DEF Spec

\* A session whose close was acknowledged stays gone, whatever the number of
\* calls that hold a copy of it: update refuses an unknown identifier and
\* initiate never takes a used one.
THEOREM ClosedForGood == Spec => []ClosedStaysClosed
<1>1. ConcurrentInv => ClosedStaysClosed
  BY DEF ConcurrentInv
<1> QED BY <1>1, ConcurrentInvariant, PTL

\* Every acknowledged registration and refresh was signed by the session's
\* key over a challenge generated for that session, racing calls included.
THEOREM PossessionProven == Spec => []ProvenPossession
<1>1. ConcurrentInv => ProvenPossession
  BY DEF ConcurrentInv
<1> QED BY <1>1, ConcurrentInvariant, PTL

-----------------------------------------------------------------------------
\* What SessionIdentityStable says of one step.
IdentityKept ==
  \A id \in Ids :
    sessions[id] # Nil /\ sessions'[id] # Nil =>
      /\ sessions'[id].user_id = sessions[id].user_id
      /\ sessions'[id].created_at = sessions[id].created_at
      /\ sessions[id].state = "bound" => sessions'[id].state = "bound"

\* Every step from a state of ConcurrentInv keeps the identity of what is stored.
LEMMA IdentityStep == ConcurrentInv /\ [Next]_vars => IdentityKept
<1> SUFFICES ASSUME ConcurrentInv, [Next]_vars PROVE IdentityKept
  OBVIOUS
<1>t. TypeInv /\ StoreTypeOK /\ WorkerTypeOK /\ HistoryTypeOK /\ CallsHoldSessions
  BY DEF ConcurrentInv, TypeInv, TypeOK
<1>e. ASSUME \A id \in Ids : sessions'[id] \in {sessions[id], Nil} PROVE IdentityKept
  BY <1>e DEF IdentityKept
<1>1. CASE UNCHANGED vars \/ ClockTick
  BY <1>1, <1>e DEF vars, storeVars, ClockTick, Tick
<1>2. ASSUME NEW w \in Workers, WorkerStep(w) PROVE IdentityKept
  <2>1. CASE Quits(w)
    BY <2>1, <1>e DEF Quits, storeVars
  <2>2. CASE Loads(w)
    <3>1. PICK id \in Ids, out \in Session \cup {Nil} : Get(id, out)
      BY <2>2 DEF Loads
    <3>2. \E v \in {sessions[id], Nil} : sessions' = [sessions EXCEPT ![id] = v]
      BY <3>1, <1>t, GetEffect
    <3> QED BY <3>2, <1>t, <1>e DEF StoreTypeOK
  <2>3. CASE \E u \in Users : Initiate(w, u)
    <3>1. PICK u \in Users, id \in Ids \ usedIds, c \in generate_challenge, ok \in BOOLEAN :
            InitiateStore(w, u, id, c, ok)
      BY <2>3 DEF Initiate, session_new_id
    <3> DEFINE s == NewSession(id, u, c, now)
    <3>2. s.id = id /\ Create(s, ok)
      BY <3>1 DEF InitiateStore, NewSession
    <3> HIDE DEF s
    <3>3. \A i \in Ids \ {id} : sessions'[i] = sessions[i]
      BY <3>2, <1>t DEF Create, Torn, Put, StoreTypeOK
    <3>4. sessions[id] = Nil
      BY DEF ConcurrentInv, IdsGenerated
    <3> QED BY <3>3, <3>4 DEF IdentityKept
  <2>4. CASE RegisterBind(w) \/ RefreshExtend(w)
    <3>1. PICK s, e, c : Rotates(w, s, c, e)
      BY <2>4, <1>t, RotateEffect
    <3>2. /\ s \in Session /\ s.id \in Ids /\ s.id = loaded[w].id /\ pc[w] # "idle"
          /\ s.user_id = loaded[w].user_id /\ s.created_at = loaded[w].created_at
          /\ s.state = "bound"
      BY <3>1 DEF Rotates, Session
    <3>3. \E v \in {sessions[s.id], s, Nil} : sessions' = [sessions EXCEPT ![s.id] = v]
      <4>1. PICK ok \in BOOLEAN : Update(s, ok)
        BY <3>1 DEF Rotates
      <4> QED BY <4>1, <3>2, <1>t, WriteEffect
    <3>4. sessions[s.id] # Nil =>
            s.user_id = sessions[s.id].user_id /\ s.created_at = sessions[s.id].created_at
      BY <3>2 DEF ConcurrentInv, CopiesAgree
    <3>5. \A i \in Ids :
            sessions'[i] \in {sessions[i], Nil} \/ (i = s.id /\ sessions'[i] = s)
      BY <3>2, <3>3, <1>t DEF StoreTypeOK
    <3> QED BY <3>2, <3>4, <3>5 DEF IdentityKept
  <2>5. CASE \E ok \in BOOLEAN : CloseDelete(w, ok)
    <3>1. PICK ok \in BOOLEAN : CloseDelete(w, ok)
      BY <2>5
    <3>2. sessions' = sessions \/ sessions' = [sessions EXCEPT ![loaded[w].id] = Nil]
      BY <3>1 DEF CloseDelete, Delete, Put
    <3> QED BY <3>2, <1>t, <1>e DEF StoreTypeOK
  <2> QED BY <1>t, <1>2, <2>1, <2>2, <2>3, <2>4, <2>5, StepKinds DEF Writes
<1> QED BY <1>1, <1>2 DEF Next

\* No step of any worker, not even one that writes back a stale copy, changes
\* a session's user or creation time or unbinds it.
THEOREM IdentityStable == Spec => SessionIdentityStable
<1>1. ConcurrentInv /\ [Next]_vars => [IdentityKept]_vars
  BY IdentityStep
<1> QED BY <1>1, ConcurrentInvariant, PTL DEF Spec, SessionIdentityStable, IdentityKept

-----------------------------------------------------------------------------
(* Calls that do not overlap, as in the example server, where one event     *)
(* loop runs every handler to its end.  Everything else is as general as    *)
(* above: any constants, failing stores and allocations included.           *)

\* At most one worker.
Serial == \A w1, w2 \in Workers : w1 = w2

-----------------------------------------------------------------------------
\* The copy a call works on is what the store holds.  This is what overlapping
\* calls lose.
CopyIsCurrent ==
  \A w \in Workers : pc[w] # "idle" => sessions[loaded[w].id] = loaded[w]

\* A random challenge some acknowledged proof was over is no session's challenge
\* any more, and no two sessions wait for the same one.
SpentIsGone ==
  \A e \in events, id \in Ids :
    e.jti \notin {Nil, Fallback} /\ sessions[id] # Nil =>
      sessions[id].challenge # e.jti

WaitingApart ==
  \A i, j \in Ids :
    sessions[i] # Nil /\ sessions[j] # Nil /\ sessions[i].challenge = sessions[j].challenge
      => i = j \/ sessions[i].challenge = Fallback

SpentWasIssued == \A e \in events : e.jti # Nil => e.jti \in IssuedChallenges

SerialInv ==
  /\ Serial
  /\ ConcurrentInv
  /\ CopyIsCurrent
  /\ KeyPinned

FreshInv ==
  /\ SerialInv
  /\ SpentIsGone
  /\ WaitingApart
  /\ SpentWasIssued
  /\ SpentOnce

\* Initial states satisfy SerialInv.
LEMMA SerialInit == Init /\ Serial => SerialInv
<1>1. Init => CopyIsCurrent /\ KeyPinned
  BY DEF Init, CopyIsCurrent, KeyPinned
<1> QED BY <1>1, ConcurrentInit DEF SerialInv

\* A step that at most removes sessions and reports nothing but logins and
\* closes keeps KeyPinned.
LEMMA RemovalKeepsKeys ==
  ASSUME KeyPinned, HistoryTypeOK,
         \A i \in Ids : sessions'[i] \in {sessions[i], Nil},
         \A e \in events' : e.type = "REGISTER" => e \in events
  PROVE  KeyPinned'
<1>1. \A e \in events : e.session \in Ids
  BY DEF HistoryTypeOK, Event
<1> QED BY <1>1 DEF KeyPinned

\* Every step keeps SerialInv when one worker makes all the calls.
LEMMA SerialStep == SerialInv /\ [Next]_vars => SerialInv'
<1> SUFFICES ASSUME SerialInv, [Next]_vars PROVE SerialInv'
  OBVIOUS
<1>c. ConcurrentInv /\ ConcurrentInv' /\ Serial /\ Serial'
  BY ConcurrentStep DEF SerialInv, Serial
<1>t. TypeInv /\ StoreTypeOK /\ WorkerTypeOK /\ HistoryTypeOK /\ CallsHoldSessions
  BY <1>c DEF ConcurrentInv, TypeInv, TypeOK
<1>k. CopyIsCurrent /\ KeyPinned
  BY DEF SerialInv
<1>1. CASE UNCHANGED vars \/ ClockTick
  <2>1. UNCHANGED <<sessions, pc, loaded, events>>
    BY <1>1 DEF vars, storeVars, workerVars, historyVars, ClockTick, Tick
  <2> QED BY <2>1, <1>c, <1>k DEF SerialInv, CopyIsCurrent, KeyPinned
<1>2. ASSUME NEW w \in Workers, WorkerStep(w) PROVE SerialInv'
  <2>0. ASSUME NEW r, NEW leak, Return(w, r, leak) PROVE CopyIsCurrent'
    <3>1. \A x \in Workers : pc'[x] = "idle"
      BY <2>0, <1>c, <1>t DEF Return, WorkerTypeOK, Serial
    <3> QED BY <3>1 DEF CopyIsCurrent
  <2>1. CASE Quits(w)
    <3>1. CopyIsCurrent'
      BY <2>0, <2>1 DEF Quits
    <3>2. KeyPinned'
      BY <2>1, <1>k DEF Quits, storeVars, historyVars, KeyPinned
    <3> QED BY <3>1, <3>2, <1>c DEF SerialInv
  <2>2. CASE Loads(w)
    <3>1. PICK id \in Ids, out \in Session \cup {Nil} :
            /\ Get(id, out)
            /\ \/ \E r \in Response : Return(w, r, FALSE)
               \/ /\ out # Nil
                  /\ \E step \in {"register", "refresh", "close"}, hdr \in Token \cup {Nil} :
                       Proceed(w, step, out, hdr)
      BY <2>2 DEF Loads
    <3>2. /\ out \in {sessions[id], Nil} /\ (out # Nil => sessions' = sessions)
          /\ \E v \in {sessions[id], Nil} : sessions' = [sessions EXCEPT ![id] = v]
      BY <3>1, <1>t, GetEffect
    <3>3. CopyIsCurrent'
      <4>1. CASE \E r \in Response : Return(w, r, FALSE)
        BY <4>1, <2>0
      <4>2. CASE out # Nil /\ \E step \in {"register", "refresh", "close"},
                                  hdr \in Token \cup {Nil} : Proceed(w, step, out, hdr)
        <5>1. \A x \in Workers : loaded'[x] = sessions[id] /\ sessions[id].id = id
          BY <4>2, <3>2, <1>c, <1>t DEF Proceed, Serial, WorkerTypeOK, StoreTypeOK
        <5> QED BY <5>1, <4>2, <3>2 DEF CopyIsCurrent
      <4> QED BY <3>1, <4>1, <4>2
    <3>4. \A i \in Ids : sessions'[i] \in {sessions[i], Nil}
      BY <3>2, <1>t DEF StoreTypeOK
    <3>5. KeyPinned'
      BY <2>2, <3>4, <1>k, <1>t, RemovalKeepsKeys DEF Loads, historyVars
    <3> QED BY <3>3, <3>5, <1>c DEF SerialInv
  <2>3. CASE \E u \in Users : Initiate(w, u)
    <3>1. PICK u \in Users, id \in Ids \ usedIds, c \in generate_challenge, ok \in BOOLEAN :
            InitiateStore(w, u, id, c, ok)
      BY <2>3 DEF Initiate, session_new_id
    <3>2. CopyIsCurrent'
      BY <3>1, <2>0 DEF InitiateStore
    <3>3. \A i \in Ids \ {id} : sessions'[i] = sessions[i]
      <4> DEFINE s == NewSession(id, u, c, now)
      <4>1. s.id = id /\ Create(s, ok)
        BY <3>1 DEF InitiateStore, NewSession
      <4> HIDE DEF s
      <4> QED BY <4>1, <1>t DEF Create, Torn, Put, StoreTypeOK
    <3>4. \A f \in events' : f.type = "REGISTER" => f \in events
      <4>1. \/ events' = events
            \/ events' = events \cup {[type |-> "LOGIN", session |-> id, key |-> Nil,
                                       signer |-> Nil, jti |-> Nil, next |-> c]}
        BY <3>1 DEF InitiateStore, emit_event
      <4> QED BY <4>1
    <3>5. \A f \in events : f.session \in Ids \ {id}
      BY <1>c, <1>t DEF ConcurrentInv, IdsGenerated, HistoryTypeOK, Event
    <3>6. KeyPinned'
      BY <3>3, <3>4, <3>5, <1>k DEF KeyPinned
    <3> QED BY <3>2, <3>6, <1>c DEF SerialInv
  <2>4. CASE RegisterBind(w) \/ RefreshExtend(w)
    <3>1. PICK s, e, c : Rotates(w, s, c, e)
      BY <2>4, <1>t, RotateEffect
    <3>2. CopyIsCurrent'
      BY <3>1, <2>0 DEF Rotates
    <3>3. /\ s \in Session /\ s.id \in Ids /\ s.id = loaded[w].id /\ pc[w] # "idle"
          /\ s.state = "bound" /\ (loaded[w].state = "bound" => s.public_key = loaded[w].public_key)
          /\ e.session = s.id /\ e.key = s.public_key
          /\ e.type = (IF loaded[w].state = "bound" THEN "REFRESH" ELSE "REGISTER")
      BY <3>1 DEF Rotates, Session
    <3>4. sessions[s.id] = loaded[w] /\ sessions[s.id] # Nil
      BY <3>3, <1>k, <1>t DEF CopyIsCurrent, CallsHoldSessions
    <3>5. PICK ok \in BOOLEAN : /\ Update(s, ok)
                                /\ events' = IF ok THEN events \cup {e} ELSE events
      BY <3>1 DEF Rotates
    <3>6. /\ ok => sessions' = [sessions EXCEPT ![s.id] = s]
          /\ \E v \in {sessions[s.id], s, Nil} : sessions' = [sessions EXCEPT ![s.id] = v]
      <4>1. ok => sessions' = [sessions EXCEPT ![s.id] = s]
        BY <3>5 DEF Update, Put
      <4> QED BY <4>1, <3>3, <3>5, <1>t, WriteEffect
    <3>7. KeyPinned'
      <4>1. SUFFICES ASSUME NEW f \in events', f.type = "REGISTER", sessions'[f.session] # Nil
                     PROVE  /\ sessions'[f.session].state = "bound"
                            /\ sessions'[f.session].public_key = f.key
        BY DEF KeyPinned
      <4>2. f \in events => f.session \in Ids
        BY <1>t DEF HistoryTypeOK, Event
      <4>3. CASE f \in events /\ f.session # s.id
        BY <4>1, <4>2, <4>3, <3>6, <1>k, <1>t DEF KeyPinned, StoreTypeOK
      <4>4. CASE f \in events /\ f.session = s.id
        <5>1. loaded[w].state = "bound" /\ loaded[w].public_key = f.key
          BY <4>1, <4>4, <3>4, <1>k DEF KeyPinned
        <5> QED BY <4>1, <4>4, <5>1, <3>3, <3>4, <3>6, <1>t DEF StoreTypeOK
      <4>5. CASE f \notin events
        <5>1. ok /\ f = e
          BY <4>1, <4>5, <3>5
        <5> QED BY <5>1, <3>3, <3>6, <1>t DEF StoreTypeOK
      <4> QED BY <4>3, <4>4, <4>5
    <3> QED BY <3>2, <3>7, <1>c DEF SerialInv
  <2>5. CASE \E ok \in BOOLEAN : CloseDelete(w, ok)
    <3>1. PICK ok \in BOOLEAN : CloseDelete(w, ok)
      BY <2>5
    <3>2. CopyIsCurrent'
      BY <3>1, <2>0 DEF CloseDelete
    <3>3. \A i \in Ids : sessions'[i] \in {sessions[i], Nil}
      BY <3>1, <1>t DEF CloseDelete, Delete, Put, StoreTypeOK
    <3>4. \A f \in events' : f.type = "REGISTER" => f \in events
      <4>1. \/ events' = events
            \/ events' = events \cup {[type |-> "CLOSE", session |-> loaded[w].id,
                                       key |-> Nil, signer |-> Nil, jti |-> Nil,
                                       next |-> Nil]}
        BY <3>1 DEF CloseDelete, emit_event
      <4> QED BY <4>1
    <3>5. KeyPinned'
      BY <3>3, <3>4, <1>k, <1>t, RemovalKeepsKeys
    <3> QED BY <3>2, <3>5, <1>c DEF SerialInv
  <2> QED BY <1>t, <1>2, <2>1, <2>2, <2>3, <2>4, <2>5, StepKinds DEF Writes
<1> QED BY <1>1, <1>2 DEF Next

\* When calls do not overlap, the key a registration acknowledged stays the
\* key of the session, through failing stores and failing allocations.
THEOREM SerialKeyPinned == Spec /\ Serial => []KeyPinned
<1>1. SerialInv => KeyPinned
  BY DEF SerialInv
<1> QED BY <1>1, SerialInit, SerialStep, PTL DEF Spec

-----------------------------------------------------------------------------
\* Initial states satisfy FreshInv.
LEMMA FreshInit == Init /\ Serial => FreshInv
<1>1. Init => SpentIsGone /\ WaitingApart /\ SpentWasIssued /\ SpentOnce
  BY DEF Init, StoreInit, SpentIsGone, WaitingApart, SpentWasIssued, SpentOnce
<1> QED BY <1>1, SerialInit DEF FreshInv

\* A step that at most removes sessions and accepts no proof.
LEMMA RemovalKeepsFresh ==
  ASSUME FreshInv, \A i \in Ids : sessions'[i] \in {sessions[i], Nil},
         issued \subseteq issued', \A e \in events' : e.jti # Nil => e \in events
  PROVE  (SpentIsGone /\ WaitingApart /\ SpentWasIssued /\ SpentOnce)'
<1>1. IssuedChallenges \subseteq IssuedChallenges'
  BY DEF IssuedChallenges
<1>2. SpentIsGone'
  BY DEF FreshInv, SpentIsGone
<1>3. WaitingApart'
  BY DEF FreshInv, WaitingApart
<1>4. SpentWasIssued'
  BY <1>1 DEF FreshInv, SpentWasIssued
<1>5. SpentOnce'
  BY DEF FreshInv, SpentOnce
<1> QED BY <1>2, <1>3, <1>4, <1>5

\* A step that stores, under one identifier, a session with a new challenge.
LEMMA WriteKeepsFresh ==
  ASSUME FreshInv, NEW id \in Ids, NEW c \in generate_challenge, NEW s \in Session,
         s.challenge = c, Issue(c, id),
         \A i \in Ids : sessions'[i] \in {sessions[i], Nil} \/ (i = id /\ sessions'[i] = s)
  PROVE  /\ WaitingApart'
         /\ \A e \in events, i \in Ids :
              e.jti \notin {Nil, Fallback} /\ sessions'[i] # Nil =>
                sessions'[i].challenge # e.jti
         /\ \A e \in events : e.jti # Nil => e.jti \in IssuedChallenges'
<1>1. c \notin IssuedChallenges \/ c = Fallback
  BY DEF generate_challenge
<1>2. IssuedChallenges \subseteq IssuedChallenges'
  BY DEF IssuedChallenges, Issue
<1>3. ASSUME NEW i \in Ids, sessions[i] # Nil
      PROVE  sessions[i].challenge \in IssuedChallenges
  <2>1. [challenge |-> sessions[i].challenge, session |-> i] \in issued
    BY <1>3 DEF FreshInv, SerialInv, ConcurrentInv, ChallengesGenerated
  <2> QED BY <2>1 DEF IssuedChallenges
<1>4. WaitingApart'
  BY <1>1, <1>3 DEF FreshInv, WaitingApart
<1>5. ASSUME NEW e \in events, NEW i \in Ids, e.jti \notin {Nil, Fallback},
             sessions'[i] # Nil
      PROVE  sessions'[i].challenge # e.jti
  BY <1>1, <1>5 DEF FreshInv, SpentIsGone, SpentWasIssued
<1>6. \A e \in events : e.jti # Nil => e.jti \in IssuedChallenges'
  BY <1>2 DEF FreshInv, SpentWasIssued
<1> QED BY <1>4, <1>5, <1>6

\* Every step keeps FreshInv when one worker makes all the calls.
LEMMA FreshStep == FreshInv /\ [Next]_vars => FreshInv'
<1> SUFFICES ASSUME FreshInv, [Next]_vars PROVE FreshInv'
  OBVIOUS
<1>c. SerialInv /\ SerialInv'
  BY SerialStep DEF FreshInv
<1>t. TypeInv /\ StoreTypeOK /\ WorkerTypeOK /\ HistoryTypeOK /\ CallsHoldSessions
  BY <1>c DEF SerialInv, ConcurrentInv, TypeInv, TypeOK
<1>r. ASSUME \A i \in Ids : sessions'[i] \in {sessions[i], Nil}, issued' = issued,
             \A e \in events' : e.jti # Nil => e \in events
      PROVE  FreshInv'
  BY <1>r, <1>c, RemovalKeepsFresh DEF FreshInv
<1>1. CASE UNCHANGED vars \/ ClockTick
  BY <1>1, <1>r DEF vars, storeVars, historyVars, ClockTick, Tick
<1>2. ASSUME NEW w \in Workers, WorkerStep(w) PROVE FreshInv'
  <2>1. CASE Quits(w)
    BY <2>1, <1>r DEF Quits, storeVars, historyVars
  <2>2. CASE Loads(w)
    <3>1. PICK id \in Ids, out \in Session \cup {Nil} : Get(id, out)
      BY <2>2 DEF Loads
    <3>2. \E v \in {sessions[id], Nil} : sessions' = [sessions EXCEPT ![id] = v]
      BY <3>1, <1>t, GetEffect
    <3>3. \A i \in Ids : sessions'[i] \in {sessions[i], Nil}
      BY <3>2, <1>t DEF StoreTypeOK
    <3> QED BY <2>2, <3>3, <1>r DEF Loads, historyVars
  <2>3. CASE \E u \in Users : Initiate(w, u)
    <3>1. PICK u \in Users, id \in Ids \ usedIds, c \in generate_challenge, ok \in BOOLEAN :
            InitiateStore(w, u, id, c, ok)
      BY <2>3 DEF Initiate, session_new_id
    <3> DEFINE s == NewSession(id, u, c, now)
    <3>2. s \in Session /\ s.id = id /\ s.challenge = c
      <4>1. c \in ChallengeValues /\ ExpiryAt(now) \in Nat \cup {Nil} /\ now \in Nat
        BY <1>t, HeaderType, TtlAssumption DEF StoreTypeOK, ExpiryAt
      <4> QED BY <4>1 DEF NewSession, Session
    <3>3. Create(s, ok) /\ Issue(c, id)
      BY <3>1 DEF InitiateStore
    <3>4. \A f \in events' : f.jti # Nil => f \in events
      <4>1. \/ events' = events
            \/ events' = events \cup {[type |-> "LOGIN", session |-> id, key |-> Nil,
                                       signer |-> Nil, jti |-> Nil, next |-> c]}
        BY <3>1 DEF InitiateStore, emit_event
      <4> QED BY <4>1
    <3> HIDE DEF s
    <3>5. \A i \in Ids : sessions'[i] \in {sessions[i], Nil} \/ (i = id /\ sessions'[i] = s)
      <4>1. \E v \in {sessions[id], s, Nil} : sessions' = [sessions EXCEPT ![id] = v]
        BY <3>2, <3>3, <1>t, WriteEffect
      <4> QED BY <4>1, <1>t DEF StoreTypeOK
    <3>6. /\ WaitingApart'
          /\ \A e \in events, i \in Ids :
               e.jti \notin {Nil, Fallback} /\ sessions'[i] # Nil =>
                 sessions'[i].challenge # e.jti
          /\ \A e \in events : e.jti # Nil => e.jti \in IssuedChallenges'
      BY <3>2, <3>3, <3>5, WriteKeepsFresh
    <3>7. SpentIsGone' /\ SpentWasIssued'
      BY <3>4, <3>6 DEF SpentIsGone, SpentWasIssued
    <3>8. SpentOnce'
      BY <3>4 DEF FreshInv, SpentOnce
    <3> QED BY <3>6, <3>7, <3>8, <1>c DEF FreshInv
  <2>4. CASE RegisterBind(w) \/ RefreshExtend(w)
    <3>1. PICK s, e : \E c \in generate_challenge : Rotates(w, s, c, e)
      BY <2>4, <1>t, RotateEffect
    <3>2. PICK c \in generate_challenge : Rotates(w, s, c, e)
      BY <3>1
    <3>3. /\ s \in Session /\ s.id \in Ids /\ s.id = loaded[w].id /\ pc[w] # "idle"
          /\ s.challenge = c /\ e.jti = loaded[w].challenge /\ Issue(c, s.id)
      BY <3>2 DEF Rotates, Session
    <3>4. sessions[s.id] = loaded[w] /\ sessions[s.id] # Nil
      BY <3>3, <1>c, <1>t DEF SerialInv, CopyIsCurrent, CallsHoldSessions
    <3>5. PICK ok \in BOOLEAN : /\ Update(s, ok)
                                /\ events' = IF ok THEN events \cup {e} ELSE events
      BY <3>2 DEF Rotates
    <3>6. \E v \in {sessions[s.id], s, Nil} : sessions' = [sessions EXCEPT ![s.id] = v]
      BY <3>3, <3>5, <1>t, WriteEffect
    <3>7. \A i \in Ids : sessions'[i] \in {sessions[i], Nil} \/ (i = s.id /\ sessions'[i] = s)
      BY <3>3, <3>6, <1>t DEF StoreTypeOK
    <3>8. /\ WaitingApart'
          /\ \A f \in events, i \in Ids :
               f.jti \notin {Nil, Fallback} /\ sessions'[i] # Nil =>
                 sessions'[i].challenge # f.jti
          /\ \A f \in events : f.jti # Nil => f.jti \in IssuedChallenges'
      BY <3>3, <3>7, WriteKeepsFresh
    \* The challenge just spent: issued earlier, spent by no one else, and
    \* replaced in the only session that waited for it.
    <3>9. e.jti \in IssuedChallenges /\ (c \notin IssuedChallenges \/ c = Fallback)
      <4>1. [challenge |-> loaded[w].challenge, session |-> loaded[w].id] \in issued
        BY <3>3, <1>c DEF SerialInv, ConcurrentInv, ChallengesGenerated
      <4>2. e.jti \in IssuedChallenges
        BY <4>1, <3>3 DEF IssuedChallenges
      <4> QED BY <4>2 DEF generate_challenge
    <3>10. \A f \in events : f.jti # e.jti \/ f.jti \in {Nil, Fallback}
      BY <3>3, <3>4 DEF FreshInv, SpentIsGone
    <3>11. ok /\ e.jti # Fallback =>
             \A i \in Ids : sessions'[i] # Nil => sessions'[i].challenge # e.jti
      <4>1. SUFFICES ASSUME ok, e.jti # Fallback, NEW i \in Ids, sessions'[i] # Nil
                     PROVE  sessions'[i].challenge # e.jti
        OBVIOUS
      <4>2. sessions' = [sessions EXCEPT ![s.id] = s]
        BY <4>1, <3>5 DEF Update, Put
      <4>3. CASE i = s.id
        BY <4>1, <4>2, <4>3, <3>3, <3>9, <1>t DEF StoreTypeOK
      <4>4. CASE i # s.id
        BY <4>1, <4>2, <4>4, <3>3, <3>4, <1>t DEF StoreTypeOK, FreshInv, WaitingApart
      <4> QED BY <4>3, <4>4
    <3>12. SpentIsGone'
      BY <3>5, <3>8, <3>11 DEF SpentIsGone
    <3>13. SpentWasIssued'
      <4>1. IssuedChallenges \subseteq IssuedChallenges'
        BY <3>3 DEF IssuedChallenges, Issue
      <4> QED BY <4>1, <3>5, <3>8, <3>9 DEF SpentWasIssued
    <3>14. SpentOnce'
      BY <3>5, <3>10 DEF FreshInv, SpentOnce
    <3> QED BY <3>8, <3>12, <3>13, <3>14, <1>c DEF FreshInv
  <2>5. CASE \E ok \in BOOLEAN : CloseDelete(w, ok)
    <3>1. PICK ok \in BOOLEAN : CloseDelete(w, ok)
      BY <2>5
    <3>2. \A i \in Ids : sessions'[i] \in {sessions[i], Nil}
      BY <3>1, <1>t DEF CloseDelete, Delete, Put, StoreTypeOK
    <3>3. \A f \in events' : f.jti # Nil => f \in events
      <4>1. \/ events' = events
            \/ events' = events \cup {[type |-> "CLOSE", session |-> loaded[w].id,
                                       key |-> Nil, signer |-> Nil, jti |-> Nil,
                                       next |-> Nil]}
        BY <3>1 DEF CloseDelete, emit_event
      <4> QED BY <4>1
    <3> QED BY <3>1, <3>2, <3>3, <1>r DEF CloseDelete
  <2> QED BY <1>t, <1>2, <2>1, <2>2, <2>3, <2>4, <2>5, StepKinds DEF Writes
<1> QED BY <1>1, <1>2 DEF Next

\* When calls do not overlap, no two acknowledged registrations or refreshes
\* rest on the same random challenge: a replayed proof is never accepted, in its
\* own session or in another.  This needs no working getentropy: when it fails,
\* only the constant it leaves is accepted again, and no older challenge is.
THEOREM SerialSpentOnce == Spec /\ Serial => []SpentOnce
<1>1. FreshInv => SpentOnce
  BY DEF FreshInv
<1> QED BY <1>1, FreshInit, FreshStep, PTL DEF Spec

-----------------------------------------------------------------------------
\* What a worker's last response announces is what the session expects now.
Announces(w) ==
  LET s == sessions[resp[w].session]
  IN  resp[w].challenge # Nil => s = Nil \/ s.challenge = resp[w].challenge

\* The challenge in a response that a call ends with.
LEMMA ReturnAnnounces ==
  ASSUME WorkerTypeOK, NEW w \in Workers, NEW r, NEW leak, Return(w, r, leak),
         \/ r.challenge = Nil
         \/ sessions'[r.session] = Nil
         \/ sessions'[r.session].challenge = r.challenge
  PROVE  Announces(w)'
<1>1. resp'[w] = r
  BY DEF Return, WorkerTypeOK
<1> QED BY <1>1 DEF Announces

\* A call that goes on has announced nothing.
LEMMA ProceedAnnounces ==
  ASSUME WorkerTypeOK, NEW w \in Workers, NEW step, NEW s, NEW hdr, Proceed(w, step, s, hdr)
  PROVE  Announces(w)'
<1>1. resp'[w] = EmptyResponse
  BY DEF Proceed, WorkerTypeOK
<1> QED BY <1>1 DEF Announces, EmptyResponse, Respond

\* The responses without a challenge.
LEMMA SilentResponses ==
  /\ InternalError.challenge = Nil
  /\ \A status : ErrorResponse(status).challenge = Nil
  /\ \A out : LookupResponse(out).challenge = Nil
  /\ \A s, rc : CloseResponse(s, rc).challenge = Nil
BY DEF InternalError, ErrorResponse, LookupResponse, CloseResponse, Respond

\* A refusal announces the challenge of the session it is about.
LEMMA RefusalAnnounces ==
  \A s : ChallengeResponse(s).session = s.id /\ ChallengeResponse(s).challenge = s.challenge
BY DEF ChallengeResponse, Respond

\* When calls do not overlap, every call leaves the worker with a response that
\* is current: a refusal announces the challenge of the copy it read, which is
\* still stored, and a success the challenge it has just stored.
LEMMA AnnouncedStep ==
  ASSUME SerialInv, NEW w \in Workers, WorkerStep(w)
  PROVE  Announces(w)'
<1>t. StoreTypeOK /\ WorkerTypeOK /\ HistoryTypeOK /\ CallsHoldSessions /\ TypeInv
  BY DEF SerialInv, ConcurrentInv, TypeInv, TypeOK
<1>q. ASSUME NEW r, NEW leak, Return(w, r, leak), r.challenge = Nil
      PROVE  Announces(w)'
  BY <1>q, <1>t, ReturnAnnounces
<1>1. CASE \E u \in Users : Initiate(w, u)
  <2>1. PICK u \in Users, id \in Ids \ usedIds, c \in generate_challenge, ok \in BOOLEAN :
          InitiateStore(w, u, id, c, ok)
    BY <1>1 DEF Initiate, session_new_id
  <2> DEFINE s == NewSession(id, u, c, now)
  <2>2. CASE ok = TRUE
    <3>1. Create(s, TRUE) /\ Return(w, LoginResponse(s), FALSE)
      BY <2>1, <2>2 DEF InitiateStore
    <3>2. s.id = id
      BY DEF NewSession
    <3> HIDE DEF s
    <3>3. sessions'[s.id] = s
      BY <3>1, <3>2, <1>t DEF Create, Put, StoreTypeOK
    <3>4. LoginResponse(s).session = s.id /\ LoginResponse(s).challenge = s.challenge
      BY DEF LoginResponse, Respond
    <3> QED BY <3>1, <3>3, <3>4, <1>t, ReturnAnnounces
  <2>3. CASE ok = FALSE
    BY <2>1, <2>3, <1>q, SilentResponses DEF InitiateStore
  <2> QED BY <2>2, <2>3
<1>2. CASE InitiateFails(w) \/ RegisterMissingCookie(w) \/ RefreshMissingId(w)
           \/ CloseMissingId(w) \/ RegisterNoChallenge(w) \/ RefreshNoChallenge(w)
  BY <1>2, <1>q, SilentResponses
     DEF InitiateFails, RegisterMissingCookie, RefreshMissingId, CloseMissingId,
         RegisterNoChallenge, RefreshNoChallenge
<1>3. CASE \E id \in Ids : GetSession(w, id)
  BY <1>3, <1>q, SilentResponses DEF GetSession
<1>4. CASE \E id \in Ids : \E hdr \in Headers : RegisterLoad(w, id, hdr) \/ RefreshLoad(w, id, hdr)
  <2>1. PICK id \in Ids, hdr \in Headers : RegisterLoad(w, id, hdr) \/ RefreshLoad(w, id, hdr)
    BY <1>4
  <2>2. PICK out \in {sessions[id], Nil} :
          /\ Get(id, out)
          /\ \/ \E status : Return(w, ErrorResponse(status), FALSE)
             \/ out # Nil /\ Return(w, ChallengeResponse(out), FALSE)
             \/ \E step : Proceed(w, step, out, hdr)
    BY <2>1 DEF RegisterLoad, RefreshLoad
  <2>3. CASE \E status : Return(w, ErrorResponse(status), FALSE)
    BY <2>3, <1>q, SilentResponses
  <2>4. CASE out # Nil /\ Return(w, ChallengeResponse(out), FALSE)
    <3>1. sessions'[id] = out /\ out.id = id
      BY <2>2, <2>4, <1>t DEF Get, StoreTypeOK
    <3> QED BY <3>1, <2>4, <1>t, ReturnAnnounces, RefusalAnnounces
  <2>5. CASE \E step : Proceed(w, step, out, hdr)
    BY <2>5, <1>t, ProceedAnnounces
  <2> QED BY <2>2, <2>3, <2>4, <2>5
<1>5. CASE RegisterReject(w) \/ RefreshReject(w)
  <2>1. /\ pc[w] # "idle" /\ UNCHANGED sessions
        /\ \E leak : Return(w, ChallengeResponse(loaded[w]), leak)
    BY <1>5 DEF RegisterReject, RefreshReject, storeVars
  <2>2. sessions'[loaded[w].id] = loaded[w]
    BY <2>1 DEF SerialInv, CopyIsCurrent
  <2> QED BY <2>1, <2>2, <1>t, ReturnAnnounces, RefusalAnnounces
<1>6. CASE RegisterBind(w) \/ RefreshExtend(w)
  <2>1. PICK s, c, e : Rotates(w, s, c, e)
    BY <1>6, <1>t, RotateEffect
  <2>2. CASE Update(s, TRUE) /\ Return(w, SuccessResponse(s), FALSE)
    <3>1. sessions'[s.id] = s
      BY <2>1, <2>2, <1>t DEF Rotates, Update, Put, StoreTypeOK, Session
    <3>2. SuccessResponse(s).session = s.id /\ SuccessResponse(s).challenge = s.challenge
      BY DEF SuccessResponse, Respond
    <3> QED BY <2>2, <3>1, <3>2, <1>t, ReturnAnnounces
  <2>3. CASE \E leak \in BOOLEAN : Return(w, InternalError, leak)
    BY <2>3, <1>q, SilentResponses
  <2> QED BY <2>1, <2>2, <2>3 DEF Rotates
<1>7. CASE \E id \in Ids : CloseLoad(w, id)
  BY <1>7, <1>q, <1>t, SilentResponses, ProceedAnnounces DEF CloseLoad
<1>8. CASE \E ok \in BOOLEAN : CloseDelete(w, ok)
  BY <1>8, <1>q, SilentResponses DEF CloseDelete
<1> QED BY <1>1, <1>2, <1>3, <1>4, <1>5, <1>6, <1>7, <1>8 DEF WorkerStep

\* When calls do not overlap, the challenge in the last response is the one the
\* session expects, so a client that answers it is not turned away: refusals
\* announce the stored challenge and rotations the one they have stored, even
\* when stores and allocations fail.
THEOREM SerialAnnounced == Spec /\ Serial => []AnnouncedChallengeIsCurrent
<1> DEFINE Inv == SerialInv /\ AnnouncedChallengeIsCurrent
<1>1. Init /\ Serial => Inv
  <2>1. Init => AnnouncedChallengeIsCurrent
    BY DEF Init, AnnouncedChallengeIsCurrent, EmptyResponse, Respond
  <2> QED BY <2>1, SerialInit
<1>2. Inv /\ [Next]_vars => Inv'
  <2> SUFFICES ASSUME Inv, [Next]_vars PROVE Inv'
    OBVIOUS
  <2>1. SerialInv /\ SerialInv' /\ Serial
    BY SerialStep DEF SerialInv
  <2>2. CASE UNCHANGED vars \/ ClockTick
    <3>1. UNCHANGED <<sessions, resp>>
      BY <2>2 DEF vars, storeVars, workerVars, ClockTick, Tick
    <3> QED BY <3>1, <2>1 DEF AnnouncedChallengeIsCurrent
  <2>3. ASSUME NEW w \in Workers, WorkerStep(w) PROVE Inv'
    <3>1. Announces(w)'
      BY <2>1, <2>3, AnnouncedStep
    <3>2. \A x \in Workers : x = w
      BY <2>1 DEF Serial
    <3> QED BY <3>1, <3>2, <2>1 DEF AnnouncedChallengeIsCurrent, Announces
  <2> QED BY <2>2, <2>3 DEF Next
<1> QED BY <1>1, <1>2, PTL DEF Spec

-----------------------------------------------------------------------------
\* Whoever was told, with a return code of 0, that a session is closed was told
\* so by a call that reported the close.
ClearsAreReported ==
  \A w \in Workers :
    resp[w].rc = 0 /\ resp[w].cookie = "clear" =>
      \E e \in events : e.type = "CLOSE" /\ e.session = resp[w].session

\* Only opendbsc_manager_close clears the cookie.
LEMMA OtherResponsesKeepCookie ==
  /\ EmptyResponse.cookie # "clear"
  /\ InternalError.cookie # "clear"
  /\ \A status : ErrorResponse(status).cookie # "clear"
  /\ \A out : LookupResponse(out).cookie # "clear"
  /\ \A s : /\ ChallengeResponse(s).cookie # "clear"
            /\ LoginResponse(s).cookie # "clear"
            /\ SuccessResponse(s).cookie # "clear"
BY DEF EmptyResponse, InternalError, ErrorResponse, LookupResponse, ChallengeResponse,
       LoginResponse, SuccessResponse, Respond

\* A step of a worker leaves it with a response that keeps the cookie, unless
\* it is the end of a close.
LEMMA ClearingStep ==
  ASSUME WorkerTypeOK, NEW w \in Workers, WorkerStep(w)
  PROVE  resp'[w].cookie # "clear" \/ \E ok \in BOOLEAN : CloseDelete(w, ok)
<1>q. ASSUME NEW r, NEW leak, Return(w, r, leak), r.cookie # "clear"
      PROVE  resp'[w].cookie # "clear"
  BY <1>q DEF Return, WorkerTypeOK
<1>p. ASSUME NEW step, NEW s, NEW hdr, Proceed(w, step, s, hdr)
      PROVE  resp'[w].cookie # "clear"
  BY <1>p, OtherResponsesKeepCookie DEF Proceed, WorkerTypeOK
<1>1. CASE \E u \in Users : Initiate(w, u)
  <2>1. \/ \E s : Return(w, LoginResponse(s), FALSE)
        \/ Return(w, InternalError, FALSE)
    BY <1>1 DEF Initiate, InitiateStore
  <2> QED BY <2>1, <1>q, OtherResponsesKeepCookie
<1>2. CASE InitiateFails(w) \/ RegisterMissingCookie(w) \/ RefreshMissingId(w)
           \/ CloseMissingId(w) \/ RegisterNoChallenge(w) \/ RefreshNoChallenge(w)
  <2>1. \/ \E status : Return(w, ErrorResponse(status), FALSE)
        \/ \E leak : Return(w, InternalError, leak)
    BY <1>2, Zenon
       DEF InitiateFails, RegisterMissingCookie, RefreshMissingId, CloseMissingId,
           RegisterNoChallenge, RefreshNoChallenge
  <2> QED BY <2>1, <1>q, OtherResponsesKeepCookie
<1>3. CASE \E id \in Ids : GetSession(w, id) \/ CloseLoad(w, id)
  <2>1. \/ \E out : Return(w, LookupResponse(out), FALSE)
        \/ \E status : Return(w, ErrorResponse(status), FALSE)
        \/ Return(w, InternalError, FALSE)
        \/ \E step, s, hdr : Proceed(w, step, s, hdr)
    BY <1>3 DEF GetSession, CloseLoad
  <2> QED BY <2>1, <1>q, <1>p, OtherResponsesKeepCookie
<1>4. CASE \E id \in Ids : \E hdr \in Headers : RegisterLoad(w, id, hdr) \/ RefreshLoad(w, id, hdr)
  <2>1. PICK id \in Ids, hdr \in Headers : RegisterLoad(w, id, hdr) \/ RefreshLoad(w, id, hdr)
    BY <1>4
  <2>2. \/ \E status : Return(w, ErrorResponse(status), FALSE)
        \/ \E s : Return(w, ChallengeResponse(s), FALSE)
        \/ \E step, s : Proceed(w, step, s, hdr)
    BY <2>1, ZenonT(30) DEF RegisterLoad, RefreshLoad
  <2> QED BY <2>2, <1>q, <1>p, OtherResponsesKeepCookie
<1>5. CASE RegisterReject(w) \/ RefreshReject(w)
  <2>1. \E s, leak : Return(w, ChallengeResponse(s), leak)
    BY <1>5 DEF RegisterReject, RefreshReject
  <2> QED BY <2>1, <1>q, OtherResponsesKeepCookie
<1>6. CASE RegisterBind(w) \/ RefreshExtend(w)
  <2>1. \/ \E s : Return(w, SuccessResponse(s), FALSE)
        \/ \E leak : Return(w, InternalError, leak)
    BY <1>6 DEF RegisterBind, RegisterStore, RefreshExtend, RefreshStore
  <2> QED BY <2>1, <1>q, OtherResponsesKeepCookie
<1> QED BY <1>1, <1>2, <1>3, <1>4, <1>5, <1>6 DEF WorkerStep

\* A close that returns 0 is final, with any number of overlapping calls and
\* with stores that fail: the return code of opendbsc_manager_close is that of
\* the delete, so its success response never stands for a session that is left.
THEOREM ClosesAreTruthful == Spec => []CloseIsTruthful
<1> DEFINE Inv == ConcurrentInv /\ ClearsAreReported
<1>1. Init => Inv
  <2>1. Init => ClearsAreReported
    BY OtherResponsesKeepCookie DEF Init, ClearsAreReported
  <2> QED BY <2>1, ConcurrentInit
<1>2. Inv /\ [Next]_vars => Inv'
  <2> SUFFICES ASSUME Inv, [Next]_vars PROVE ClearsAreReported'
    BY ConcurrentStep
  <2>t. TypeInv /\ WorkerTypeOK /\ CallsHoldSessions
    BY DEF ConcurrentInv, TypeInv, TypeOK
  <2>1. CASE UNCHANGED vars \/ ClockTick
    BY <2>1 DEF vars, workerVars, historyVars, ClockTick, ClearsAreReported
  <2>2. ASSUME NEW w \in Workers, WorkerStep(w) PROVE ClearsAreReported'
    <3>1. events \subseteq events'
      <4>1. CASE Quits(w) \/ Loads(w)
        BY <4>1 DEF Quits, Loads, historyVars
      <4>2. CASE Writes(w)
        BY <4>2 DEF Writes, Initiate, InitiateStore, RegisterBind, RegisterStore,
                    RefreshExtend, RefreshStore, CloseDelete, emit_event
      <4> QED BY <4>1, <4>2, <2>2, <2>t, StepKinds
    <3>2. \A x \in Workers \ {w} : resp'[x] = resp[x]
      <4>1. \/ \E r, leak : Return(w, r, leak)
            \/ \E step, s, hdr : Proceed(w, step, s, hdr)
        <5>1. CASE Quits(w) \/ Loads(w)
          BY <5>1 DEF Quits, Loads
        <5>2. CASE Writes(w)
          BY <5>2 DEF Writes, Initiate, InitiateStore, RegisterBind, RegisterStore,
                      RefreshExtend, RefreshStore, CloseDelete
        <5> QED BY <5>1, <5>2, <2>2, <2>t, StepKinds
      <4> QED BY <4>1, <2>t DEF Return, Proceed, WorkerTypeOK
    <3>3. CASE resp'[w].cookie # "clear"
      BY <3>1, <3>2, <3>3 DEF ClearsAreReported
    <3>4. ASSUME NEW ok \in BOOLEAN, CloseDelete(w, ok) PROVE ClearsAreReported'
      <4>1. CASE ok = FALSE
        <5>1. resp'[w].rc # 0
          BY <3>4, <4>1, <2>t DEF CloseDelete, Return, WorkerTypeOK, CloseResponse, Respond
        <5> QED BY <5>1, <3>1, <3>2 DEF ClearsAreReported
      <4>2. CASE ok = TRUE
        <5>1. resp'[w].session = loaded[w].id
          BY <3>4, <4>2, <2>t DEF CloseDelete, Return, WorkerTypeOK, CloseResponse, Respond
        <5>2. \E e \in events' : e.type = "CLOSE" /\ e.session = loaded[w].id
          <6> DEFINE e == [type |-> "CLOSE", session |-> loaded[w].id, key |-> Nil,
                           signer |-> Nil, jti |-> Nil, next |-> Nil]
          <6>1. events' = events \cup {e}
            BY <3>4, <4>2 DEF CloseDelete, emit_event
          <6>2. e.type = "CLOSE" /\ e.session = loaded[w].id
            OBVIOUS
          <6> HIDE DEF e
          <6> QED BY <6>1, <6>2
        <5> QED BY <5>1, <5>2, <3>1, <3>2 DEF ClearsAreReported
      <4> QED BY <4>1, <4>2
    <3> QED BY <2>2, <2>t, <3>3, <3>4, ClearingStep
  <2> QED BY <2>1, <2>2 DEF Next
<1>3. Inv => CloseIsTruthful
  BY DEF ConcurrentInv, ClosedStaysClosed, ClearsAreReported, CloseIsTruthful
<1> QED BY <1>1, <1>2, <1>3, PTL DEF Spec
=============================================================================
