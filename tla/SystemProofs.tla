---------------------------- MODULE SystemProofs ----------------------------
(***************************************************************************)
(* The deployed server implements the manager with one worker, for any      *)
(* browsers, keys, losses and failures, so that the theorems about calls    *)
(* that do not overlap hold of it.                                          *)
(*                                                                         *)
(* A step of the loop is a manager step only if the proof it hands over is  *)
(* one a client can have made: over a challenge that was announced to it.   *)
(* That is the invariant below, along the way of a challenge: session,      *)
(* response, reply, browser, request.                                       *)
(*                                                                         *)
(* The second half follows what a browser waits for: of a request that was  *)
(* not given up, one thing is under way at a time, and what the server did  *)
(* for it is what its answer will say.                                      *)
(*                                                                         *)
(* The last two parts are about who is turned away, while it refreshes and  *)
(* while it registers.                                                      *)
(***************************************************************************)
EXTENDS System, ManagerProofs, FiniteSetTheorems

Known == IssuedChallenges \cup {Nil}

\* What responses announce has been generated.
ResponsesKnown == \A w \in Workers : resp[w].challenge \in Known

AnswerOK(a) == a.id \in Ids \cup {Nil} /\ a.challenge \in Known

BrowserStates ==
  [phase: {"out", "registering", "bound", "refreshing"}, id: Ids \cup {Nil},
   challenge: ChallengeValues \cup {Nil}, waiting: BOOLEAN]

BrowsersKnow ==
  /\ browser \in [Clients -> BrowserStates]
  /\ \A b \in Clients : browser[b].challenge \in Known

RequestOK(r) ==
  /\ r = [client |-> r.client, path |-> r.path, id |-> r.id, proof |-> r.proof,
          live |-> r.live]
  /\ r.id \in Ids \cup {Nil}
  /\ strip_quotes(r.proof) \in Headers

RequestsOK == \A r \in sent \cup arrived \cup ready : RequestOK(r)

AnswersOK == \A a \in replies : AnswerOK(a)

SystemInv ==
  /\ ConcurrentInv
  /\ ResponsesKnown
  /\ BrowsersKnow
  /\ RequestsOK
  /\ AnswersOK

-----------------------------------------------------------------------------
\* No step of the manager takes an issued challenge back.
LEMMA IssuedGrows ==
  ASSUME TypeInv, [Next]_vars
  PROVE  issued \subseteq issued' /\ Known \subseteq Known' /\ Headers \subseteq Headers'
<1>1. ASSUME NEW w \in Workers, WorkerStep(w) PROVE issued \subseteq issued'
  <2>1. CASE Quits(w) \/ Loads(w)
    BY <2>1 DEF Quits, Loads, historyVars
  <2>2. CASE \E u \in Users : Initiate(w, u)
    BY <2>2 DEF Initiate, session_new_id, InitiateStore, Issue
  <2>3. CASE RegisterBind(w)
    BY <2>3 DEF RegisterBind, RegisterStore, Issue
  <2>4. CASE RefreshExtend(w)
    BY <2>4 DEF RefreshExtend, RefreshStore, Issue
  <2>5. CASE \E ok \in BOOLEAN : CloseDelete(w, ok)
    BY <2>5 DEF CloseDelete
  <2> QED BY <1>1, <2>1, <2>2, <2>3, <2>4, <2>5, StepKinds DEF Writes
<1>2. issued \subseteq issued'
  BY <1>1 DEF Next, ClockTick, vars, historyVars
<1> QED BY <1>2 DEF Known, IssuedChallenges, Headers

\* A challenge that is issued now is known from now on.
LEMMA IssueKnown ==
  ASSUME NEW c, NEW id, Issue(c, id)
  PROVE  c \in Known'
<1>1. [challenge |-> c, session |-> id] \in issued'
  BY DEF Issue
<1>2. [challenge |-> c, session |-> id].challenge = c
  OBVIOUS
<1> QED BY <1>1, <1>2 DEF Known, IssuedChallenges

\* A response announces nothing, or a challenge of a session or of a copy.
LEMMA ResponsesStep ==
  ASSUME ConcurrentInv, ResponsesKnown, [Next]_vars
  PROVE  ResponsesKnown'
<1>t. TypeInv /\ StoreTypeOK /\ WorkerTypeOK /\ CallsHoldSessions /\ ChallengesGenerated
  BY DEF ConcurrentInv, TypeInv, TypeOK
<1>g. Known \subseteq Known' /\ Nil \in Known'
  BY <1>t, IssuedGrows DEF Known
<1>i. \A c, id : [challenge |-> c, session |-> id] \in issued => c \in Known
  <2>1. SUFFICES ASSUME NEW c, NEW id, [challenge |-> c, session |-> id] \in issued
                 PROVE  c \in IssuedChallenges
    BY DEF Known
  <2>2. [challenge |-> c, session |-> id].challenge = c
    OBVIOUS
  <2> QED BY <2>1, <2>2 DEF IssuedChallenges
<1>k. /\ \A id \in Ids : sessions[id] # Nil => sessions[id].challenge \in Known
      /\ \A w \in Workers : pc[w] # "idle" => loaded[w].challenge \in Known
  BY <1>t, <1>i DEF ChallengesGenerated
<1>n. ASSUME NEW w \in Workers, NEW r, r.challenge \in Known', NEW leak, Return(w, r, leak)
      PROVE  ResponsesKnown'
  BY <1>n, <1>g, <1>t DEF Return, ResponsesKnown, WorkerTypeOK
<1>p. ASSUME NEW w \in Workers, NEW step, NEW s, NEW hdr, Proceed(w, step, s, hdr)
      PROVE  ResponsesKnown'
  BY <1>p, <1>g, <1>t DEF Proceed, ResponsesKnown, WorkerTypeOK, EmptyResponse, Respond
<1>q. /\ InternalError.challenge \in Known'
      /\ \A st : ErrorResponse(st).challenge \in Known'
      /\ \A out : LookupResponse(out).challenge \in Known'
      /\ \A s, rc : CloseResponse(s, rc).challenge \in Known'
      /\ \A s : s.challenge \in Known' =>
           /\ ChallengeResponse(s).challenge \in Known'
           /\ LoginResponse(s).challenge \in Known'
           /\ SuccessResponse(s).challenge \in Known'
  BY <1>g DEF InternalError, ErrorResponse, LookupResponse, CloseResponse,
              ChallengeResponse, LoginResponse, SuccessResponse, Respond
<1>e. ASSUME NEW w \in Workers, NEW st, Return(w, ErrorResponse(st), FALSE)
      PROVE  ResponsesKnown'
  <2>1. ErrorResponse(st).challenge \in Known'
    BY <1>q, Zenon
  <2> QED BY <1>e, <2>1, <1>n, Zenon
<1>c. ASSUME NEW w \in Workers, NEW id \in Ids, sessions[id] # Nil,
             Return(w, ChallengeResponse(sessions[id]), FALSE)
      PROVE  ResponsesKnown'
  <2>1. ChallengeResponse(sessions[id]).challenge \in Known'
    BY <1>c, <1>k, <1>g, <1>q
  <2> QED BY <1>c, <2>1, <1>n, Zenon
<1>1. CASE UNCHANGED vars \/ ClockTick
  <2>1. resp' = resp
    BY <1>1 DEF vars, ClockTick, workerVars
  <2> QED BY <2>1, <1>g DEF ResponsesKnown
<1>2. ASSUME NEW w \in Workers, WorkerStep(w) PROVE ResponsesKnown'
  <2>1. CASE \E u \in Users : Initiate(w, u)
    <3>1. PICK u \in Users, id \in Ids, c \in generate_challenge, ok \in BOOLEAN :
            InitiateStore(w, u, id, c, ok)
      BY <2>1 DEF Initiate, session_new_id
    <3>2. NewSession(id, u, c, now).challenge \in Known'
      BY <3>1, IssueKnown DEF InitiateStore, NewSession
    <3> QED BY <3>1, <3>2, <1>n, <1>q DEF InitiateStore
  <2>2. CASE InitiateFails(w) \/ RegisterMissingCookie(w) \/ RefreshMissingId(w)
             \/ CloseMissingId(w) \/ RegisterNoChallenge(w) \/ RefreshNoChallenge(w)
    <3>1. \E r \in {InternalError, ErrorResponse(400), ErrorResponse(401)} :
            \E leak \in BOOLEAN : Return(w, r, leak)
      BY <2>2, ZenonT(60) DEF InitiateFails, RegisterMissingCookie, RefreshMissingId,
         CloseMissingId, RegisterNoChallenge, RefreshNoChallenge
    <3>2. PICK r \in {InternalError, ErrorResponse(400), ErrorResponse(401)}, leak \in BOOLEAN :
            Return(w, r, leak)
      BY <3>1
    <3>3. r.challenge \in Known'
      BY <3>2, <1>q
    <3> QED BY <3>2, <3>3, <1>n
  <2>3. CASE \E id \in Ids : GetSession(w, id)
    BY <2>3, <1>n, <1>q DEF GetSession
  <2>4. CASE \E id \in Ids : \E hdr \in Headers : RegisterLoad(w, id, hdr)
    <3>1. PICK id \in Ids, hdr \in Headers : RegisterLoad(w, id, hdr)
      BY <2>4, Zenon
    <3>2. ASSUME NEW out \in {sessions[id], Nil}, out # Nil,
                 Return(w, ChallengeResponse(out), FALSE)
          PROVE  ResponsesKnown'
      <4>1. out = sessions[id]
        BY <3>2
      <4> QED BY <3>2, <4>1, <1>c, Zenon
    <3>3. ASSUME NEW out, Proceed(w, "register", out, hdr)
          PROVE  ResponsesKnown'
      BY <3>3, <1>p, Zenon
    <3>4. PICK out \in {sessions[id], Nil} :
            \/ Return(w, ErrorResponse(401), FALSE)
            \/ Return(w, ErrorResponse(400), FALSE)
            \/ out # Nil /\ Return(w, ChallengeResponse(out), FALSE)
            \/ Proceed(w, "register", out, hdr)
      BY <3>1, Zenon DEF RegisterLoad
    <3>5. CASE Return(w, ErrorResponse(401), FALSE) \/ Return(w, ErrorResponse(400), FALSE)
      BY <3>5, <1>e, ZenonT(30)
    <3>6. CASE out # Nil /\ Return(w, ChallengeResponse(out), FALSE)
      BY <3>2, <3>6, Zenon
    <3>7. CASE Proceed(w, "register", out, hdr)
      BY <3>3, <3>7, Zenon
    <3> QED BY <3>4, <3>5, <3>6, <3>7, ZenonT(30)
  <2>5. CASE \E id \in Ids : \E hdr \in Headers : RefreshLoad(w, id, hdr)
    <3>1. PICK id \in Ids, hdr \in Headers : RefreshLoad(w, id, hdr)
      BY <2>5, Zenon
    <3>2. ASSUME NEW out \in {sessions[id], Nil}, out # Nil,
                 Return(w, ChallengeResponse(out), FALSE)
          PROVE  ResponsesKnown'
      <4>1. out = sessions[id]
        BY <3>2
      <4> QED BY <3>2, <4>1, <1>c, Zenon
    <3>3. ASSUME NEW out, Proceed(w, "refresh", out, hdr)
          PROVE  ResponsesKnown'
      BY <3>3, <1>p, Zenon
    <3>4. PICK out \in {sessions[id], Nil} :
            \/ Return(w, ErrorResponse(401), FALSE)
            \/ Return(w, ErrorResponse(400), FALSE)
            \/ out # Nil /\ Return(w, ChallengeResponse(out), FALSE)
            \/ Proceed(w, "refresh", out, hdr)
      BY <3>1, ZenonT(30) DEF RefreshLoad
    <3>5. CASE Return(w, ErrorResponse(401), FALSE) \/ Return(w, ErrorResponse(400), FALSE)
      BY <3>5, <1>e, ZenonT(30)
    <3>6. CASE out # Nil /\ Return(w, ChallengeResponse(out), FALSE)
      BY <3>2, <3>6, Zenon
    <3>7. CASE Proceed(w, "refresh", out, hdr)
      BY <3>3, <3>7, Zenon
    <3> QED BY <3>4, <3>5, <3>6, <3>7, ZenonT(30)
  <2>6. CASE RegisterReject(w) \/ RefreshReject(w)
    <3>1. ChallengeResponse(loaded[w]).challenge \in Known'
      BY <2>6, <1>k, <1>g, <1>q DEF RegisterReject, RefreshReject
    <3> QED BY <2>6, <3>1, <1>n DEF RegisterReject, RefreshReject
  <2>7. CASE RegisterBind(w) \/ RefreshExtend(w)
    <3>1. PICK s, e, c : Rotates(w, s, c, e)
      BY <2>7, <1>t, RotateEffect
    <3>2. s.challenge \in Known'
      BY <3>1, IssueKnown DEF Rotates
    <3> QED BY <3>1, <3>2, <1>n, <1>q DEF Rotates
  <2>8. CASE \E id \in Ids : CloseLoad(w, id)
    <3>1. \/ \E out : Proceed(w, "close", out, Nil)
          \/ Return(w, ErrorResponse(401), FALSE)
          \/ Return(w, InternalError, FALSE)
      BY <2>8 DEF CloseLoad
    <3>2. CASE \E out : Proceed(w, "close", out, Nil)
      BY <3>2, <1>p, Zenon
    <3>3. CASE Return(w, ErrorResponse(401), FALSE)
      BY <3>3, <1>e, Zenon
    <3>4. CASE Return(w, InternalError, FALSE)
      <4>1. InternalError.challenge \in Known'
        BY <1>q, Zenon
      <4> QED BY <3>4, <4>1, <1>n, Zenon
    <3> QED BY <3>1, <3>2, <3>3, <3>4, Zenon
  <2>9. CASE \E ok \in BOOLEAN : CloseDelete(w, ok)
    BY <2>9, <1>n, <1>q DEF CloseDelete
  <2> QED BY <1>2, <2>1, <2>2, <2>3, <2>4, <2>5, <2>6, <2>7, <2>8, <2>9 DEF WorkerStep
<1> QED BY <1>1, <1>2 DEF Next

-----------------------------------------------------------------------------
\* A browser's proofs differ only in the challenge.
LEMMA ProofShape ==
  ASSUME NEW b \in Clients, NEW c, NEW jwk, jwk = KeyOf[b] \/ jwk = Nil
  PROVE  /\ Proof(KeyOf[b], jwk, Nil) \in TokenShapes
         /\ Proof(KeyOf[b], jwk, c) = [Proof(KeyOf[b], jwk, Nil) EXCEPT !.challenge = c]
<1>1. Proof(KeyOf[b], jwk, Nil) \in TokenShapes
  <2>1. {Proof(KeyOf[b], KeyOf[b], Nil), Proof(KeyOf[b], Nil, Nil)} \subseteq TokenShapes
    BY SystemAssumption
  <2> QED BY <2>1
<1>2. Proof(KeyOf[b], jwk, c) = [Proof(KeyOf[b], jwk, Nil) EXCEPT !.challenge = c]
  <2> DEFINE yes == TRUE
             P(d) == [parses |-> yes, algorithm |-> "ES256", type |-> "dbsc+jwt", jwk |-> jwk,
                      challenge |-> d, authorization |-> Authorization,
                      signature |-> "raw", signer |-> KeyOf[b]]
  <2>1. P(c) = [P(Nil) EXCEPT !.challenge = c]
    <3> HIDE DEF yes
    <3> QED OBVIOUS
  <2> QED BY <2>1, Zenon DEF Proof
<1> QED BY <1>1, <1>2

\* A browser's proof over a challenge it was given is one a client can send.
LEMMA BrowserProofs ==
  ASSUME NEW b \in Clients, NEW c \in Known, NEW jwk, jwk = KeyOf[b] \/ jwk = Nil
  PROVE  strip_quotes(Quoted(Proof(KeyOf[b], jwk, c))) \in Headers
<1>1. Proof(KeyOf[b], jwk, Nil) \in TokenShapes
  BY ProofShape
<1>2. Proof(KeyOf[b], jwk, c) = [Proof(KeyOf[b], jwk, Nil) EXCEPT !.challenge = c]
  BY ProofShape
<1>3. Proof(KeyOf[b], jwk, c) \in Headers
  <2>1. CASE c = Nil
    BY <1>1, <2>1 DEF Headers
  <2>2. CASE c \in IssuedChallenges
    BY <1>1, <1>2, <2>2 DEF Headers
  <2> QED BY <2>1, <2>2 DEF Known
<1>4. Nil \in Headers
  BY DEF Headers
<1>5. strip_quotes(Quoted(Proof(KeyOf[b], jwk, c))) \in {Nil, Proof(KeyOf[b], jwk, c)}
  BY DEF strip_quotes, Quoted
<1> QED BY <1>3, <1>4, <1>5

\* Every step of the system is a step of the manager's one worker, a tick of
\* the clock, or leaves the manager alone.
LEMMA StepIsManagerStep ==
  ASSUME SystemInv, [SystemNext]_sysVars
  PROVE  [Next]_vars
<1>s. Server \in Workers
  BY SystemAssumption
<1>1. ASSUME NEW r \in ready, HandleDbsc(r) PROVE Next
  <2>1. PICK id \in {r.id, Nil}, proof \in {r.proof, Nil} :
          DbscCall(r.path, id, strip_quotes(proof))
    BY <1>1 DEF HandleDbsc
  <2>2. RequestOK(r)
    BY DEF SystemInv, RequestsOK
  <2>3. strip_quotes(proof) \in Headers
    BY <2>2 DEF RequestOK, strip_quotes, Headers
  <2>4. id # Nil => id \in Ids
    BY <2>2 DEF RequestOK
  <2> QED BY <2>1, <2>3, <2>4, <1>s DEF DbscCall, Next, WorkerStep
<1>2. ASSUME NEW r \in ready, HandleLogin(r) PROVE Next
  BY <1>2, <1>s DEF HandleLogin, Next, WorkerStep
<1>3. ASSUME ServeOn PROVE Next
  BY <1>3, <1>s DEF ServeOn, Next, WorkerStep
<1>4. ASSUME SystemTick PROVE Next
  BY <1>4 DEF SystemTick, Next
<1>5. ASSUME Poll \/ EndLoop \/ Reply \/ RequestStop \/ UNCHANGED sysVars PROVE UNCHANGED vars
  BY <1>5 DEF Poll, EndLoop, Reply, RequestStop, sysVars
<1>6. ASSUME NEW r, ReplyAtOnce(r) \/ Arrive(r) \/ Vanish(r) \/ Receive(r) PROVE UNCHANGED vars
  BY <1>6 DEF ReplyAtOnce, Arrive, Vanish, Receive
<1>7. ASSUME NEW b \in Clients,
             LogIn(b) \/ BrowserSends(b) \/ NeedRefresh(b) \/ LookUp(b) \/ Abandon(b)
      PROVE  UNCHANGED vars
  BY <1>7 DEF LogIn, BrowserSends, Register, Refresh, NeedRefresh, LookUp, Abandon, Send
<1> QED BY <1>1, <1>2, <1>3, <1>4, <1>5, <1>6, <1>7 DEF SystemNext, Loop, Handle

\* What was known stays known, and what was well-formed stays so.
LEMMA KnowledgeStays ==
  ASSUME SystemInv, [Next]_vars
  PROVE  /\ \A a : AnswerOK(a) => AnswerOK(a)'
         /\ \A r : RequestOK(r) => RequestOK(r)'
         /\ \A c \in Known : c \in Known'
BY IssuedGrows DEF SystemInv, ConcurrentInv, AnswerOK, RequestOK

\* Requests on their way stay well-formed.
LEMMA RequestsStep ==
  ASSUME SystemInv, SystemNext, [Next]_vars
  PROVE  RequestsOK'
<1> DEFINE Requesting == sent \cup arrived \cup ready
<1>k. \A r : RequestOK(r) => RequestOK(r)'
  BY KnowledgeStays
<1>0. \A r \in Requesting : RequestOK(r)
  BY DEF SystemInv, RequestsOK
<1>s. ASSUME Requesting' \subseteq Requesting PROVE RequestsOK'
  BY <1>s, <1>0, <1>k DEF RequestsOK
<1>1. CASE Poll \/ EndLoop \/ ServeOn \/ Reply \/ RequestStop \/ SystemTick
  BY <1>1, <1>s DEF Poll, EndLoop, ServeOn, Reply, RequestStop, SystemTick, loopVars, netVars
<1>2. ASSUME NEW r, HandleDbsc(r) \/ HandleLogin(r) \/ ReplyAtOnce(r) PROVE RequestsOK'
  BY <1>2, <1>s DEF HandleDbsc, HandleLogin, ReplyAtOnce, Take, netVars
<1>3. ASSUME NEW r, Arrive(r) \/ Vanish(r) \/ Receive(r) PROVE RequestsOK'
  BY <1>3, <1>s DEF Arrive, Vanish, Receive, loopVars
<1>4. ASSUME NEW b \in Clients, NEW r, RequestOK(r), Send(b, r) PROVE RequestsOK'
  <2>1. Requesting' \subseteq Requesting \cup {r}
    BY <1>4 DEF Send, loopVars
  <2> QED BY <2>1, <1>0, <1>4, <1>k DEF RequestsOK
<1>b. ASSUME NEW b \in Clients
      PROVE  browser[b].id \in Ids \cup {Nil} /\ browser[b].challenge \in Known
  BY <1>b DEF SystemInv, BrowsersKnow, BrowserStates
<1>5. ASSUME NEW b \in Clients, LogIn(b) \/ LookUp(b) PROVE RequestsOK'
  <2>1. /\ RequestOK(Request(b, "login", Nil, Nil))
        /\ RequestOK(Request(b, "me", browser[b].id, Nil))
    BY <1>b DEF RequestOK, Request, strip_quotes, Headers
  <2> QED BY <1>4, <1>5, <2>1 DEF LogIn, LookUp
<1>6. ASSUME NEW b \in Clients, BrowserSends(b) PROVE RequestsOK'
  <2> DEFINE q1 == Quoted(Proof(KeyOf[b], KeyOf[b], browser[b].challenge))
             q2 == Quoted(Proof(KeyOf[b], Nil, browser[b].challenge))
  <2>1. strip_quotes(q1) \in Headers /\ strip_quotes(q2) \in Headers
    BY <1>b, BrowserProofs
  <2>2. /\ RequestOK(Request(b, "register", browser[b].id, q1))
        /\ RequestOK(Request(b, "refresh", browser[b].id, q2))
    <3> HIDE DEF q1, q2
    <3> QED BY <2>1, <1>b DEF RequestOK, Request
  <2> QED BY <1>4, <1>6, <2>2 DEF BrowserSends, Register, Refresh
<1>7. ASSUME NEW b \in Clients, NeedRefresh(b) PROVE RequestsOK'
  BY <1>7, <1>s DEF NeedRefresh, loopVars, netVars
<1>8. ASSUME NEW b \in Clients, Abandon(b) PROVE RequestsOK'
  <2>1. ASSUME NEW r, RequestOK(r) PROVE RequestOK(Abandoned(b, r))
    <3>1. CASE Abandoned(b, r) = r
      BY <3>1, <2>1
    <3>2. CASE Abandoned(b, r) = [r EXCEPT !.live = FALSE]
      <4>0. ASSUME NEW v
            PROVE  [r EXCEPT !.live = v] =
                     [client |-> r.client, path |-> r.path, id |-> r.id, proof |-> r.proof,
                      live |-> v]
        BY <2>1 DEF RequestOK
      <4>1. [r EXCEPT !.live = FALSE] =
              [client |-> r.client, path |-> r.path, id |-> r.id, proof |-> r.proof,
               live |-> FALSE]
        BY <4>0, Zenon
      <4>2. Abandoned(b, r) = [client |-> Abandoned(b, r).client, path |-> Abandoned(b, r).path,
                               id |-> Abandoned(b, r).id, proof |-> Abandoned(b, r).proof,
                               live |-> Abandoned(b, r).live]
        BY <4>1, <3>2
      <4>3. Abandoned(b, r).id = r.id /\ Abandoned(b, r).proof = r.proof
        BY <4>1, <3>2
      <4> QED BY <4>2, <4>3, <2>1 DEF RequestOK
    <3> QED BY <3>1, <3>2 DEF Abandoned
  <2>2. Requesting' = {Abandoned(b, r) : r \in Requesting}
    BY <1>8 DEF Abandon
  <2> QED BY <2>1, <2>2, <1>0, <1>k DEF RequestsOK
<1> QED BY <1>1, <1>2, <1>3, <1>5, <1>6, <1>7, <1>8 DEF SystemNext, Loop, Handle

\* Answers announce only challenges that were issued.
LEMMA AnswersStep ==
  ASSUME SystemInv, SystemNext, [Next]_vars
  PROVE  AnswersOK'
<1>k. \A a : AnswerOK(a) => AnswerOK(a)'
  BY KnowledgeStays
<1>0. \A a \in replies : AnswerOK(a)
  BY DEF SystemInv, AnswersOK
<1>s. ASSUME replies' \subseteq replies PROVE AnswersOK'
  BY <1>s, <1>0, <1>k DEF AnswersOK
<1>n. ASSUME NEW r, NEW a, AnswerOK(a), SendTo(r, a) PROVE AnswersOK'
  BY <1>n, <1>0, <1>k DEF AnswersOK, SendTo
<1>1. CASE Poll \/ EndLoop \/ ServeOn \/ RequestStop \/ SystemTick
  BY <1>1, <1>s DEF Poll, EndLoop, ServeOn, RequestStop, SystemTick, netVars
<1>2. ASSUME NEW r, HandleDbsc(r) \/ HandleLogin(r) \/ Arrive(r) \/ Vanish(r) \/ Receive(r)
      PROVE  AnswersOK'
  BY <1>2, <1>s DEF HandleDbsc, HandleLogin, Arrive, Vanish, Receive, netVars
<1>3. ASSUME NEW b \in Clients,
             LogIn(b) \/ BrowserSends(b) \/ NeedRefresh(b) \/ LookUp(b) \/ Abandon(b)
      PROVE  AnswersOK'
  BY <1>3, <1>s DEF LogIn, BrowserSends, Register, Refresh, NeedRefresh, LookUp, Abandon,
     Send, netVars
<1>e. \A b, st : AnswerOK(Answer(b, st, Nil, Nil))
  BY DEF AnswerOK, Answer, Known
<1>4. CASE Reply
  <2>1. resp[Server] \in Response /\ resp[Server].challenge \in Known
    BY SystemAssumption DEF SystemInv, ResponsesKnown, ConcurrentInv, TypeInv, TypeOK,
       WorkerTypeOK
  <2>2. \A b, st : AnswerOK(Answer(b, st, resp[Server].session, resp[Server].challenge))
    BY <2>1 DEF AnswerOK, Answer, Response
  <2> QED BY <1>4, <2>2, <1>e, <1>n DEF Reply
<1>5. ASSUME NEW r, ReplyAtOnce(r) PROVE AnswersOK'
  BY <1>5, <1>e, <1>n DEF ReplyAtOnce
<1> QED BY <1>1, <1>2, <1>3, <1>4, <1>5 DEF SystemNext, Loop, Handle

\* A browser that takes an answer in knows only what was announced to it.
LEMMA AfterKnows ==
  ASSUME NEW st \in BrowserStates, st.challenge \in Known, NEW a, AnswerOK(a),
         IssuedChallenges \subseteq ChallengeValues
  PROVE  After(st, a) \in BrowserStates /\ After(st, a).challenge \in Known
<1> DEFINE given == IF a.challenge = Nil THEN st.challenge ELSE a.challenge
           idle == [st EXCEPT !.waiting = FALSE, !.challenge = given]
<1>1. given \in Known /\ given \in ChallengeValues \cup {Nil} /\ a.id \in Ids \cup {Nil}
  BY DEF Known, AnswerOK
<1>2. idle \in BrowserStates /\ idle.challenge = given
  BY <1>1 DEF BrowserStates
<1> HIDE DEF idle
<1>3. ASSUME NEW x \in BrowserStates, x.challenge \in Known, NEW ph, NEW i \in Ids \cup {Nil},
             ph \in {"out", "registering", "bound", "refreshing"}
      PROVE  /\ [x EXCEPT !.phase = ph, !.id = i] \in BrowserStates
             /\ [x EXCEPT !.phase = ph, !.id = i].challenge \in Known
             /\ [x EXCEPT !.phase = ph] \in BrowserStates
             /\ [x EXCEPT !.phase = ph].challenge \in Known
             /\ [x EXCEPT !.phase = ph, !.id = i, !.challenge = Nil] \in BrowserStates
             /\ [x EXCEPT !.phase = ph, !.id = i, !.challenge = Nil].challenge \in Known
  BY <1>3 DEF BrowserStates, Known
<1> DEFINE granted == st.phase = "out" /\ a.status = 200
           bound == st.phase \in {"registering", "refreshing"} /\ a.status = 200
           refused == st.phase # "out" /\ a.status \in {400, 401}
<1>4. After(st, a) =
        CASE granted -> [idle EXCEPT !.phase = "registering", !.id = a.id]
          [] bound   -> [idle EXCEPT !.phase = "bound"]
          [] refused -> [idle EXCEPT !.phase = "out", !.id = Nil, !.challenge = Nil]
          [] OTHER   -> idle
  BY Zenon DEF After, idle
<1>5. ~(granted /\ bound) /\ ~(granted /\ refused) /\ ~(bound /\ refused)
  OBVIOUS
<1> HIDE DEF granted, bound, refused
<1>6. After(st, a) \in {[idle EXCEPT !.phase = "registering", !.id = a.id],
                        [idle EXCEPT !.phase = "bound"],
                        [idle EXCEPT !.phase = "out", !.id = Nil, !.challenge = Nil],
                        idle}
  BY <1>4, <1>5
<1>7. idle \in BrowserStates /\ idle.challenge \in Known
  BY <1>1, <1>2
<1> HIDE DEF given
<1>8. /\ [idle EXCEPT !.phase = "registering", !.id = a.id] \in BrowserStates
      /\ [idle EXCEPT !.phase = "registering", !.id = a.id].challenge \in Known
  BY <1>1, <1>3, <1>7
<1>9. /\ [idle EXCEPT !.phase = "bound"] \in BrowserStates
      /\ [idle EXCEPT !.phase = "bound"].challenge \in Known
  BY <1>1, <1>3, <1>7
<1>10. /\ [idle EXCEPT !.phase = "out", !.id = Nil, !.challenge = Nil] \in BrowserStates
       /\ [idle EXCEPT !.phase = "out", !.id = Nil, !.challenge = Nil].challenge \in Known
  BY <1>3, <1>7
<1> QED BY <1>6, <1>7, <1>8, <1>9, <1>10

\* Browsers stay well typed, and answer only issued challenges.
LEMMA BrowsersStep ==
  ASSUME SystemInv, SystemNext, [Next]_vars
  PROVE  BrowsersKnow'
<1>k. \A c \in Known : c \in Known'
  BY KnowledgeStays
<1>0. BrowsersKnow
  BY DEF SystemInv
<1>u. ASSUME browser' = browser PROVE BrowsersKnow'
  BY <1>u, <1>0, <1>k DEF BrowsersKnow
<1>c. ASSUME NEW b \in Clients, NEW st \in BrowserStates, st.challenge \in Known,
             browser' = [browser EXCEPT ![b] = st]
      PROVE  BrowsersKnow'
  BY <1>c, <1>0, <1>k DEF BrowsersKnow
<1>1. CASE Poll \/ EndLoop \/ ServeOn \/ Reply \/ RequestStop \/ SystemTick
  BY <1>1, <1>u DEF Poll, EndLoop, ServeOn, Reply, RequestStop, SystemTick
<1>2. ASSUME NEW r, HandleDbsc(r) \/ HandleLogin(r) \/ ReplyAtOnce(r) \/ Arrive(r) \/ Vanish(r)
      PROVE  BrowsersKnow'
  BY <1>2, <1>u DEF HandleDbsc, HandleLogin, ReplyAtOnce, Arrive, Vanish
<1>3. ASSUME NEW b \in Clients, NEW flag \in BOOLEAN,
             browser' = [browser EXCEPT ![b].waiting = flag]
      PROVE  BrowsersKnow'
  <2>1. browser[b] \in BrowserStates /\ browser[b].challenge \in Known
    BY <1>0 DEF BrowsersKnow
  <2>2. /\ [browser[b] EXCEPT !.waiting = flag] \in BrowserStates
        /\ [browser[b] EXCEPT !.waiting = flag].challenge \in Known
    BY <2>1 DEF BrowserStates
  <2> QED BY <2>2, <1>3, <1>c
<1>4. ASSUME NEW b \in Clients, LogIn(b) \/ BrowserSends(b) \/ LookUp(b) \/ Abandon(b)
      PROVE  BrowsersKnow'
  <2>1. \E flag \in BOOLEAN : browser' = [browser EXCEPT ![b].waiting = flag]
    BY <1>4, Zenon DEF LogIn, BrowserSends, Register, Refresh, LookUp, Abandon
  <2> QED BY <2>1, <1>3
<1>5. ASSUME NEW b \in Clients, NeedRefresh(b) PROVE BrowsersKnow'
  <2>1. browser[b] \in BrowserStates /\ browser[b].challenge \in Known
    BY <1>0 DEF BrowsersKnow
  <2>2. /\ [browser[b] EXCEPT !.phase = "refreshing"] \in BrowserStates
        /\ [browser[b] EXCEPT !.phase = "refreshing"].challenge \in Known
    BY <2>1 DEF BrowserStates
  <2> QED BY <1>5, <2>2, <1>c DEF NeedRefresh
<1>6. ASSUME NEW a \in replies, Receive(a) PROVE BrowsersKnow'
  <2>0. IssuedChallenges \subseteq ChallengeValues
    BY DEF SystemInv, ConcurrentInv, TypeInv, TypeOK, HistoryTypeOK, IssuedChallenges
  <2>1. AnswerOK(a)
    BY DEF SystemInv, AnswersOK
  <2>2. browser' = [browser EXCEPT ![a.client] = After(browser[a.client], a)]
    BY <1>6 DEF Receive
  <2>3. CASE a.client \in Clients
    <3>1. browser[a.client] \in BrowserStates /\ browser[a.client].challenge \in Known
      BY <2>3, <1>0 DEF BrowsersKnow
    <3>2. /\ After(browser[a.client], a) \in BrowserStates
          /\ After(browser[a.client], a).challenge \in Known
      BY <2>0, <2>1, <3>1, AfterKnows
    <3> QED BY <2>2, <2>3, <3>2, <1>c
  <2>4. CASE a.client \notin Clients
    <3>1. browser' = browser
      BY <2>2, <2>4, <1>0 DEF BrowsersKnow
    <3> QED BY <3>1, <1>u
  <2> QED BY <2>3, <2>4
<1> QED BY <1>1, <1>2, <1>4, <1>5, <1>6 DEF SystemNext, Loop, Handle

\* Initial states satisfy SystemInv.
LEMMA SystemInvInit == SystemInit => SystemInv
<1> SUFFICES ASSUME SystemInit PROVE SystemInv
  OBVIOUS
<1>1. ConcurrentInv
  BY ConcurrentInit DEF SystemInit
<1>2. ResponsesKnown
  BY DEF SystemInit, Init, ResponsesKnown, EmptyResponse, Respond, Known
<1>3. BrowsersKnow
  BY DEF SystemInit, BrowsersKnow, BrowserStates, Known
<1>4. RequestsOK /\ AnswersOK
  BY DEF SystemInit, RequestsOK, AnswersOK
<1> QED BY <1>1, <1>2, <1>3, <1>4 DEF SystemInv

\* Every step keeps SystemInv.
LEMMA SystemInvStep == SystemInv /\ [SystemNext]_sysVars => SystemInv'
<1> SUFFICES ASSUME SystemInv, [SystemNext]_sysVars PROVE SystemInv'
  OBVIOUS
<1>1. [Next]_vars
  BY StepIsManagerStep
<1>2. ConcurrentInv'
  BY <1>1, ConcurrentStep DEF SystemInv
<1>3. ResponsesKnown'
  BY <1>1, ResponsesStep DEF SystemInv
<1>4. CASE SystemNext
  BY <1>1, <1>2, <1>3, <1>4, RequestsStep, AnswersStep, BrowsersStep DEF SystemInv
<1>5. CASE UNCHANGED sysVars
  <2>1. UNCHANGED <<browser, sent, arrived, ready, replies>>
    BY <1>5 DEF sysVars, loopVars, netVars
  <2>2. BrowsersKnow'
    BY <2>1, <1>1, KnowledgeStays DEF SystemInv, BrowsersKnow
  <2>3. RequestsOK'
    BY <2>1, <1>1, KnowledgeStays DEF SystemInv, RequestsOK
  <2>4. AnswersOK'
    BY <2>1, <1>1, KnowledgeStays DEF SystemInv, AnswersOK
  <2> QED BY <1>2, <1>3, <2>2, <2>3, <2>4 DEF SystemInv
<1> QED BY <1>4, <1>5

-----------------------------------------------------------------------------
\* The deployed server implements the manager: behind the event loop of http.c
\* every request is a sequence of calls of one worker.
THEOREM ServerImplementsManager == SystemSpec => ImplementsManager
<1>1. SystemInit => Init
  BY DEF SystemInit
<1>2. SystemInv /\ [SystemNext]_sysVars => [Next]_vars
  BY StepIsManagerStep
<1> QED BY <1>1, <1>2, SystemInvInit, SystemInvStep, PTL DEF SystemSpec, Spec, ImplementsManager

\* The loop is the only worker.
LEMMA OneWorker == Serial
BY SystemAssumption DEF Serial

\* Behind the wrapper the registered key never changes, whatever is lost,
\* repeated or delayed on the network and whatever the store does.
THEOREM ServerKeyPinned == SystemSpec => []KeyPinned
BY ServerImplementsManager, SerialKeyPinned, OneWorker, PTL DEF ImplementsManager

\* Behind the wrapper no challenge is accepted twice, even when a request is
\* delivered after its browser has given it up and sent another.
THEOREM ServerSpentOnce == SystemSpec => []SpentOnce
BY ServerImplementsManager, SerialSpentOnce, OneWorker, PTL DEF ImplementsManager

-----------------------------------------------------------------------------
(***************************************************************************)
(* What browser and server agree on.  A browser that waits has exactly one   *)
(* live request or answer, in one of the five places it can be in; so the    *)
(* answer it takes in is the answer to what it last asked.  A registration   *)
(* that was acknowledged is an event, and events stay: KeyPinned then says   *)
(* what the session looks like for as long as it exists.                     *)
(***************************************************************************)
Alive(S, b) == {r \in S : r.client = b /\ r.live}

InHand == IF serving = Nil THEN {} ELSE {serving}

Answers(b) == {a \in replies : a.client = b}

Vacant(A, B, C, D, E) == A = {} /\ B = {} /\ C = {} /\ D = {} /\ E = {}

Single(A, B, C, D, E) ==
  \E x \in A \cup B \cup C \cup D \cup E :
         \/ A = {x} /\ B = {} /\ C = {} /\ D = {} /\ E = {}
         \/ A = {} /\ B = {x} /\ C = {} /\ D = {} /\ E = {}
         \/ A = {} /\ B = {} /\ C = {x} /\ D = {} /\ E = {}
         \/ A = {} /\ B = {} /\ C = {} /\ D = {x} /\ E = {}
         \/ A = {} /\ B = {} /\ C = {} /\ D = {} /\ E = {x}

WaitOK(b) ==
  /\ browser[b].waiting =>
       Single(Alive(sent, b), Alive(arrived, b), Alive(ready, b), Alive(InHand, b), Answers(b))
  /\ ~browser[b].waiting =>
       Vacant(Alive(sent, b), Alive(arrived, b), Alive(ready, b), Alive(InHand, b), Answers(b))

\* An acknowledged registration of session id with key k.
Acknowledged(id, k) ==
  \E e \in events : e.type = "REGISTER" /\ e.session = id /\ e.key = k

\* A live request is one its browser makes in the phase it is in.
Match(r) ==
  LET st == browser[r.client]
  IN  /\ r.path = "login" => st.phase = "out"
      /\ r.path = "register" => st.phase = "registering" /\ r.id = st.id
      /\ r.path = "refresh" => st.phase = "refreshing" /\ r.id = st.id
      /\ r.path = "me" => st.phase = "bound"

OpenOK(r) ==
  /\ r \in Requests
  /\ r.path = "register" => r.proof # Nil /\ r.proof.value.jwk = KeyOf[r.client]
  /\ r.live => Match(r)

\* The call of the request being handled.
ServingOK ==
  /\ serving = Nil => pc[Server] = "idle"
  /\ serving # Nil =>
       /\ pc[Server] \in {"idle", serving.path}
       /\ pc[Server] = "register" =>
            loaded[Server].id = serving.id /\ header[Server] = serving.proof.value
       /\ pc[Server] = "idle" /\ serving.path = "register" /\ resp[Server].status = 200 =>
            Acknowledged(serving.id, KeyOf[serving.client])

AnsweredOK(a) ==
  /\ a.client \in Clients
  /\ LET st == browser[a.client]
     IN  a.status = 200 /\ st.phase = "registering" => Acknowledged(st.id, KeyOf[a.client])

BrowserOK(b) ==
  /\ WaitOK(b)
  /\ browser[b].phase \in {"bound", "refreshing"} => Acknowledged(browser[b].id, KeyOf[b])

AgreementInv ==
  /\ running \in BOOLEAN /\ looping \in BOOLEAN
  /\ \A r \in Open : OpenOK(r)
  /\ ServingOK
  /\ \A a \in replies : AnsweredOK(a)
  /\ \A b \in Clients : BrowserOK(b)

\* What is reported stays reported.
LEMMA AcknowledgedStays ==
  ASSUME TypeInv, [Next]_vars
  PROVE  \A id, k : Acknowledged(id, k) => Acknowledged(id, k)'
<1>1. ASSUME NEW w \in Workers, WorkerStep(w) PROVE events \subseteq events'
  <2>1. CASE Quits(w) \/ Loads(w)
    BY <2>1 DEF Quits, Loads, historyVars
  <2>2. CASE \E u \in Users : Initiate(w, u)
    BY <2>2 DEF Initiate, session_new_id, InitiateStore, emit_event
  <2>3. CASE RegisterBind(w)
    BY <2>3 DEF RegisterBind, RegisterStore, emit_event
  <2>4. CASE RefreshExtend(w)
    BY <2>4 DEF RefreshExtend, RefreshStore, emit_event
  <2>5. CASE \E ok \in BOOLEAN : CloseDelete(w, ok)
    BY <2>5 DEF CloseDelete, emit_event
  <2> QED BY <1>1, <2>1, <2>2, <2>3, <2>4, <2>5, StepKinds DEF Writes
<1>2. events \subseteq events'
  BY <1>1 DEF Next, ClockTick, vars, historyVars
<1> QED BY <1>2 DEF Acknowledged

\* Whatever is in one of the five places is all there is.
LEMMA SingleIs ==
  ASSUME NEW A, NEW B, NEW C, NEW D, NEW E, NEW x, Single(A, B, C, D, E)
  PROVE  /\ x \in A => A = {x} /\ B = {} /\ C = {} /\ D = {} /\ E = {}
         /\ x \in B => A = {} /\ B = {x} /\ C = {} /\ D = {} /\ E = {}
         /\ x \in C => A = {} /\ B = {} /\ C = {x} /\ D = {} /\ E = {}
         /\ x \in D => A = {} /\ B = {} /\ C = {} /\ D = {x} /\ E = {}
         /\ x \in E => A = {} /\ B = {} /\ C = {} /\ D = {} /\ E = {x}
BY DEF Single

\* One thing in one place.
LEMMA SingleMade ==
  ASSUME NEW x
  PROVE  /\ Single({x}, {}, {}, {}, {})
         /\ Single({}, {x}, {}, {}, {})
         /\ Single({}, {}, {x}, {}, {})
         /\ Single({}, {}, {}, {x}, {})
         /\ Single({}, {}, {}, {}, {x})
BY DEF Single

\* A browser with a live request or an answer waits.
LEMMA PendingWaits ==
  ASSUME NEW b \in Clients, BrowsersKnow, WaitOK(b), NEW x,
         \/ x \in Alive(sent, b) \/ x \in Alive(arrived, b) \/ x \in Alive(ready, b)
         \/ x \in Alive(InHand, b) \/ x \in Answers(b)
  PROVE  /\ browser[b].waiting
         /\ Single(Alive(sent, b), Alive(arrived, b), Alive(ready, b), Alive(InHand, b), Answers(b))
<1>1. browser[b].waiting \in BOOLEAN
  BY DEF BrowsersKnow, BrowserStates
<1> QED BY <1>1 DEF WaitOK, Vacant

\* As long as the browsers stay as they are, so does what was asked and answered.
LEMMA BrowserFrame ==
  ASSUME SystemInv, AgreementInv, [Next]_vars, browser' = browser
  PROVE  /\ \A r : OpenOK(r) => OpenOK(r)'
         /\ \A a : AnsweredOK(a) => AnsweredOK(a)'
         /\ \A b \in Clients : WaitOK(b)' => BrowserOK(b)'
<1>1. \A id, k : Acknowledged(id, k) => Acknowledged(id, k)'
  BY AcknowledgedStays DEF SystemInv, ConcurrentInv
<1>2. \A r : OpenOK(r) => OpenOK(r)'
  BY DEF OpenOK, Match
<1>3. \A a : AnsweredOK(a) => AnsweredOK(a)'
  BY <1>1 DEF AnsweredOK
<1>4. \A b \in Clients : WaitOK(b)' => BrowserOK(b)'
  BY <1>1 DEF AgreementInv, BrowserOK
<1> QED BY <1>2, <1>3, <1>4

\* Steps that move no request: the end of the loop, a signal, the clock.
LEMMA AgreementQuiet ==
  ASSUME SystemInv, AgreementInv, [Next]_vars, EndLoop \/ RequestStop \/ SystemTick \/ UNCHANGED sysVars
  PROVE  AgreementInv'
<1>1. /\ UNCHANGED <<sent, arrived, ready, serving, replies, browser>>
      /\ UNCHANGED <<pc, loaded, header, resp, events>>
      /\ running' \in BOOLEAN /\ looping' \in BOOLEAN
  BY DEF EndLoop, RequestStop, SystemTick, ClockTick, sysVars, vars, loopVars, netVars,
     workerVars, historyVars, AgreementInv
<1>2. Open' = Open
  BY <1>1 DEF Open
<1>3. ServingOK'
  BY <1>1 DEF AgreementInv, ServingOK, Acknowledged
<1>4. \A b \in Clients : WaitOK(b)'
  BY <1>1 DEF AgreementInv, BrowserOK, WaitOK, InHand, Answers
<1> QED BY <1>1, <1>2, <1>3, <1>4, BrowserFrame DEF AgreementInv

\* mg_mgr_poll moves all that has arrived.
LEMMA AgreementPoll ==
  ASSUME SystemInv, AgreementInv, [Next]_vars, Poll
  PROVE  AgreementInv'
<1>1. /\ UNCHANGED <<running, looping, sent, serving, replies, browser>>
      /\ UNCHANGED <<pc, loaded, header, resp, events>>
      /\ ready' = arrived /\ arrived' = {} /\ ready = {} /\ serving = Nil
  BY DEF Poll, vars, workerVars, historyVars
<1>2. Open' = Open
  BY <1>1 DEF Open
<1>3. ServingOK'
  BY <1>1 DEF AgreementInv, ServingOK, Acknowledged
<1>4. ASSUME NEW b \in Clients PROVE WaitOK(b)'
  <2>1. Alive(arrived', b) = {} /\ Alive(ready, b) = {} /\ Alive(ready', b) = Alive(arrived, b)
    BY <1>1 DEF Alive
  <2>2. WaitOK(b)
    BY DEF AgreementInv, BrowserOK
  <2>3. UNCHANGED <<Alive(sent, b), Alive(InHand, b), Answers(b)>>
    BY <1>1 DEF Alive, InHand, Answers
  <2> DEFINE A == Alive(sent, b)
             B == Alive(arrived, b)
             D == Alive(InHand, b)
             E == Answers(b)
  <2>4. Single(A, B, {}, D, E) => Single(A, {}, B, D, E)
    <3> HIDE DEF A, B, D, E
    <3> QED BY DEF Single
  <2> QED BY <1>1, <2>1, <2>2, <2>3, <2>4 DEF WaitOK, Vacant
<1> QED BY <1>1, <1>2, <1>3, <1>4, BrowserFrame DEF AgreementInv

\* The network moves a request, or drops one nobody waits for.
LEMMA AgreementNetwork ==
  ASSUME SystemInv, AgreementInv, [Next]_vars, NEW r \in sent, Arrive(r) \/ Vanish(r)
  PROVE  AgreementInv'
<1>1. /\ UNCHANGED <<running, looping, ready, serving, replies, browser>>
      /\ UNCHANGED <<pc, loaded, header, resp, events>>
      /\ sent' = sent \ {r}
      /\ arrived' = arrived \cup {r} \/ (arrived' = arrived /\ ~r.live)
  BY DEF Arrive, Vanish, vars, loopVars, workerVars, historyVars
<1>2. Open' \subseteq Open
  BY <1>1 DEF Open
<1>3. ServingOK'
  BY <1>1 DEF AgreementInv, ServingOK, Acknowledged
<1>4. ASSUME NEW b \in Clients PROVE WaitOK(b)'
  <2>1. Alive(sent', b) = Alive(sent, b) \ {r}
    BY <1>1 DEF Alive
  <2>2. WaitOK(b) /\ BrowsersKnow
    BY DEF AgreementInv, BrowserOK, SystemInv
  <2>3. UNCHANGED <<Alive(ready, b), Alive(InHand, b), Answers(b), browser>>
    BY <1>1 DEF Alive, InHand, Answers
  <2>4. CASE r.client = b /\ r.live
    <3>1. r \in Alive(sent, b) /\ Alive(arrived', b) = Alive(arrived, b) \cup {r}
      BY <1>1, <2>4 DEF Alive
    <3>2. /\ browser[b].waiting
          /\ Single(Alive(sent, b), Alive(arrived, b), Alive(ready, b), Alive(InHand, b), Answers(b))
      BY <2>2, <3>1, PendingWaits
    <3>3. /\ Alive(sent', b) = {} /\ Alive(arrived', b) = {r} /\ Alive(ready, b) = {}
          /\ Alive(InHand, b) = {} /\ Answers(b) = {}
      BY <2>1, <3>1, <3>2, SingleIs
    <3> QED BY <2>3, <3>2, <3>3, SingleMade DEF WaitOK
  <2>5. CASE ~(r.client = b /\ r.live)
    <3>1. Alive(sent', b) = Alive(sent, b) /\ Alive(arrived', b) = Alive(arrived, b)
      BY <1>1, <2>1, <2>5 DEF Alive
    <3> QED BY <2>2, <2>3, <3>1 DEF WaitOK
  <2> QED BY <2>4, <2>5
<1> QED BY <1>1, <1>2, <1>3, <1>4, BrowserFrame DEF AgreementInv

\* A handler that begins has its request in hand.
LEMMA TakeWaits ==
  ASSUME AgreementInv, SystemInv, NEW r, Take(r), UNCHANGED <<sent, arrived, replies, browser>>,
         NEW b \in Clients
  PROVE  WaitOK(b)'
<1>1. /\ r \in ready /\ ready' = ready \ {r} /\ serving = Nil /\ serving' = r
      /\ OpenOK(r) /\ r # Nil
  BY NilRequestAssumption DEF Take, AgreementInv, Open, OpenOK
<1>2. Alive(InHand, b) = {} /\ Alive(InHand, b)' = Alive({r}, b)
  BY <1>1 DEF InHand, Alive
<1>3. UNCHANGED <<Alive(sent, b), Alive(arrived, b), Answers(b)>>
  BY DEF Alive, Answers
<1>4. Alive(ready', b) = Alive(ready, b) \ {r}
  BY <1>1 DEF Alive
<1>5. WaitOK(b) /\ BrowsersKnow
  BY DEF AgreementInv, BrowserOK, SystemInv
<1>6. CASE r.client = b /\ r.live
  <2>1. r \in Alive(ready, b) /\ Alive({r}, b) = {r}
    BY <1>1, <1>6 DEF Alive
  <2>2. /\ browser[b].waiting
        /\ Single(Alive(sent, b), Alive(arrived, b), Alive(ready, b), Alive(InHand, b), Answers(b))
    BY <1>5, <2>1, PendingWaits
  <2>3. /\ Alive(sent, b) = {} /\ Alive(arrived, b) = {} /\ Alive(ready', b) = {}
        /\ Answers(b) = {}
    BY <1>4, <2>1, <2>2, SingleIs
  <2> QED BY <1>2, <1>3, <2>1, <2>2, <2>3, SingleMade DEF WaitOK
<1>7. CASE ~(r.client = b /\ r.live)
  <2>1. Alive(ready', b) = Alive(ready, b) /\ Alive({r}, b) = {}
    BY <1>1, <1>4, <1>7 DEF Alive
  <2> QED BY <1>2, <1>3, <1>5, <2>1 DEF WaitOK
<1> QED BY <1>6, <1>7

\* What a call has done when the handler has begun it.
LEMMA CallBegins ==
  ASSUME SystemInv, NEW path, NEW id \in Ids \cup {Nil}, NEW hdr, DbscCall(path, id, hdr)
  PROVE  /\ pc'[Server] \in {"idle", path}
         /\ pc'[Server] = "register" =>
              id # Nil /\ hdr # Nil /\ loaded'[Server].id = id /\ header'[Server] = hdr
         /\ pc'[Server] = "idle" /\ path = "register" => resp'[Server].status # 200
<1>t. Server \in Workers /\ StoreTypeOK /\ WorkerTypeOK
  BY SystemAssumption DEF SystemInv, ConcurrentInv, TypeInv, TypeOK
<1>r. ASSUME NEW x, NEW leak, Return(Server, x, leak)
      PROVE  pc'[Server] = "idle" /\ resp'[Server] = x
  BY <1>r, <1>t DEF Return, WorkerTypeOK
<1>p. ASSUME NEW step, NEW s, Proceed(Server, step, s, hdr)
      PROVE  pc'[Server] = step /\ loaded'[Server] = s /\ header'[Server] = hdr
  BY <1>p, <1>t DEF Proceed, WorkerTypeOK
<1>s. /\ ErrorResponse(400).status = 400 /\ ErrorResponse(401).status = 401
      /\ \A s : ChallengeResponse(s).status = 403
  BY DEF ErrorResponse, ChallengeResponse, Respond
<1>1. CASE path = "register" /\ id = Nil /\ RegisterMissingCookie(Server)
  <2>1. PICK leak \in {FALSE} : Return(Server, ErrorResponse(401), leak)
    BY <1>1, Zenon DEF RegisterMissingCookie
  <2>2. pc'[Server] = "idle" /\ resp'[Server] = ErrorResponse(401)
    BY <2>1, <1>r
  <2> QED BY <1>1, <2>2, <1>s
<1>2. CASE path = "register" /\ id # Nil /\ RegisterLoad(Server, id, hdr)
  <2>1. PICK out \in {sessions[id], Nil} :
          \/ Return(Server, ErrorResponse(401), FALSE)
          \/ Return(Server, ErrorResponse(400), FALSE)
          \/ Return(Server, ChallengeResponse(out), FALSE)
          \/ out # Nil /\ hdr # Nil /\ Proceed(Server, "register", out, hdr)
    BY <1>2, Zenon DEF RegisterLoad
  <2>2. out # Nil => out.id = id
    BY <1>2, <1>t DEF StoreTypeOK
  <2>3. CASE Return(Server, ErrorResponse(401), FALSE) \/ Return(Server, ErrorResponse(400), FALSE)
             \/ Return(Server, ChallengeResponse(out), FALSE)
    <3>1. PICK leak \in {FALSE} :
            \/ Return(Server, ErrorResponse(401), leak)
            \/ Return(Server, ErrorResponse(400), leak)
            \/ Return(Server, ChallengeResponse(out), leak)
      BY <2>3, Zenon
    <3>2. /\ pc'[Server] = "idle"
          /\ \/ resp'[Server] = ErrorResponse(401)
             \/ resp'[Server] = ErrorResponse(400)
             \/ resp'[Server] = ChallengeResponse(out)
      <4>1. CASE Return(Server, ErrorResponse(401), leak)
        <5>1. pc'[Server] = "idle" /\ resp'[Server] = ErrorResponse(401)
          BY <4>1, <1>r
        <5> QED BY <5>1
      <4>2. CASE Return(Server, ErrorResponse(400), leak)
        BY <4>2, <1>r
      <4>3. CASE Return(Server, ChallengeResponse(out), leak)
        BY <4>3, <1>r
      <4> QED BY <3>1, <4>1, <4>2, <4>3
    <3> QED BY <1>2, <3>2, <1>s
  <2>4. CASE out # Nil /\ hdr # Nil /\ Proceed(Server, "register", out, hdr)
    BY <1>2, <2>2, <2>4, <1>p
  <2> QED BY <2>1, <2>3, <2>4
<1>3. CASE path = "refresh" /\ id = Nil /\ RefreshMissingId(Server)
  BY <1>3, <1>r DEF RefreshMissingId
<1>4. CASE path = "refresh" /\ id # Nil /\ RefreshLoad(Server, id, hdr)
  <2>1. \/ \E x, leak : Return(Server, x, leak)
        \/ \E out : Proceed(Server, "refresh", out, hdr)
    BY <1>4, Zenon DEF RefreshLoad
  <2> QED BY <1>4, <2>1, <1>r, <1>p
<1>5. CASE path = "me" /\ id # Nil /\ GetSession(Server, id)
  <2>1. \E x, leak : Return(Server, x, leak)
    BY <1>5, Zenon DEF GetSession
  <2> QED BY <1>5, <2>1, <1>r
<1> QED BY <1>1, <1>2, <1>3, <1>4, <1>5 DEF DbscCall

\* The handler begins with a request.
LEMMA AgreementHandle ==
  ASSUME SystemInv, AgreementInv, [Next]_vars, NEW r \in ready, HandleDbsc(r) \/ HandleLogin(r)
  PROVE  AgreementInv'
<1>1. /\ Take(r) /\ UNCHANGED <<running, looping, sent, arrived, replies, browser>>
      /\ ready' = ready \ {r} /\ serving' = r
  BY DEF HandleDbsc, HandleLogin, Take, netVars
<1>2. OpenOK(r) /\ r # Nil
  BY NilRequestAssumption DEF AgreementInv, Open, OpenOK
<1>3. Open' \subseteq Open
  BY <1>1, <1>2 DEF Open
<1>4. \A b \in Clients : WaitOK(b)'
  BY <1>1, TakeWaits
<1>5. ServingOK'
  <2>1. CASE HandleDbsc(r)
    <3>1. PICK id \in {r.id, Nil}, proof \in {r.proof, Nil} :
            Seen(r, id, proof) /\ DbscCall(r.path, id, strip_quotes(proof))
      BY <2>1 DEF HandleDbsc
    <3>2. id \in Ids \cup {Nil} /\ r.path \in Paths
      BY <1>2 DEF OpenOK, Requests
    <3>3. /\ pc'[Server] \in {"idle", r.path}
          /\ pc'[Server] = "register" =>
               /\ id # Nil /\ strip_quotes(proof) # Nil /\ loaded'[Server].id = id
               /\ header'[Server] = strip_quotes(proof)
          /\ pc'[Server] = "idle" /\ r.path = "register" => resp'[Server].status # 200
      BY <3>1, <3>2, CallBegins
    <3>4. /\ id # Nil => id = r.id
          /\ strip_quotes(proof) # Nil => strip_quotes(proof) = r.proof.value
      BY <3>1 DEF strip_quotes
    <3> QED BY <1>1, <1>2, <3>3, <3>4 DEF ServingOK
  <2>2. CASE HandleLogin(r)
    <3>1. r.path = "login"
      BY <2>2 DEF HandleLogin
    <3>2. pc'[Server] = "idle"
      <4>1. PICK x, leak : Return(Server, x, leak)
        BY <2>2, Zenon DEF HandleLogin, Initiate, InitiateStore, InitiateFails
      <4> QED BY <4>1, SystemAssumption DEF Return, SystemInv, ConcurrentInv, TypeInv, TypeOK,
           WorkerTypeOK
    <3> QED BY <1>1, <1>2, <3>1, <3>2 DEF ServingOK
  <2> QED BY <2>1, <2>2
<1> QED BY <1>1, <1>3, <1>4, <1>5, BrowserFrame DEF AgreementInv

\* A call that finds no memory for the next challenge ends with the empty
\* response of an internal error and has changed nothing.
LEMMA NoChallengeEnds ==
  ASSUME SystemInv, RegisterNoChallenge(Server) \/ RefreshNoChallenge(Server)
  PROVE  /\ pc[Server] \in {"register", "refresh"} /\ pc'[Server] = "idle"
         /\ resp'[Server].status = 0 /\ resp'[Server].session = Nil
         /\ UNCHANGED <<sessions, usedIds, issued, events>>
<1>t. Server \in Workers /\ WorkerTypeOK
  BY SystemAssumption DEF SystemInv, ConcurrentInv, TypeInv, TypeOK
<1>1. PICK leak : Return(Server, InternalError, leak)
  BY Zenon DEF RegisterNoChallenge, RefreshNoChallenge
<1>2. pc'[Server] = "idle" /\ resp'[Server] = InternalError
  BY <1>1, <1>t DEF Return, WorkerTypeOK
<1>3. InternalError.status = 0 /\ InternalError.session = Nil
  BY DEF InternalError, Respond
<1>4. UNCHANGED <<sessions, usedIds, issued, events>>
  BY DEF RegisterNoChallenge, RefreshNoChallenge, storeVars, historyVars
<1>5. pc[Server] \in {"register", "refresh"}
  BY DEF RegisterNoChallenge, RefreshNoChallenge
<1> QED BY <1>2, <1>3, <1>4, <1>5

\* A call that goes on keeps its request; a registration is answered with 200
\* only together with its event.
LEMMA AgreementServeOn ==
  ASSUME SystemInv, AgreementInv, [Next]_vars, ServeOn
  PROVE  AgreementInv'
<1>1. UNCHANGED <<running, looping, sent, arrived, ready, serving, replies, browser>>
  BY DEF ServeOn, loopVars, netVars
<1>2. Open' = Open
  BY <1>1 DEF Open
<1>3. \A b \in Clients : WaitOK(b)'
  BY <1>1 DEF AgreementInv, BrowserOK, WaitOK, InHand, Answers
<1>t. Server \in Workers /\ WorkerTypeOK /\ serving # Nil /\ ServingOK
  BY SystemAssumption DEF SystemInv, ConcurrentInv, TypeInv, TypeOK, ServeOn, AgreementInv
<1>r. ASSUME NEW x, NEW leak, Return(Server, x, leak)
      PROVE  pc'[Server] = "idle" /\ resp'[Server] = x
  BY <1>r, <1>t DEF Return, WorkerTypeOK
<1>4. ASSUME pc'[Server] = "idle",
             serving.path = "register" /\ resp'[Server].status = 200 =>
               Acknowledged(serving.id, KeyOf[serving.client])'
      PROVE  ServingOK'
  BY <1>1, <1>4, <1>t DEF ServingOK
<1>5. ServingOK'
  <2>1. CASE RegisterReject(Server)
    <3>1. PICK leak : Return(Server, ChallengeResponse(loaded[Server]), leak)
      BY <2>1, Zenon DEF RegisterReject
    <3>2. ChallengeResponse(loaded[Server]).status = 403
      BY DEF ChallengeResponse, Respond
    <3>3. pc'[Server] = "idle" /\ resp'[Server] = ChallengeResponse(loaded[Server])
      BY <3>1, <1>r
    <3> QED BY <1>4, <3>2, <3>3
  <2>2. CASE RegisterBind(Server)
    <3> DEFINE t == header[Server]
    <3>1. PICK c \in generate_challenge, ok \in BOOLEAN : RegisterStore(Server, c, ok)
      BY <2>2 DEF RegisterBind
    <3> DEFINE s == Bound(loaded[Server], t.jwk, t.algorithm, c, now)
    <3>2. /\ serving.path = "register" /\ loaded[Server].id = serving.id
          /\ header[Server] = serving.proof.value /\ OpenOK(serving)
      BY <2>2, <1>t DEF RegisterBind, ServingOK, AgreementInv, Open
    <3>3. t.jwk = KeyOf[serving.client]
      BY <3>2 DEF OpenOK
    <3>4. s.id = serving.id
      <4>1. loaded[Server] \in Session
        BY <2>2, <1>t
           DEF RegisterBind, WorkerTypeOK, SystemInv, ConcurrentInv, TypeInv, CallsHoldSessions
      <4> QED BY <3>2, <4>1 DEF Bound, Session
    <3>5. CASE emit_event("REGISTER", s.id, t.jwk, t.signer, t.challenge, c)
               /\ \E leak : Return(Server, SuccessResponse(s), leak)
      <4>1. PICK leak : Return(Server, SuccessResponse(s), leak)
        BY <3>5
      <4>2. pc'[Server] = "idle"
        BY <4>1, <1>r
      <4>3. Acknowledged(serving.id, KeyOf[serving.client])'
        <5> DEFINE e == [type |-> "REGISTER", session |-> s.id, key |-> t.jwk,
                         signer |-> t.signer, jti |-> t.challenge, next |-> c]
        <5>1. e \in events'
          BY <3>5 DEF emit_event
        <5>2. e.type = "REGISTER" /\ e.session = s.id /\ e.key = t.jwk
          OBVIOUS
        <5> QED BY <5>1, <5>2, <3>3, <3>4, <1>1 DEF Acknowledged
      <4> QED BY <1>4, <4>2, <4>3
    <3>6. CASE \E leak : Return(Server, InternalError, leak)
      <4>1. PICK leak : Return(Server, InternalError, leak)
        BY <3>6
      <4>2. InternalError.status = 0
        BY DEF InternalError, Respond
      <4>3. pc'[Server] = "idle" /\ resp'[Server] = InternalError
        BY <4>1, <1>r
      <4> QED BY <1>4, <4>2, <4>3
    <3> QED BY <3>1, <3>5, <3>6, Zenon DEF RegisterStore
  <2>3. CASE RefreshReject(Server) \/ RefreshExtend(Server)
    <3>1. PICK x, leak : Return(Server, x, leak)
      BY <2>3, Zenon DEF RefreshReject, RefreshExtend, RefreshStore
    <3>2. pc'[Server] = "idle" /\ serving.path # "register"
      BY <3>1, <1>r, <2>3, <1>t DEF RefreshReject, RefreshExtend, ServingOK
    <3> QED BY <1>4, <3>2
  <2>4. CASE RegisterNoChallenge(Server) \/ RefreshNoChallenge(Server)
    BY <1>4, <2>4, NoChallengeEnds
  <2> QED BY <2>1, <2>2, <2>3, <2>4 DEF ServeOn
<1> QED BY <1>1, <1>2, <1>3, <1>5, BrowserFrame DEF AgreementInv

\* An answer is sent to those who wait for it.
LEMMA AnswersMove ==
  ASSUME NEW r \in Requests, NEW a, a.client = r.client, SendTo(r, a), NEW b
  PROVE  /\ r.client = b /\ r.live => Answers(b)' = Answers(b) \cup {a}
         /\ ~(r.client = b /\ r.live) => Answers(b)' = Answers(b)
         /\ replies' = replies \/ (r.live /\ replies' = replies \cup {a})
<1>1. r.live \in BOOLEAN
  BY DEF Requests
<1> QED BY <1>1 DEF SendTo, Answers

\* send_response: the answer takes the place of the request.
LEMMA AgreementReply ==
  ASSUME SystemInv, AgreementInv, [Next]_vars, Reply
  PROVE  AgreementInv'
<1>1. /\ UNCHANGED <<running, looping, sent, arrived, ready, browser>>
      /\ UNCHANGED <<pc, loaded, header, resp, events>>
      /\ serving # Nil /\ serving' = Nil /\ pc[Server] = "idle"
  BY DEF Reply, vars, workerVars, historyVars
<1>2. /\ serving \in Requests /\ OpenOK(serving) /\ serving.client \in Clients
      /\ serving.path \in Paths /\ serving.live \in BOOLEAN
  <2>1. serving \in Requests /\ OpenOK(serving)
    BY <1>1 DEF AgreementInv, Open, OpenOK
  <2> QED BY <2>1 DEF Requests
<1>3. PICK a : /\ SendTo(serving, a)
               /\ a.client = serving.client
               /\ serving.path = "register" /\ a.status = 200 => resp[Server].status = 200
  <2> DEFINE rs == resp[Server]
             good == Answer(serving.client, StatusOf(serving.path, rs), rs.session, rs.challenge)
             bad == Answer(serving.client, 500, Nil, Nil)
  <2>1. SendTo(serving, good) \/ SendTo(serving, bad)
    BY DEF Reply
  <2>2. good.client = serving.client /\ bad.client = serving.client /\ bad.status = 500
        /\ good.status = StatusOf(serving.path, rs)
    BY DEF Answer
  <2>3. serving.path = "register" => StatusOf(serving.path, rs) = rs.status
    BY DEF StatusOf
  <2> HIDE DEF good, bad
  <2> QED BY <2>1, <2>2, <2>3
<1>4. Open' \subseteq Open
  BY <1>1 DEF Open
<1>5. ServingOK'
  BY <1>1 DEF ServingOK
<1>6. replies' = replies \/ (serving.live /\ replies' = replies \cup {a})
  BY <1>2, <1>3, AnswersMove
<1>7. serving.live => AnsweredOK(a)
  <2>1. SUFFICES ASSUME serving.live, a.status = 200, browser[a.client].phase = "registering"
                 PROVE  Acknowledged(browser[a.client].id, KeyOf[a.client])
    BY <1>2, <1>3 DEF AnsweredOK
  <2>2. serving.path = "register" /\ serving.id = browser[a.client].id
    BY <2>1, <1>2, <1>3 DEF OpenOK, Match, Paths
  <2> QED BY <2>1, <2>2, <1>1, <1>3 DEF AgreementInv, ServingOK
<1>8. ASSUME NEW b \in Clients PROVE WaitOK(b)'
  <2>1. WaitOK(b) /\ BrowsersKnow
    BY DEF AgreementInv, BrowserOK, SystemInv
  <2>2. Alive(InHand, b)' = {}
    BY <1>1 DEF InHand, Alive
  <2>3. UNCHANGED <<Alive(sent, b), Alive(arrived, b), Alive(ready, b)>>
    BY <1>1 DEF Alive
  <2>4. CASE serving.client = b /\ serving.live
    <3>1. serving \in Alive(InHand, b)
      BY <1>1, <2>4 DEF Alive, InHand
    <3>2. /\ browser[b].waiting
          /\ Single(Alive(sent, b), Alive(arrived, b), Alive(ready, b), Alive(InHand, b), Answers(b))
      BY <2>1, <3>1, PendingWaits
    <3>3. /\ Alive(sent, b) = {} /\ Alive(arrived, b) = {} /\ Alive(ready, b) = {}
          /\ Answers(b) = {}
      BY <3>1, <3>2, SingleIs
    <3>4. Answers(b)' = {a}
      BY <1>2, <1>3, <2>4, <3>3, AnswersMove
    <3> QED BY <1>1, <2>2, <2>3, <3>2, <3>3, <3>4, SingleMade DEF WaitOK
  <2>5. CASE ~(serving.client = b /\ serving.live)
    <3>1. Alive(InHand, b) = {} /\ Answers(b)' = Answers(b)
      <4>1. Alive(InHand, b) = {}
        BY <1>1, <2>5 DEF Alive, InHand
      <4> QED BY <4>1, <1>2, <1>3, <2>5, AnswersMove
    <3> QED BY <1>1, <2>1, <2>2, <2>3, <3>1 DEF WaitOK
  <2> QED BY <2>4, <2>5
<1>9. \A x \in replies' : AnsweredOK(x)
  BY <1>6, <1>7 DEF AgreementInv
<1> QED BY <1>1, <1>4, <1>5, <1>8, <1>9, BrowserFrame DEF AgreementInv

\* The same for what is answered without a call of the manager.
LEMMA AgreementReplyAtOnce ==
  ASSUME SystemInv, AgreementInv, [Next]_vars, NEW r \in ready, ReplyAtOnce(r)
  PROVE  AgreementInv'
<1>1. /\ UNCHANGED <<running, looping, sent, arrived, serving, browser>>
      /\ UNCHANGED <<pc, loaded, header, resp, events>>
      /\ ready' = ready \ {r}
  BY DEF ReplyAtOnce, vars, workerVars, historyVars
<1>2. r \in Requests /\ r.client \in Clients /\ r.live \in BOOLEAN
  <2>1. r \in Requests
    BY DEF AgreementInv, Open, OpenOK
  <2> QED BY <2>1 DEF Requests
<1>3. PICK a : SendTo(r, a) /\ a.client = r.client /\ a.status # 200
  <2>1. SendTo(r, Answer(r.client, 401, Nil, Nil)) \/ SendTo(r, Answer(r.client, 500, Nil, Nil))
    BY DEF ReplyAtOnce
  <2>2. \A st : Answer(r.client, st, Nil, Nil).client = r.client
                /\ Answer(r.client, st, Nil, Nil).status = st
    BY DEF Answer
  <2>3. 401 # 200 /\ 500 # 200
    OBVIOUS
  <2> QED BY <2>1, <2>2, <2>3
<1>4. Open' \subseteq Open
  BY <1>1 DEF Open
<1>5. ServingOK'
  BY <1>1 DEF AgreementInv, ServingOK, Acknowledged
<1>6. replies' = replies \/ replies' = replies \cup {a}
  BY <1>2, <1>3, AnswersMove
<1>7. AnsweredOK(a)
  BY <1>2, <1>3 DEF AnsweredOK
<1>8. ASSUME NEW b \in Clients PROVE WaitOK(b)'
  <2>1. WaitOK(b) /\ BrowsersKnow
    BY DEF AgreementInv, BrowserOK, SystemInv
  <2>2. Alive(ready', b) = Alive(ready, b) \ {r}
    BY <1>1 DEF Alive
  <2>3. UNCHANGED <<Alive(sent, b), Alive(arrived, b), Alive(InHand, b)>>
    BY <1>1 DEF Alive, InHand
  <2>4. CASE r.client = b /\ r.live
    <3>1. r \in Alive(ready, b)
      BY <2>4 DEF Alive
    <3>2. /\ browser[b].waiting
          /\ Single(Alive(sent, b), Alive(arrived, b), Alive(ready, b), Alive(InHand, b), Answers(b))
      BY <2>1, <3>1, PendingWaits
    <3>3. /\ Alive(sent, b) = {} /\ Alive(arrived, b) = {} /\ Alive(ready', b) = {}
          /\ Alive(InHand, b) = {} /\ Answers(b) = {}
      BY <2>2, <3>1, <3>2, SingleIs
    <3>4. Answers(b)' = {a}
      BY <1>2, <1>3, <2>4, <3>3, AnswersMove
    <3> QED BY <1>1, <2>3, <3>2, <3>3, <3>4, SingleMade DEF WaitOK
  <2>5. CASE ~(r.client = b /\ r.live)
    <3>1. Alive(ready', b) = Alive(ready, b)
      BY <2>2, <2>5 DEF Alive
    <3>2. Answers(b)' = Answers(b)
      BY <1>2, <1>3, <2>5, AnswersMove
    <3> QED BY <1>1, <2>1, <2>3, <3>1, <3>2 DEF WaitOK
  <2> QED BY <2>4, <2>5
<1>9. \A x \in replies' : AnsweredOK(x)
  BY <1>6, <1>7 DEF AgreementInv
<1> QED BY <1>1, <1>4, <1>5, <1>8, <1>9, BrowserFrame DEF AgreementInv

\* A browser that does not wait sends a request that fits its phase, and waits.
LEMMA AgreementSend ==
  ASSUME SystemInv, AgreementInv, NEW b \in Clients, NEW r, Send(b, r), OpenOK(r),
         r.client = b, r.live, browser' = [browser EXCEPT ![b].waiting = TRUE]
  PROVE  AgreementInv'
<1>1. /\ UNCHANGED <<running, looping, arrived, ready, serving, replies>>
      /\ UNCHANGED <<pc, loaded, header, resp, events>>
      /\ sent' = sent \cup {r} /\ ~browser[b].waiting
  BY DEF Send, vars, loopVars, workerVars, historyVars
<1>2. browser \in [Clients -> BrowserStates]
  BY DEF SystemInv, BrowsersKnow
<1>3. \A c \in Clients : /\ browser'[c].phase = browser[c].phase
                         /\ browser'[c].id = browser[c].id
                         /\ c # b => browser'[c] = browser[c]
  BY <1>2 DEF BrowserStates
<1>4. browser'[b].waiting
  <2>1. PICK yes \in {TRUE} : browser' = [browser EXCEPT ![b].waiting = yes]
    BY Zenon
  <2>2. browser'[b].waiting = yes
    BY <2>1, <1>2 DEF BrowserStates
  <2> QED BY <2>2
<1>5. \A x : OpenOK(x) => OpenOK(x)'
  <2>1. ASSUME NEW x, OpenOK(x) PROVE OpenOK(x)'
    <3>1. x \in Requests /\ x.client \in Clients
      BY <2>1 DEF OpenOK, Requests
    <3>2. Match(x) => Match(x)'
      BY <1>3, <3>1 DEF Match
    <3> QED BY <2>1, <3>1, <3>2 DEF OpenOK
  <2> QED BY <2>1
<1>6. \A x \in Open' : OpenOK(x)'
  <2>1. Open' \subseteq Open \cup {r}
    BY <1>1 DEF Open
  <2> QED BY <2>1, <1>5 DEF AgreementInv
<1>7. ServingOK'
  BY <1>1 DEF AgreementInv, ServingOK, Acknowledged
<1>8. \A a \in replies' : AnsweredOK(a)'
  BY <1>1, <1>3 DEF AgreementInv, AnsweredOK, Acknowledged
<1>9. ASSUME NEW c \in Clients PROVE BrowserOK(c)'
  <2>1. BrowserOK(c)
    BY DEF AgreementInv
  <2>2. UNCHANGED <<Alive(arrived, c), Alive(ready, c), Alive(InHand, c), Answers(c)>>
    BY <1>1 DEF Alive, InHand, Answers
  <2>3. CASE c = b
    <3>1. Vacant(Alive(sent, b), Alive(arrived, b), Alive(ready, b), Alive(InHand, b), Answers(b))
      BY <2>1, <2>3, <1>1 DEF BrowserOK, WaitOK
    <3>2. Alive(sent', b) = {r}
      BY <3>1, <1>1 DEF Vacant, Alive
    <3>3. WaitOK(b)'
      BY <1>4, <2>2, <2>3, <3>1, <3>2, SingleMade DEF WaitOK, Vacant
    <3> QED BY <1>1, <1>3, <2>1, <2>3, <3>3 DEF BrowserOK, Acknowledged
  <2>4. CASE c # b
    <3>1. Alive(sent', c) = Alive(sent, c)
      BY <1>1, <2>4 DEF Alive
    <3>2. WaitOK(c)'
      BY <1>3, <2>1, <2>2, <2>4, <3>1 DEF BrowserOK, WaitOK
    <3> QED BY <1>1, <1>3, <2>1, <2>4, <3>2 DEF BrowserOK, Acknowledged
  <2> QED BY <2>3, <2>4
<1> QED BY <1>1, <1>6, <1>7, <1>8, <1>9 DEF AgreementInv

\* The four requests fit the phase they are made in.
LEMMA RequestsFit ==
  ASSUME SystemInv, NEW b \in Clients, NEW r,
         \/ browser[b].phase = "out" /\ r = Request(b, "login", Nil, Nil)
         \/ /\ browser[b].phase = "registering"
            /\ r = Request(b, "register", browser[b].id,
                           Quoted(Proof(KeyOf[b], KeyOf[b], browser[b].challenge)))
         \/ /\ browser[b].phase = "refreshing"
            /\ r = Request(b, "refresh", browser[b].id,
                           Quoted(Proof(KeyOf[b], Nil, browser[b].challenge)))
         \/ browser[b].phase = "bound" /\ r = Request(b, "me", browser[b].id, Nil)
  PROVE  OpenOK(r) /\ r.client = b /\ r.live
<1>1. browser[b].id \in Ids \cup {Nil} /\ browser[b].challenge \in Known
  BY DEF SystemInv, BrowsersKnow, BrowserStates
<1>2. Known \subseteq ChallengeValues \cup {Nil}
  BY DEF SystemInv, ConcurrentInv, TypeInv, TypeOK, HistoryTypeOK, Known, IssuedChallenges
<1>3. ASSUME NEW jwk, jwk = KeyOf[b] \/ jwk = Nil
      PROVE  LET q == Quoted(Proof(KeyOf[b], jwk, browser[b].challenge))
             IN  q \in [quoted: {TRUE}, value: Token] /\ q.value.jwk = jwk
  <2> DEFINE p == Proof(KeyOf[b], jwk, browser[b].challenge)
  <2>1. p \in Token
    <3>1. Proof(KeyOf[b], jwk, Nil) \in Token
      BY <1>3, ProofShape, TokenShapesAssumption
    <3>2. p = [Proof(KeyOf[b], jwk, Nil) EXCEPT !.challenge = browser[b].challenge]
      BY <1>3, ProofShape
    <3> QED BY <3>1, <3>2, <1>1, <1>2 DEF Token
  <2>2. p.jwk = jwk
    <3>1. ASSUME NEW yes PROVE [parses |-> yes, algorithm |-> "ES256", type |-> "dbsc+jwt",
             jwk |-> jwk, challenge |-> browser[b].challenge, authorization |-> Authorization,
             signature |-> "raw", signer |-> KeyOf[b]].jwk = jwk
      OBVIOUS
    <3> QED BY <3>1, Zenon DEF Proof
  <2> HIDE DEF p
  <2>3. PICK yes \in {TRUE} : Quoted(p) = [quoted |-> yes, value |-> p]
    BY Zenon DEF Quoted
  <2> QED BY <2>1, <2>2, <2>3 DEF p
<1>4. ASSUME NEW path \in Paths, NEW id \in Ids \cup {Nil},
             NEW q \in [quoted: {TRUE}, value: Token] \cup {Nil}, r = Request(b, path, id, q)
      PROVE  /\ r \in Requests /\ r.client = b /\ r.live
             /\ r.path = path /\ r.id = id /\ r.proof = q
  <2>1. PICK yes \in {TRUE} :
          r = [client |-> b, path |-> path, id |-> id, proof |-> q, live |-> yes]
    BY <1>4, Zenon DEF Request
  <2> QED BY <2>1 DEF Requests
<1>5. CASE browser[b].phase = "out" /\ r = Request(b, "login", Nil, Nil)
  <2>1. r \in Requests /\ r.client = b /\ r.live /\ r.path = "login"
    BY <1>4, <1>5 DEF Paths
  <2> QED BY <1>5, <2>1 DEF OpenOK, Match
<1>6. CASE browser[b].phase = "bound" /\ r = Request(b, "me", browser[b].id, Nil)
  <2>1. r \in Requests /\ r.client = b /\ r.live /\ r.path = "me"
    BY <1>1, <1>4, <1>6 DEF Paths
  <2> QED BY <1>6, <2>1 DEF OpenOK, Match
<1>7. CASE /\ browser[b].phase = "registering"
           /\ r = Request(b, "register", browser[b].id,
                          Quoted(Proof(KeyOf[b], KeyOf[b], browser[b].challenge)))
  <2> DEFINE q == Quoted(Proof(KeyOf[b], KeyOf[b], browser[b].challenge))
  <2>1. q \in [quoted: {TRUE}, value: Token] /\ q.value.jwk = KeyOf[b]
    BY <1>3
  <2> HIDE DEF q
  <2>2. r = Request(b, "register", browser[b].id, q)
    BY <1>7 DEF q
  <2>3. /\ r \in Requests /\ r.client = b /\ r.live
        /\ r.path = "register" /\ r.id = browser[b].id /\ r.proof = q
    BY <1>1, <1>4, <2>1, <2>2 DEF Paths
  <2>4. q # Nil
    BY <2>1, NilRequestAssumption
  <2> QED BY <1>7, <2>1, <2>3, <2>4 DEF OpenOK, Match
<1>8. CASE /\ browser[b].phase = "refreshing"
           /\ r = Request(b, "refresh", browser[b].id,
                          Quoted(Proof(KeyOf[b], Nil, browser[b].challenge)))
  <2> DEFINE q == Quoted(Proof(KeyOf[b], Nil, browser[b].challenge))
  <2>1. q \in [quoted: {TRUE}, value: Token]
    BY <1>3
  <2> HIDE DEF q
  <2>2. r = Request(b, "refresh", browser[b].id, q)
    BY <1>8 DEF q
  <2>3. /\ r \in Requests /\ r.client = b /\ r.live
        /\ r.path = "refresh" /\ r.id = browser[b].id
    BY <1>1, <1>4, <2>1, <2>2 DEF Paths
  <2> QED BY <1>8, <2>3 DEF OpenOK, Match
<1> QED BY <1>5, <1>6, <1>7, <1>8

\* A browser ends up with nothing to wait for and moves on.
LEMMA AgreementIdle ==
  ASSUME SystemInv, AgreementInv, UNCHANGED <<vars, running, looping>>,
         NEW b \in Clients, NEW st, ~st.waiting, browser' = [browser EXCEPT ![b] = st],
         st.phase \in {"bound", "refreshing"} => Acknowledged(st.id, KeyOf[b]),
         \A r \in Open' : OpenOK(r) /\ ~(r.client = b /\ r.live),
         \A a \in replies' : a \in replies /\ a.client # b,
         \A c \in Clients \ {b} :
           UNCHANGED <<Alive(sent, c), Alive(arrived, c), Alive(ready, c), Alive(InHand, c),
                       Answers(c)>>,
         ServingOK'
  PROVE  AgreementInv'
<1>1. browser \in [Clients -> BrowserStates]
  BY DEF SystemInv, BrowsersKnow
<1>2. browser'[b] = st /\ \A c \in Clients \ {b} : browser'[c] = browser[c]
  BY <1>1
<1>3. UNCHANGED <<pc, loaded, header, resp, events>>
  BY DEF vars, workerVars, historyVars
<1>4. ASSUME NEW r \in Open' PROVE OpenOK(r)'
  <2>1. OpenOK(r) /\ r \in Requests /\ ~(r.client = b /\ r.live)
    BY DEF OpenOK
  <2>2. r.client \in Clients
    BY <2>1 DEF Requests
  <2>3. CASE r.client = b
    BY <2>1, <2>3 DEF OpenOK
  <2>4. CASE r.client # b
    <3>1. Match(r)' <=> Match(r)
      BY <1>2, <2>2, <2>4 DEF Match
    <3> QED BY <2>1, <3>1 DEF OpenOK
  <2> QED BY <2>3, <2>4
<1>5. ASSUME NEW a \in replies' PROVE AnsweredOK(a)'
  <2>1. AnsweredOK(a) /\ a.client # b
    BY DEF AgreementInv
  <2> QED BY <1>2, <1>3, <2>1 DEF AnsweredOK, Acknowledged
<1>6. WaitOK(b)'
  <2>1. /\ Alive(sent', b) = {} /\ Alive(arrived', b) = {} /\ Alive(ready', b) = {}
        /\ Alive(InHand', b) = {} /\ Answers(b)' = {}
    BY DEF Alive, Answers, InHand, Open
  <2> QED BY <1>2, <2>1 DEF WaitOK, Vacant
<1>7. ASSUME NEW c \in Clients PROVE BrowserOK(c)'
  <2>1. CASE c = b
    BY <1>2, <1>3, <1>6, <2>1 DEF BrowserOK, Acknowledged
  <2>2. CASE c # b
    <3>1. BrowserOK(c)
      BY DEF AgreementInv
    <3>2. WaitOK(c)'
      BY <1>2, <2>2, <3>1 DEF BrowserOK, WaitOK
    <3> QED BY <1>2, <1>3, <2>2, <3>1, <3>2 DEF BrowserOK, Acknowledged
  <2> QED BY <2>1, <2>2
<1> QED BY <1>4, <1>5, <1>7 DEF AgreementInv

\* The cookie of a bound browser runs out while it waits for nothing.
LEMMA AgreementNeedRefresh ==
  ASSUME SystemInv, AgreementInv, NEW b \in Clients, NeedRefresh(b)
  PROVE  AgreementInv'
<1> DEFINE st == [browser[b] EXCEPT !.phase = "refreshing"]
<1>1. /\ UNCHANGED <<vars, running, looping, sent, arrived, ready, serving, replies>>
      /\ UNCHANGED <<pc, loaded, header, resp, events>>
      /\ browser' = [browser EXCEPT ![b] = st]
      /\ browser[b].phase = "bound" /\ ~browser[b].waiting
  BY DEF NeedRefresh, loopVars, netVars, vars, workerVars, historyVars
<1>2. browser[b] \in BrowserStates
  BY DEF SystemInv, BrowsersKnow
<1>3. ~st.waiting /\ st.id = browser[b].id
  BY <1>1, <1>2 DEF BrowserStates
<1> HIDE DEF st
<1>4. BrowserOK(b)
  BY DEF AgreementInv
<1>5. Vacant(Alive(sent, b), Alive(arrived, b), Alive(ready, b), Alive(InHand, b), Answers(b))
  BY <1>1, <1>4 DEF BrowserOK, WaitOK
<1>6. Acknowledged(st.id, KeyOf[b])
  BY <1>1, <1>3, <1>4 DEF BrowserOK
<1>7. Open' = Open /\ \A r \in Open : OpenOK(r) /\ ~(r.client = b /\ r.live)
  BY <1>1, <1>5 DEF AgreementInv, Open, Vacant, Alive, InHand
<1>8. \A a \in replies' : a \in replies /\ a.client # b
  BY <1>1, <1>5 DEF Vacant, Answers
<1>9. \A c \in Clients \ {b} :
        UNCHANGED <<Alive(sent, c), Alive(arrived, c), Alive(ready, c), Alive(InHand, c),
                    Answers(c)>>
  BY <1>1 DEF Alive, InHand, Answers
<1>10. ServingOK'
  BY <1>1 DEF AgreementInv, ServingOK, Acknowledged
<1> QED BY <1>1, <1>3, <1>6, <1>7, <1>8, <1>9, <1>10, AgreementIdle

\* An answer ends the wait; it makes a browser bound only when it answers a
\* registration with 200.
LEMMA AfterIs ==
  ASSUME NEW st \in BrowserStates, NEW a
  PROVE  /\ ~After(st, a).waiting
         /\ After(st, a).phase \in {"bound", "refreshing"} =>
              /\ After(st, a).id = st.id
              /\ \/ st.phase \in {"bound", "refreshing"}
                 \/ st.phase = "registering" /\ a.status = 200
<1> DEFINE given == IF a.challenge = Nil THEN st.challenge ELSE a.challenge
           idle == [st EXCEPT !.waiting = FALSE, !.challenge = given]
           granted == st.phase = "out" /\ a.status = 200
           bound == st.phase \in {"registering", "refreshing"} /\ a.status = 200
           refused == st.phase # "out" /\ a.status \in {400, 401}
<1>1. After(st, a) =
        CASE granted -> [idle EXCEPT !.phase = "registering", !.id = a.id]
          [] bound   -> [idle EXCEPT !.phase = "bound"]
          [] refused -> [idle EXCEPT !.phase = "out", !.id = Nil, !.challenge = Nil]
          [] OTHER   -> idle
  BY Zenon DEF After, idle
<1>2. ~(granted /\ bound) /\ ~(granted /\ refused) /\ ~(bound /\ refused)
  OBVIOUS
<1>3. /\ bound => st.phase = "refreshing" \/ (st.phase = "registering" /\ a.status = 200)
      /\ st.phase \in {"out", "registering", "bound", "refreshing"}
  BY DEF BrowserStates
<1> DEFINE any == [phase: {"out", "registering", "bound", "refreshing"}, id: Ids \cup {Nil},
                   challenge: {given}, waiting: BOOLEAN]
<1>4. idle \in any /\ idle.phase = st.phase /\ idle.id = st.id /\ ~idle.waiting
  <2>1. PICK no \in {FALSE} : idle = [st EXCEPT !.waiting = no, !.challenge = given]
    BY Zenon
  <2> HIDE DEF given, idle
  <2>2. idle \in any
    BY <2>1 DEF BrowserStates
  <2>3. idle.waiting = no /\ idle.phase = st.phase /\ idle.id = st.id
    BY <2>1 DEF BrowserStates
  <2> QED BY <2>2, <2>3
<1> HIDE DEF idle, granted, bound, refused, given
<1>5. \/ granted /\ After(st, a) = [idle EXCEPT !.phase = "registering", !.id = a.id]
      \/ bound /\ After(st, a) = [idle EXCEPT !.phase = "bound"]
      \/ refused /\ After(st, a) = [idle EXCEPT !.phase = "out", !.id = Nil, !.challenge = Nil]
      \/ ~bound /\ After(st, a) = idle
  BY <1>1, <1>2
<1>6. CASE granted /\ After(st, a) = [idle EXCEPT !.phase = "registering", !.id = a.id]
  BY <1>4, <1>6
<1>7. CASE bound /\ After(st, a) = [idle EXCEPT !.phase = "bound"]
  BY <1>3, <1>4, <1>7
<1>8. CASE refused /\ After(st, a) = [idle EXCEPT !.phase = "out", !.id = Nil, !.challenge = Nil]
  BY <1>4, <1>8
<1>9. CASE ~bound /\ After(st, a) = idle
  BY <1>3, <1>4, <1>9
<1> QED BY <1>5, <1>6, <1>7, <1>8, <1>9

\* A browser takes in the one answer it waits for.
LEMMA AgreementReceive ==
  ASSUME SystemInv, AgreementInv, NEW a \in replies, Receive(a)
  PROVE  AgreementInv'
<1> DEFINE b == a.client
           st == After(browser[b], a)
<1>1. /\ UNCHANGED <<vars, running, looping, sent, arrived, ready, serving>>
      /\ UNCHANGED <<pc, loaded, header, resp, events>>
      /\ replies' = replies \ {a}
      /\ browser' = [browser EXCEPT ![b] = st]
  BY DEF Receive, loopVars, vars, workerVars, historyVars
<1>2. b \in Clients /\ AnsweredOK(a)
  BY DEF AgreementInv, AnsweredOK
<1>3. browser[b] \in BrowserStates /\ BrowsersKnow
  BY <1>2 DEF SystemInv, BrowsersKnow
<1>4. BrowserOK(b)
  BY <1>2 DEF AgreementInv
<1>5. a \in Answers(b)
  BY DEF Answers
<1>6. Single(Alive(sent, b), Alive(arrived, b), Alive(ready, b), Alive(InHand, b), Answers(b))
  BY <1>2, <1>3, <1>4, <1>5, PendingWaits DEF BrowserOK
<1>7. /\ Alive(sent, b) = {} /\ Alive(arrived, b) = {} /\ Alive(ready, b) = {}
      /\ Alive(InHand, b) = {} /\ Answers(b) = {a}
  BY <1>5, <1>6, SingleIs
<1>8. ~st.waiting /\ (st.phase \in {"bound", "refreshing"} => Acknowledged(st.id, KeyOf[b]))
  BY <1>2, <1>3, <1>4, AfterIs DEF BrowserOK, AnsweredOK
<1> HIDE DEF st
<1>9. Open' = Open /\ \A r \in Open : OpenOK(r) /\ ~(r.client = b /\ r.live)
  BY <1>1, <1>7 DEF AgreementInv, Open, Alive, InHand
<1>10. \A x \in replies' : x \in replies /\ x.client # b
  BY <1>1, <1>7 DEF Answers
<1>11. \A c \in Clients \ {b} :
         UNCHANGED <<Alive(sent, c), Alive(arrived, c), Alive(ready, c), Alive(InHand, c),
                     Answers(c)>>
  BY <1>1 DEF Alive, InHand, Answers
<1>12. ServingOK'
  BY <1>1 DEF AgreementInv, ServingOK, Acknowledged
<1> HIDE DEF b
<1> QED BY <1>1, <1>2, <1>8, <1>9, <1>10, <1>11, <1>12, AgreementIdle

\* A request that is given up is a request still, but no live one.
LEMMA AbandonedIs ==
  ASSUME NEW b, NEW r, OpenOK(r)
  PROVE  /\ OpenOK(Abandoned(b, r)) /\ ~(Abandoned(b, r).client = b /\ Abandoned(b, r).live)
         /\ Abandoned(b, r) # Nil
         /\ r.client # b => Abandoned(b, r) = r
         /\ Abandoned(b, r).client = r.client /\ Abandoned(b, r).path = r.path
         /\ Abandoned(b, r).id = r.id /\ Abandoned(b, r).proof = r.proof
<1>1. r \in Requests /\ r # Nil
  BY NilRequestAssumption DEF OpenOK
<1>2. CASE r.client # b
  BY <1>1, <1>2 DEF Abandoned
<1>3. CASE r.client = b
  <2>1. PICK no \in {FALSE} : Abandoned(b, r) = [r EXCEPT !.live = no]
    BY <1>1, <1>3, Zenon DEF Abandoned
  <2>2. /\ Abandoned(b, r).client = r.client /\ Abandoned(b, r).path = r.path
        /\ Abandoned(b, r).id = r.id /\ Abandoned(b, r).proof = r.proof
        /\ Abandoned(b, r).live = no /\ Abandoned(b, r) \in Requests
    BY <2>1, <1>1 DEF Requests
  <2> QED BY <1>3, <2>2, NilRequestAssumption DEF OpenOK
<1> QED BY <1>2, <1>3

\* What is given up disappears from what its browser waits for, and from
\* nothing else.
LEMMA AbandonedAlive ==
  ASSUME NEW b, NEW S, \A r \in S : OpenOK(r), NEW c, c # b
  PROVE  Alive({Abandoned(b, r) : r \in S}, c) = Alive(S, c)
<1>1. \A r \in S : r.client # b => Abandoned(b, r) = r
  BY AbandonedIs
<1>2. \A r \in S : Abandoned(b, r).client = r.client
  BY AbandonedIs
<1> QED BY <1>1, <1>2 DEF Alive

\* A timeout or a broken connection.
LEMMA AgreementAbandon ==
  ASSUME SystemInv, AgreementInv, NEW b \in Clients, Abandon(b)
  PROVE  AgreementInv'
<1> DEFINE Given(S) == {Abandoned(b, r) : r \in S}
           st == [browser[b] EXCEPT !.waiting = FALSE]
<1>1. /\ UNCHANGED <<vars, running, looping>>
      /\ UNCHANGED <<pc, loaded, header, resp, events>>
      /\ sent' = Given(sent) /\ arrived' = Given(arrived) /\ ready' = Given(ready)
      /\ serving' = IF serving = Nil THEN Nil ELSE Abandoned(b, serving)
      /\ replies' = {a \in replies : a.client # b}
  BY DEF Abandon, vars, workerVars, historyVars
<1>2. browser' = [browser EXCEPT ![b] = st]
  BY DEF Abandon
<1>3. browser[b] \in BrowserStates
  BY DEF SystemInv, BrowsersKnow
<1>4. ~st.waiting /\ st.id = browser[b].id /\ st.phase = browser[b].phase
  <2>1. PICK no \in {FALSE} : st = [browser[b] EXCEPT !.waiting = no]
    BY Zenon
  <2> HIDE DEF st
  <2>2. st.waiting = no /\ st.id = browser[b].id /\ st.phase = browser[b].phase
    BY <2>1, <1>3 DEF BrowserStates
  <2> QED BY <2>2
<1> HIDE DEF st
<1>5. st.phase \in {"bound", "refreshing"} => Acknowledged(st.id, KeyOf[b])
  BY <1>4 DEF AgreementInv, BrowserOK
<1>6. /\ \A r \in sent \cup arrived \cup ready : OpenOK(r)
      /\ serving # Nil => OpenOK(serving)
  BY DEF AgreementInv, Open
<1>7. ASSUME NEW r \in Open' PROVE OpenOK(r) /\ ~(r.client = b /\ r.live)
  <2>1. PICK q : OpenOK(q) /\ r = Abandoned(b, q)
    <3>1. CASE r \in Given(sent) \cup Given(arrived) \cup Given(ready)
      BY <3>1, <1>6
    <3>2. CASE serving # Nil /\ r = Abandoned(b, serving)
      BY <3>2, <1>6
    <3> QED BY <1>1, <3>1, <3>2 DEF Open
  <2> QED BY <2>1, AbandonedIs
<1>8. ASSUME NEW c \in Clients \ {b}
      PROVE  UNCHANGED <<Alive(sent, c), Alive(arrived, c), Alive(ready, c), Alive(InHand, c),
                         Answers(c)>>
  <2>1. /\ Alive(Given(sent), c) = Alive(sent, c)
        /\ Alive(Given(arrived), c) = Alive(arrived, c)
        /\ Alive(Given(ready), c) = Alive(ready, c)
    BY <1>6, AbandonedAlive
  <2>2. Alive(InHand, c)' = Alive(InHand, c)
    <3>1. CASE serving = Nil
      BY <1>1, <3>1 DEF InHand
    <3>2. CASE serving # Nil
      <4>1. Abandoned(b, serving) # Nil /\ Abandoned(b, serving).client = serving.client
            /\ (serving.client # b => Abandoned(b, serving) = serving)
        BY <1>6, <3>2, AbandonedIs
      <4> QED BY <1>1, <3>2, <4>1 DEF InHand, Alive
    <3> QED BY <3>1, <3>2
  <2>3. Answers(c)' = Answers(c)
    BY <1>1 DEF Answers
  <2> HIDE DEF Given
  <2> QED BY <1>1, <2>1, <2>2, <2>3
<1>9. ServingOK'
  <2>1. CASE serving = Nil
    BY <1>1, <2>1 DEF AgreementInv, ServingOK
  <2>2. CASE serving # Nil
    <3>1. /\ serving' # Nil /\ serving'.client = serving.client /\ serving'.path = serving.path
          /\ serving'.id = serving.id /\ serving'.proof = serving.proof
      BY <1>1, <1>6, <2>2, AbandonedIs
    <3>2. UNCHANGED <<pc, loaded, header, resp, events>>
      BY <1>1
    <3> QED BY <2>2, <3>1, <3>2 DEF AgreementInv, ServingOK, Acknowledged
  <2> QED BY <2>1, <2>2
<1>10. \A a \in replies' : a \in replies /\ a.client # b
  BY <1>1
<1> HIDE DEF Given
<1> QED BY <1>1, <1>2, <1>4, <1>5, <1>7, <1>8, <1>9, <1>10, AgreementIdle

\* Initial states satisfy AgreementInv.
LEMMA AgreementInit == SystemInit => AgreementInv
<1> SUFFICES ASSUME SystemInit PROVE AgreementInv
  OBVIOUS
<1>1. running \in BOOLEAN /\ looping \in BOOLEAN
  BY DEF SystemInit
<1>2. sent = {} /\ arrived = {} /\ ready = {} /\ serving = Nil /\ replies = {}
  BY DEF SystemInit
<1>3. Open = {} /\ InHand = {}
  BY <1>2 DEF Open, InHand
<1>4. ServingOK
  BY <1>2, SystemAssumption DEF ServingOK, SystemInit, Init
<1>5. ASSUME NEW b \in Clients PROVE BrowserOK(b)
  <2>1. PICK no \in {FALSE} :
          browser = [c \in Clients |->
                       [phase |-> "out", id |-> Nil, challenge |-> Nil, waiting |-> no]]
    BY Zenon DEF SystemInit
  <2>2. browser[b].waiting = no /\ browser[b].phase = "out"
    BY <2>1
  <2> QED BY <1>2, <1>3, <2>2 DEF BrowserOK, WaitOK, Vacant, Alive, Answers
<1> QED BY <1>1, <1>2, <1>3, <1>4, <1>5 DEF AgreementInv

\* Every step keeps AgreementInv.
LEMMA AgreementStep == SystemInv /\ AgreementInv /\ [SystemNext]_sysVars => AgreementInv'
<1> SUFFICES ASSUME SystemInv, AgreementInv, [SystemNext]_sysVars PROVE AgreementInv'
  OBVIOUS
<1>n. [Next]_vars
  BY StepIsManagerStep
<1>1. CASE EndLoop \/ RequestStop \/ SystemTick \/ UNCHANGED sysVars
  BY <1>1, <1>n, AgreementQuiet
<1>2. CASE Poll
  BY <1>2, <1>n, AgreementPoll
<1>3. CASE Handle
  BY <1>3, <1>n, AgreementHandle, AgreementReplyAtOnce DEF Handle
<1>4. CASE ServeOn
  BY <1>4, <1>n, AgreementServeOn
<1>5. CASE Reply
  BY <1>5, <1>n, AgreementReply
<1>6. ASSUME NEW r \in sent, Arrive(r) \/ Vanish(r) PROVE AgreementInv'
  BY <1>6, <1>n, AgreementNetwork
<1>7. ASSUME NEW b \in Clients, LogIn(b) \/ Register(b) \/ Refresh(b) \/ LookUp(b)
      PROVE  AgreementInv'
  <2>1. PICK r : /\ Send(b, r)
                 /\ \/ browser[b].phase = "out" /\ r = Request(b, "login", Nil, Nil)
                    \/ /\ browser[b].phase = "registering"
                       /\ r = Request(b, "register", browser[b].id,
                                      Quoted(Proof(KeyOf[b], KeyOf[b], browser[b].challenge)))
                    \/ /\ browser[b].phase = "refreshing"
                       /\ r = Request(b, "refresh", browser[b].id,
                                      Quoted(Proof(KeyOf[b], Nil, browser[b].challenge)))
                    \/ browser[b].phase = "bound" /\ r = Request(b, "me", browser[b].id, Nil)
    BY <1>7, Zenon DEF LogIn, Register, Refresh, LookUp
  <2>2. browser' = [browser EXCEPT ![b].waiting = TRUE]
    BY <1>7, Zenon DEF LogIn, Register, Refresh, LookUp
  <2>3. OpenOK(r) /\ r.client = b /\ r.live
    BY <2>1, RequestsFit, Zenon
  <2> QED BY <2>1, <2>2, <2>3, AgreementSend, Zenon
<1>8. ASSUME NEW b \in Clients, NeedRefresh(b) \/ Abandon(b) PROVE AgreementInv'
  BY <1>8, AgreementNeedRefresh, AgreementAbandon
<1>9. ASSUME NEW a \in replies, Receive(a) PROVE AgreementInv'
  BY <1>9, AgreementReceive
<1> QED BY <1>1, <1>2, <1>3, <1>4, <1>5, <1>6, <1>7, <1>8, <1>9
        DEF SystemNext, Loop, BrowserSends

\* What the browsers are told and what the server holds stay in agreement.
THEOREM SystemAgreement == SystemSpec => [](SystemInv /\ AgreementInv)
BY SystemInvInit, SystemInvStep, AgreementInit, AgreementStep, PTL DEF SystemSpec

-----------------------------------------------------------------------------
\* All variables keep their types, and for every browser that waits there is
\* exactly one live request or answer: the wrapper answers every request it
\* takes, and answers it once.
THEOREM SystemTypeCorrect == SystemSpec => []SystemTypeOK
<1>1. SystemInv /\ AgreementInv => SystemTypeOK
  <2> SUFFICES ASSUME SystemInv, AgreementInv PROVE SystemTypeOK
    OBVIOUS
  <2>1. running \in BOOLEAN /\ looping \in BOOLEAN /\ Open \subseteq Requests
    BY DEF AgreementInv, OpenOK
  <2>2. browser \in [Clients -> BrowserStates]
    BY DEF SystemInv, BrowsersKnow
  <2>3. ASSUME NEW b \in Clients
        PROVE  Cardinality({r \in Open : r.client = b /\ r.live} \cup {a \in replies : a.client = b})
                 = IF browser[b].waiting THEN 1 ELSE 0
    <3> DEFINE All == Alive(sent, b) \cup Alive(arrived, b) \cup Alive(ready, b)
                        \cup Alive(InHand, b) \cup Answers(b)
    <3>1. {r \in Open : r.client = b /\ r.live} \cup {a \in replies : a.client = b} = All
      BY DEF Open, Alive, InHand, Answers
    <3>2. WaitOK(b)
      BY DEF AgreementInv, BrowserOK
    <3>3. CASE browser[b].waiting
      <4>1. PICK x : All = {x}
        BY <3>2, <3>3 DEF WaitOK, Single
      <4>2. Cardinality({x}) = 1
        BY FS_Singleton
      <4> QED BY <3>1, <3>3, <4>1, <4>2
    <3>4. CASE ~browser[b].waiting
      <4>1. All = {}
        BY <3>2, <3>4 DEF WaitOK, Vacant
      <4>2. Cardinality({}) = 0
        BY FS_EmptySet
      <4> HIDE DEF All
      <4> QED BY <3>1, <3>4, <4>1, <4>2
    <3> QED BY <3>3, <3>4
  <2> QED BY <2>1, <2>2, <2>3 DEF SystemTypeOK, BrowserStates
<1> QED BY <1>1, SystemAgreement, PTL

\* A browser that was told it is bound is right about it, for as long as its
\* session exists: no loss, no delay, no second request of its own and no
\* other browser binds that session to another key.
THEOREM BoundBrowsersAgree == SystemSpec => []BoundIsAgreed
<1>1. AgreementInv /\ KeyPinned => BoundIsAgreed
  BY DEF AgreementInv, BrowserOK, Acknowledged, KeyPinned, BoundIsAgreed
<1> QED BY <1>1, SystemAgreement, ServerKeyPinned, PTL

\* Behind the wrapper the challenge the last response announced is the one the
\* session expects.
THEOREM ServerAnnounced == SystemSpec => []AnnouncedChallengeIsCurrent
BY ServerImplementsManager, SerialAnnounced, OneWorker, PTL DEF ImplementsManager

-----------------------------------------------------------------------------
(***************************************************************************)
(* Who is turned away.  A refusal travels: it is a response of the manager,  *)
(* then an answer, and the session it was about may be read, written and     *)
(* expire meanwhile.  But a session that is gone stays gone, because         *)
(* opendbsc_manager_initiate takes no identifier twice.                      *)
(***************************************************************************)
Gone(id) == id \in usedIds /\ sessions[id] = Nil

Refusal(status) == status \in {400, 401}

\* Every refresh of a live request that is answered with a refusal, and every
\* refusal on its way to a refreshing browser, is of a session that is gone.
RefusalsOK ==
  spent.failed = 0 =>
    /\ /\ serving # Nil /\ serving.path = "refresh" /\ serving.live
       /\ pc[Server] = "idle" /\ Refusal(resp[Server].status)
       => Gone(serving.id)
    /\ \A a \in replies :
         Refusal(a.status) /\ browser[a.client].phase = "refreshing" => Gone(browser[a.client].id)

RefusalInv ==
  /\ spent \in [{"lost", "failed", "rounds"} -> Nat]
  /\ RefusalsOK

\* Whether the backend never reports an error.
ReliableStore == ~StoreMayFail

\* What is gone stays gone.
LEMMA GoneStays ==
  ASSUME ConcurrentInv, [Next]_vars
  PROVE  \A id \in Ids : Gone(id) => Gone(id)'
<1>t. TypeInv /\ StoreTypeOK /\ WorkerTypeOK /\ HistoryTypeOK /\ CallsHoldSessions
  BY DEF ConcurrentInv, TypeInv, TypeOK
<1>1. CASE UNCHANGED vars \/ ClockTick
  BY <1>1 DEF vars, storeVars, historyVars, ClockTick, Tick, Gone
<1>2. ASSUME NEW w \in Workers, WorkerStep(w), NEW i \in Ids, Gone(i) PROVE Gone(i)'
  <2>1. CASE Quits(w)
    BY <1>2, <2>1 DEF Quits, storeVars, historyVars, Gone
  <2>2. CASE Loads(w)
    <3>1. PICK id \in Ids, out \in Session \cup {Nil} : Get(id, out)
      BY <2>2 DEF Loads
    <3>2. \E v \in {sessions[id], Nil} : sessions' = [sessions EXCEPT ![id] = v]
      BY <3>1, <1>t, GetEffect
    <3> QED BY <1>2, <2>2, <3>2, <1>t DEF StoreTypeOK, Gone, Loads, historyVars
  <2>3. CASE \E u \in Users : Initiate(w, u)
    <3>1. PICK u \in Users, id \in Ids \ usedIds, c \in generate_challenge, ok \in BOOLEAN :
            InitiateStore(w, u, id, c, ok)
      BY <2>3 DEF Initiate, session_new_id
    <3> DEFINE s == NewSession(id, u, c, now)
    <3>2. s.id = id /\ Create(s, ok) /\ usedIds \subseteq usedIds'
      BY <3>1 DEF InitiateStore, NewSession
    <3> HIDE DEF s
    <3>3. \A j \in Ids \ {id} : sessions'[j] = sessions[j]
      BY <3>2, <1>t DEF Create, Torn, Put, StoreTypeOK
    <3> QED BY <1>2, <3>2, <3>3 DEF Gone
  <2>4. CASE RegisterBind(w) \/ RefreshExtend(w)
    <3>1. PICK s, e, c : Rotates(w, s, c, e)
      BY <2>4, <1>t, RotateEffect
    <3>2. s \in Session /\ s.id \in Ids /\ usedIds' = usedIds
      BY <3>1 DEF Rotates, Session
    <3>3. PICK ok \in BOOLEAN : Update(s, ok)
      BY <3>1 DEF Rotates
    <3>4. /\ \E v \in {sessions[s.id], s, Nil} : sessions' = [sessions EXCEPT ![s.id] = v]
          /\ sessions[s.id] = Nil => sessions' = sessions
      BY <3>2, <3>3, <1>t, WriteEffect
    <3> QED BY <1>2, <3>2, <3>4, <1>t DEF StoreTypeOK, Gone
  <2>5. CASE \E ok \in BOOLEAN : CloseDelete(w, ok)
    <3>1. PICK ok \in BOOLEAN : CloseDelete(w, ok)
      BY <2>5
    <3>2. /\ sessions' = sessions \/ sessions' = [sessions EXCEPT ![loaded[w].id] = Nil]
          /\ usedIds' = usedIds
      BY <3>1 DEF CloseDelete, Delete, Put
    <3> QED BY <1>2, <3>2, <1>t DEF StoreTypeOK, Gone
  <2> QED BY <1>t, <1>2, <2>1, <2>2, <2>3, <2>4, <2>5, StepKinds DEF Writes
<1> QED BY <1>1, <1>2 DEF Next

\* An acknowledged registration is of a generated identifier, and its session
\* is bound while it exists.
LEMMA AcknowledgedIsUsed ==
  ASSUME ConcurrentInv, KeyPinned, NEW id, NEW k, Acknowledged(id, k)
  PROVE  id \in Ids /\ id \in usedIds /\ (sessions[id] # Nil => sessions[id].state = "bound")
<1>1. PICK e \in events : e.type = "REGISTER" /\ e.session = id
  BY DEF Acknowledged
<1>2. e.session \in Ids /\ e.session \in usedIds
  BY DEF ConcurrentInv, IdsGenerated, TypeInv, TypeOK, HistoryTypeOK, Event
<1> QED BY <1>1, <1>2 DEF KeyPinned

\* A refresh of a browser that was told it is bound is refused at once only
\* when the store, which does not fail, no longer has the session.
LEMMA RefreshRefused ==
  ASSUME SystemInv, KeyPinned, ReliableStore, NEW id, NEW k, Acknowledged(id, k), NEW hdr,
         RefreshLoad(Server, id, hdr), pc'[Server] = "idle", Refusal(resp'[Server].status)
  PROVE  Gone(id)'
<1>1. id \in Ids /\ id \in usedIds /\ (sessions[id] # Nil => sessions[id].state = "bound")
  BY AcknowledgedIsUsed DEF SystemInv
<1>t. Server \in Workers /\ StoreTypeOK /\ WorkerTypeOK
  BY SystemAssumption DEF SystemInv, ConcurrentInv, TypeInv, TypeOK
<1>2. PICK out \in {sessions[id], Nil} :
        /\ Get(id, out)
        /\ \/ out = Nil
           \/ out # Nil /\ out.state # "bound"
           \/ Return(Server, ChallengeResponse(out), FALSE)
           \/ Proceed(Server, "refresh", out, hdr)
    BY Zenon DEF RefreshLoad
<1>3. usedIds' = usedIds
  BY DEF RefreshLoad, historyVars
<1>4. CASE out = Nil
  BY <1>1, <1>2, <1>3, <1>4, <1>t DEF Get, Put, ReliableStore, Gone, StoreTypeOK
<1>5. CASE out # Nil /\ out.state # "bound"
  BY <1>1, <1>5
<1>6. CASE Return(Server, ChallengeResponse(out), FALSE)
  <2>1. PICK leak \in {FALSE} : Return(Server, ChallengeResponse(out), leak)
    BY <1>6, Zenon
  <2>2. resp'[Server] = ChallengeResponse(out)
    BY <2>1, <1>t DEF Return, WorkerTypeOK
  <2>3. ChallengeResponse(out).status = 403
    BY DEF ChallengeResponse, Respond
  <2>4. 403 \notin {400, 401}
    OBVIOUS
  <2> QED BY <2>2, <2>3, <2>4 DEF Refusal
<1>7. CASE Proceed(Server, "refresh", out, hdr)
  BY <1>7, <1>t DEF Proceed, WorkerTypeOK
<1> QED BY <1>2, <1>4, <1>5, <1>6, <1>7

\* A bound that is used up further is a failure only if it is that of failures.
LEMMA SpendCounts ==
  ASSUME spent \in [{"lost", "failed", "rounds"} -> Nat],
         NEW what \in {"lost", "failed", "rounds"}, NEW max, Spend(what, max)
  PROVE  /\ spent' \in [{"lost", "failed", "rounds"} -> Nat]
         /\ spent'.failed = 0 => spent.failed = 0 /\ what # "failed"
BY DEF Spend

\* Failures are counted for good.
LEMMA FailuresStay ==
  ASSUME spent \in [{"lost", "failed", "rounds"} -> Nat], [SystemNext]_sysVars
  PROVE  /\ spent' \in [{"lost", "failed", "rounds"} -> Nat]
         /\ spent'.failed = 0 => spent.failed = 0
<1>1. \/ UNCHANGED spent
      \/ \E what \in {"lost", "failed", "rounds"} : \E max : Spend(what, max)
  <2>1. CASE Loop
    BY <2>1 DEF Loop, Poll, EndLoop, Handle, ServeOn, Reply, HandleDbsc, HandleLogin, ReplyAtOnce,
       Seen
  <2>2. ASSUME NEW b \in Clients, LogIn(b) \/ BrowserSends(b) \/ NeedRefresh(b) \/ LookUp(b)
                                  \/ Abandon(b)
        PROVE  UNCHANGED spent \/ \E what \in {"lost", "failed", "rounds"} :
                                    \E max : Spend(what, max)
    BY <2>2 DEF LogIn, BrowserSends, Register, Refresh, NeedRefresh, LookUp, Abandon
  <2>3. CASE RequestStop \/ SystemTick \/ UNCHANGED sysVars
    BY <2>3 DEF RequestStop, SystemTick, sysVars
  <2>4. ASSUME NEW r, Arrive(r) \/ Vanish(r) \/ Receive(r) PROVE UNCHANGED spent
    BY <2>4 DEF Arrive, Vanish, Receive
  <2> QED BY <2>1, <2>2, <2>3, <2>4 DEF SystemNext
<1> QED BY <1>1, SpendCounts

\* The refusals of the step of a handler, of a call and of the answer.
LEMMA RefusalStep ==
  ASSUME SystemInv, AgreementInv, KeyPinned, RefusalInv, ReliableStore, [SystemNext]_sysVars
  PROVE  RefusalInv'
<1>n. [Next]_vars
  BY StepIsManagerStep
<1>s. /\ spent \in [{"lost", "failed", "rounds"} -> Nat]
      /\ spent' \in [{"lost", "failed", "rounds"} -> Nat]
      /\ spent'.failed = 0 => spent.failed = 0
  BY FailuresStay DEF RefusalInv
<1> DEFINE Served == /\ serving # Nil /\ serving.path = "refresh" /\ serving.live
                     /\ pc[Server] = "idle" /\ Refusal(resp[Server].status)
                     => Gone(serving.id)
           Told(a) == Refusal(a.status) /\ browser[a.client].phase = "refreshing"
                        => Gone(browser[a.client].id)
<1>0. SUFFICES ASSUME spent'.failed = 0, spent.failed = 0
               PROVE  Served' /\ \A a \in replies' : Told(a)'
  BY <1>s DEF RefusalInv, RefusalsOK
<1>i. Served /\ \A a \in replies : Told(a)
  BY <1>0 DEF RefusalInv, RefusalsOK
<1>g. \A id : Gone(id) => Gone(id)'
  <2>1. \A id : Gone(id) => id \in Ids
    BY DEF Gone, SystemInv, ConcurrentInv, TypeInv, TypeOK, HistoryTypeOK
  <2> QED BY <2>1, <1>n, GoneStays DEF SystemInv
<1>t. Server \in Workers /\ WorkerTypeOK
  BY SystemAssumption DEF SystemInv, ConcurrentInv, TypeInv, TypeOK
<1>v. ASSUME UNCHANGED <<serving, pc, resp>> PROVE Served'
  BY <1>i, <1>g, <1>v
<1>a. ASSUME NEW a \in replies, browser'[a.client].phase = browser[a.client].phase,
             browser'[a.client].id = browser[a.client].id
      PROVE  Told(a)'
  BY <1>i, <1>g, <1>a
<1>b. \A a \in replies : a.client \in Clients
  BY DEF AgreementInv, AnsweredOK
<1> HIDE DEF Served, Told
<1>1. CASE Poll \/ EndLoop \/ RequestStop \/ SystemTick \/ UNCHANGED sysVars
  BY <1>1, <1>v, <1>a DEF Poll, EndLoop, RequestStop, SystemTick, ClockTick, sysVars, vars,
     workerVars, loopVars, netVars
<1>2. ASSUME NEW r \in sent, Arrive(r) \/ Vanish(r) PROVE Served' /\ \A a \in replies' : Told(a)'
  BY <1>2, <1>v, <1>a DEF Arrive, Vanish, vars, workerVars, loopVars
<1>3. ASSUME NEW r \in ready, HandleDbsc(r) PROVE Served' /\ \A a \in replies' : Told(a)'
  <2>1. UNCHANGED <<replies, browser>> /\ serving' = r
    BY <1>3 DEF HandleDbsc, Take, netVars
  <2>2. Served'
    <3>1. SUFFICES ASSUME r.path = "refresh", r.live, pc'[Server] = "idle",
                          Refusal(resp'[Server].status)
                   PROVE  Gone(r.id)'
      BY <2>1 DEF Served
    <3>2. PICK id \in {r.id, Nil}, proof \in {r.proof, Nil} :
            Seen(r, id, proof) /\ DbscCall(r.path, id, strip_quotes(proof))
      BY <1>3 DEF HandleDbsc
    <3>3. id = r.id
      BY <3>2, <1>0, <1>s, SpendCounts DEF Seen
    <3>4. OpenOK(r) /\ Match(r) /\ r.client \in Clients
      BY <3>1 DEF AgreementInv, Open, OpenOK, Requests
    <3>5. Acknowledged(r.id, KeyOf[r.client])
      BY <3>1, <3>4 DEF Match, AgreementInv, BrowserOK
    <3>6. r.id \in Ids
      BY <3>5, AcknowledgedIsUsed DEF SystemInv
    <3>7. r.id # Nil
      BY <3>6, NilAssumption
    <3>8. RefreshLoad(Server, r.id, strip_quotes(proof))
      BY <3>1, <3>2, <3>3, <3>7 DEF DbscCall
    <3> QED BY <3>1, <3>5, <3>8, RefreshRefused
  <2> QED BY <2>1, <2>2, <1>a
<1>4. ASSUME NEW r \in ready, HandleLogin(r) PROVE Served' /\ \A a \in replies' : Told(a)'
  <2>1. UNCHANGED <<replies, browser>> /\ serving' = r /\ r.path = "login"
    BY <1>4 DEF HandleLogin, Take, netVars
  <2> QED BY <2>1, <1>a DEF Served
<1>5. CASE ServeOn
  <2>1. UNCHANGED <<replies, browser, serving>> /\ serving # Nil
    BY <1>5 DEF ServeOn, loopVars, netVars
  <2>r. ASSUME NEW x, NEW leak, Return(Server, x, leak)
        PROVE  resp'[Server] = x
    BY <2>r, <1>t DEF Return, WorkerTypeOK
  <2>2. Served'
    <3>1. CASE RegisterReject(Server) \/ RegisterBind(Server)
      <4>1. serving.path = "register"
        BY <2>1, <3>1 DEF AgreementInv, ServingOK, RegisterReject, RegisterBind
      <4> QED BY <2>1, <4>1 DEF Served
    <3>2. CASE RefreshReject(Server)
      <4>1. PICK leak : Return(Server, ChallengeResponse(loaded[Server]), leak)
        BY <3>2, Zenon DEF RefreshReject
      <4>2. ChallengeResponse(loaded[Server]).status = 403
        BY DEF ChallengeResponse, Respond
      <4>3. resp'[Server] = ChallengeResponse(loaded[Server])
        BY <4>1, <2>r
      <4>4. ~Refusal(403)
        BY DEF Refusal
      <4> QED BY <4>2, <4>3, <4>4 DEF Served
    <3>3. CASE RefreshExtend(Server)
      <4>1. PICK c \in generate_challenge, ok \in BOOLEAN : RefreshStore(Server, c, ok)
        BY <3>3 DEF RefreshExtend
      <4> DEFINE s == Extended(loaded[Server], c, now)
      <4>2. PICK leak \in BOOLEAN : Return(Server, SuccessResponse(s), leak)
                                    \/ Return(Server, InternalError, leak)
        BY <4>1, Zenon DEF RefreshStore
      <4>3. SuccessResponse(s).status = 200 /\ InternalError.status = 0
        BY DEF SuccessResponse, InternalError, Respond
      <4>4. resp'[Server] = SuccessResponse(s) \/ resp'[Server] = InternalError
        <5> HIDE DEF s
        <5> QED BY <4>2, <2>r
      <4>5. ~Refusal(200) /\ ~Refusal(0)
        BY DEF Refusal
      <4> HIDE DEF s
      <4> QED BY <4>3, <4>4, <4>5 DEF Served
    <3>4. CASE RegisterNoChallenge(Server) \/ RefreshNoChallenge(Server)
      <4>1. resp'[Server].status = 0
        BY <3>4, NoChallengeEnds
      <4>2. ~Refusal(0)
        BY DEF Refusal
      <4> QED BY <4>1, <4>2 DEF Served
    <3> QED BY <1>5, <3>1, <3>2, <3>3, <3>4 DEF ServeOn
  <2> QED BY <2>1, <2>2, <1>a
<1>6. CASE Reply
  <2>1. /\ UNCHANGED <<pc, resp, browser>> /\ serving # Nil /\ serving' = Nil
        /\ pc[Server] = "idle"
    BY <1>6 DEF Reply, vars, workerVars
  <2>2. OpenOK(serving) /\ serving \in Requests
    BY <2>1 DEF AgreementInv, Open, OpenOK
  <2> DEFINE rs == resp[Server]
  <2>4. PICK a : /\ SendTo(serving, a) /\ a.client = serving.client
                 /\ a.status = StatusOf(serving.path, rs)
    <3> DEFINE x == Answer(serving.client, StatusOf(serving.path, rs), rs.session, rs.challenge)
    <3>1. ~Spend("failed", MaxFailed)
      BY <1>0, <1>s, SpendCounts
    <3>2. SendTo(serving, x)
      BY <1>6, <3>1 DEF Reply
    <3>3. x.client = serving.client /\ x.status = StatusOf(serving.path, rs)
      BY DEF Answer
    <3> HIDE DEF x
    <3> QED BY <3>2, <3>3
  <2>5. serving.live => Told(a)
    <3>1. SUFFICES ASSUME serving.live, Refusal(a.status),
                          browser[serving.client].phase = "refreshing"
                   PROVE  Gone(browser[serving.client].id)
      BY <2>4 DEF Told
    <3>2. serving.path = "refresh" /\ serving.id = browser[serving.client].id
      BY <3>1, <2>2 DEF OpenOK, Match, Requests, Paths
    <3>3. a.status = rs.status
      BY <2>4, <3>2 DEF StatusOf
    <3> QED BY <1>i, <2>1, <3>1, <3>2, <3>3 DEF Served
  <2>6. Told(a) => Told(a)'
    BY <2>1, <1>g DEF Told
  <2>7. replies' = replies \/ (serving.live /\ replies' = replies \cup {a})
    BY <2>2, <2>4, AnswersMove
  <2>8. Served'
    BY <2>1 DEF Served
  <2> QED BY <2>1, <2>5, <2>6, <2>7, <2>8, <1>a
<1>7. ASSUME NEW r \in ready, ReplyAtOnce(r) PROVE Served' /\ \A a \in replies' : Told(a)'
  <2>1. UNCHANGED <<pc, resp, browser, serving>>
    BY <1>7 DEF ReplyAtOnce, vars, workerVars
  <2>2. ~Spend("failed", MaxFailed)
    BY <1>0, <1>s, SpendCounts
  <2> DEFINE a == Answer(r.client, 401, Nil, Nil)
  <2>3. r.path = "login" /\ SendTo(r, a)
    BY <1>7, <2>2 DEF ReplyAtOnce
  <2>4. a.client = r.client
    BY DEF Answer
  <2> HIDE DEF a
  <2>5. OpenOK(r) /\ r \in Requests
    BY DEF AgreementInv, Open, OpenOK
  <2>6. r.live => Told(a)'
    BY <2>1, <2>3, <2>4, <2>5 DEF Told, OpenOK, Match
  <2>7. replies' = replies \/ (r.live /\ replies' = replies \cup {a})
    BY <2>3, <2>4, <2>5, AnswersMove
  <2> QED BY <2>1, <2>6, <2>7, <1>v, <1>a
<1>8. ASSUME NEW b \in Clients, LogIn(b) \/ Register(b) \/ Refresh(b) \/ LookUp(b)
      PROVE  Served' /\ \A a \in replies' : Told(a)'
  <2>1. /\ UNCHANGED <<pc, resp, serving, replies>>
        /\ browser' = [browser EXCEPT ![b].waiting = TRUE]
    BY <1>8 DEF LogIn, Register, Refresh, LookUp, Send, vars, workerVars, loopVars
  <2>2. \A c \in Clients : browser'[c].phase = browser[c].phase /\ browser'[c].id = browser[c].id
    BY <2>1 DEF SystemInv, BrowsersKnow, BrowserStates
  <2> QED BY <2>1, <2>2, <1>a, <1>b, <1>v
<1>9. ASSUME NEW b \in Clients, NeedRefresh(b) PROVE Served' /\ \A a \in replies' : Told(a)'
  <2>1. /\ UNCHANGED <<pc, resp, serving, replies>> /\ ~browser[b].waiting
        /\ browser' = [browser EXCEPT ![b].phase = "refreshing"]
    BY <1>9 DEF NeedRefresh, vars, workerVars, loopVars, netVars
  <2>2. \A c \in Clients \ {b} : browser'[c] = browser[c]
    BY <2>1 DEF SystemInv, BrowsersKnow
  <2>3. \A a \in replies : a.client # b
    BY <2>1 DEF AgreementInv, BrowserOK, WaitOK, Vacant, Answers
  <2> QED BY <2>1, <2>2, <2>3, <1>a, <1>b, <1>v
<1>10. ASSUME NEW x \in replies, Receive(x) PROVE Served' /\ \A a \in replies' : Told(a)'
  <2>1. /\ UNCHANGED <<pc, resp, serving>> /\ replies' = replies \ {x}
        /\ browser' = [browser EXCEPT ![x.client] = After(browser[x.client], x)]
    BY <1>10 DEF Receive, vars, workerVars, loopVars
  <2>2. \A c \in Clients \ {x.client} : browser'[c] = browser[c]
    BY <2>1 DEF SystemInv, BrowsersKnow
  <2>3. \A a \in replies' : a.client # x.client
    <3>1. x.client \in Clients /\ x \in Answers(x.client) /\ BrowsersKnow /\ WaitOK(x.client)
      BY <1>b DEF Answers, SystemInv, AgreementInv, BrowserOK
    <3>2. Answers(x.client) = {x}
      BY <3>1, PendingWaits, SingleIs
    <3> QED BY <2>1, <3>2 DEF Answers
  <2> QED BY <2>1, <2>2, <2>3, <1>a, <1>b, <1>v
<1>11. ASSUME NEW b \in Clients, Abandon(b) PROVE Served' /\ \A a \in replies' : Told(a)'
  <2>1. /\ UNCHANGED <<pc, resp>> /\ replies' \subseteq replies
        /\ \A a \in replies' : a.client # b
        /\ browser' = [browser EXCEPT ![b].waiting = FALSE]
        /\ serving' = IF serving = Nil THEN Nil ELSE Abandoned(b, serving)
    BY <1>11 DEF Abandon, vars, workerVars
  <2>2. \A c \in Clients \ {b} : browser'[c] = browser[c]
    BY <2>1 DEF SystemInv, BrowsersKnow
  <2>3. serving' = serving \/ ~serving'.live
    BY <2>1, AbandonedIs DEF AgreementInv, Open
  <2>4. Served'
    BY <2>1, <2>3, <1>v DEF Served
  <2> QED BY <2>1, <2>2, <2>4, <1>a, <1>b
<1> QED BY <1>1, <1>2, <1>3, <1>4, <1>5, <1>6, <1>7, <1>8, <1>9, <1>10, <1>11
        DEF SystemNext, Loop, Handle, BrowserSends

\* Only an answer that refuses makes a refreshing browser give up.
LEMMA RefusalEndsSession ==
  ASSUME SystemInv, AgreementInv, [SystemNext]_sysVars, NEW b \in Clients,
         browser[b].phase = "refreshing", browser'[b].phase = "out"
  PROVE  \E a \in replies : a.client = b /\ Refusal(a.status)
<1>1. browser \in [Clients -> BrowserStates]
  BY DEF SystemInv, BrowsersKnow
<1>2. CASE UNCHANGED browser
  BY <1>2
<1>3. ASSUME NEW c \in Clients, LogIn(c) \/ BrowserSends(c) \/ NeedRefresh(c) \/ LookUp(c)
                                \/ Abandon(c)
      PROVE  FALSE
  <2>1. \/ browser' = [browser EXCEPT ![c].waiting = TRUE]
        \/ browser' = [browser EXCEPT ![c].waiting = FALSE]
        \/ browser' = [browser EXCEPT ![c].phase = "refreshing"]
    BY <1>3 DEF LogIn, BrowserSends, Register, Refresh, NeedRefresh, LookUp, Abandon
  <2> QED BY <2>1, <1>1 DEF BrowserStates
<1>4. ASSUME NEW a \in replies, Receive(a) PROVE a.client = b /\ Refusal(a.status)
  <2>1. browser' = [browser EXCEPT ![a.client] = After(browser[a.client], a)]
    BY <1>4 DEF Receive
  <2>2. a.client = b
    BY <2>1, <1>1
  <2> DEFINE st == browser[b]
             given == IF a.challenge = Nil THEN st.challenge ELSE a.challenge
             idle == [st EXCEPT !.waiting = FALSE, !.challenge = given]
  <2>3. After(st, a).phase = "out"
    BY <2>1, <2>2, <1>1
  <2>4. After(st, a) =
          CASE st.phase = "out" /\ a.status = 200 ->
                 [idle EXCEPT !.phase = "registering", !.id = a.id]
            [] st.phase \in {"registering", "refreshing"} /\ a.status = 200 ->
                 [idle EXCEPT !.phase = "bound"]
            [] st.phase # "out" /\ a.status \in {400, 401} ->
                 [idle EXCEPT !.phase = "out", !.id = Nil, !.challenge = Nil]
            [] OTHER -> idle
    BY Zenon DEF After
  <2>5. idle.phase = "refreshing" /\ [idle EXCEPT !.phase = "bound"].phase = "bound"
    BY <1>1 DEF BrowserStates
  <2> HIDE DEF idle, given
  <2>6. ~Refusal(a.status) => After(st, a) = idle \/ After(st, a) = [idle EXCEPT !.phase = "bound"]
    BY <2>4 DEF Refusal
  <2> QED BY <2>2, <2>3, <2>5, <2>6
<1>5. CASE Loop \/ RequestStop \/ SystemTick \/ UNCHANGED sysVars
  BY <1>2, <1>5 DEF Loop, Handle, Poll, EndLoop, HandleDbsc, HandleLogin, ReplyAtOnce, ServeOn,
     Reply, RequestStop, SystemTick, sysVars
<1>6. ASSUME NEW r \in sent, Arrive(r) \/ Vanish(r) PROVE UNCHANGED browser
  BY <1>6 DEF Arrive, Vanish
<1> QED BY <1>2, <1>3, <1>4, <1>5, <1>6 DEF SystemNext

\* With a store that does not fail, and as long as no allocation of the wrapper
\* fails, a refreshing browser is turned away only when its session no longer
\* exists: no loss, delay or repetition of requests costs it a live session.
THEOREM RefusedMeansGone == SystemSpec /\ ReliableStore => RefusedOnlyWhenGone
<1> DEFINE Inv == SystemInv /\ AgreementInv /\ KeyPinned /\ RefusalInv /\ ReliableStore
           Step == \A b \in Clients :
                     /\ spent.failed = 0
                     /\ browser[b].phase = "refreshing"
                     /\ browser'[b].phase = "out"
                     => sessions[browser[b].id] = Nil
<1>1. SystemInit => RefusalInv
  <2> SUFFICES ASSUME SystemInit PROVE RefusalInv
    OBVIOUS
  <2>1. spent \in [{"lost", "failed", "rounds"} -> Nat] /\ serving = Nil /\ replies = {}
    BY DEF SystemInit
  <2> QED BY <2>1 DEF RefusalInv, RefusalsOK
<1>2. SystemInv /\ AgreementInv /\ KeyPinned /\ RefusalInv /\ ReliableStore /\ [SystemNext]_sysVars
        => RefusalInv'
  BY RefusalStep
<1>3. ReliableStore => ReliableStore'
  BY DEF ReliableStore
<1>4. Inv /\ [SystemNext]_sysVars => [Step]_sysVars
  <2> SUFFICES ASSUME Inv, [SystemNext]_sysVars, NEW b \in Clients, spent.failed = 0,
                      browser[b].phase = "refreshing", browser'[b].phase = "out"
               PROVE  sessions[browser[b].id] = Nil
    OBVIOUS
  <2>1. PICK a \in replies : a.client = b /\ Refusal(a.status)
    BY RefusalEndsSession
  <2> QED BY <2>1 DEF RefusalInv, RefusalsOK, Gone
<1>5. SystemSpec /\ ReliableStore => []Inv
  <2>1. ReliableStore => []ReliableStore
    BY <1>3, PTL
  <2> QED BY <1>1, <1>2, <2>1, SystemAgreement, ServerKeyPinned, PTL DEF SystemSpec
<1> HIDE DEF Inv
<1> QED BY <1>4, <1>5, PTL DEF SystemSpec, RefusedOnlyWhenGone

-----------------------------------------------------------------------------
(***************************************************************************)
(* Who is turned away while it registers.  The server does not know who      *)
(* makes a request: that the key it holds is the browser's own rests on      *)
(* identifiers.  opendbsc_manager_initiate takes none twice and every        *)
(* response goes to whoever asked, so no two browsers ever have the same     *)
(* one, in a request that was given up included.  And a registration that    *)
(* got through is answered with 200, so a browser that is refused all the    *)
(* same has lost that answer.                                                *)
(***************************************************************************)

\* Browser b has identifier id: it keeps it, a request of its names it, given
\* up or not, or it is in an answer to it, sent or not.
Holds(b, id) ==
  \/ browser[b].id = id
  \/ \E r \in Open : r.client = b /\ r.id = id
  \/ \E a \in replies : a.client = b /\ a.id = id
  \/ serving # Nil /\ serving.client = b /\ pc[Server] = "idle" /\ resp[Server].session = id

\* No two browsers have the same identifier, and all were generated.
HeldApart ==
  \A b \in Clients : \A id \in Ids :
    Holds(b, id) => id \in usedIds /\ \A c \in Clients : Holds(c, id) => c = b

\* The copy of a refresh, too, is of the session its request names.
CallOfRequest ==
  serving # Nil /\ pc[Server] = "refresh" => loaded[Server].id = serving.id

\* A registration of session id was acknowledged.
Reported(id) == \E e \in events : e.type = "REGISTER" /\ e.session = id

\* A bound session was acknowledged: the store, which does not fail, keeps
\* nothing else.
BoundIsReported ==
  \A id \in Ids : sessions[id] # Nil /\ sessions[id].state = "bound" => Reported(id)

\* It was acknowledged with the key of the browser that has the identifier.
KeyOfHolder ==
  \A e \in events : \A b \in Clients :
    e.type = "REGISTER" /\ Holds(b, e.session) => e.key = KeyOf[b]

\* A login that succeeds gives an identifier.
LoginsOK ==
  /\ serving # Nil /\ serving.path = "login" /\ pc[Server] = "idle" /\ resp[Server].rc = 0
       => resp[Server].session \in Ids
  /\ \A a \in replies : browser[a.client].phase = "out" /\ a.status = 200 => a.id \in Ids
  /\ \A b \in Clients : browser[b].phase = "registering" => browser[b].id \in Ids

\* Browser b is about to be told that its registration succeeded.
Succeeds(b) ==
  \/ /\ serving # Nil /\ serving.client = b /\ serving.path = "register" /\ serving.live
     /\ pc[Server] = "idle" /\ resp[Server].status = 200
  \/ \E a \in replies : a.client = b /\ a.status = 200

\* As long as nothing is lost, every request has its browser waiting, nobody
\* registers what it has not been given, and who has registered will hear of it.
NothingLost ==
  spent.lost = 0 /\ spent.failed = 0 =>
    /\ \A r \in Open : r.live
    /\ serving # Nil /\ serving.path = "login" /\ pc[Server] = "idle"
         => ~Reported(resp[Server].session)
    /\ \A a \in replies : browser[a.client].phase = "out" => ~Reported(a.id)
    /\ \A b \in Clients :
         browser[b].phase = "registering" /\ Reported(browser[b].id) => Succeeds(b)

\* The session is gone or bound: registering it is over for good.
Settled(id) == id \in usedIds /\ (sessions[id] # Nil => sessions[id].state = "bound")

\* RefusalsOK for registrations.
RegistrationsOK ==
  spent.failed = 0 =>
    /\ /\ serving # Nil /\ serving.path = "register" /\ serving.live
       /\ pc[Server] = "idle" /\ Refusal(resp[Server].status)
       => Settled(serving.id)
    /\ \A a \in replies :
         Refusal(a.status) /\ browser[a.client].phase = "registering"
           => Settled(browser[a.client].id)

HolderInv == HeldApart /\ CallOfRequest /\ KeyOfHolder /\ LoginsOK

RegistrationInv ==
  HolderInv /\ BoundIsReported /\ NothingLost /\ RegistrationsOK

-----------------------------------------------------------------------------
\* What a call that has begun answers, and which copy it took.
LEMMA CallAnswers ==
  ASSUME SystemInv, NEW path, NEW id \in Ids \cup {Nil}, NEW hdr, DbscCall(path, id, hdr)
  PROVE  /\ resp'[Server].session \in {Nil, id}
         /\ pc'[Server] = "refresh" => loaded'[Server].id = id
         /\ UNCHANGED historyVars
<1>t. Server \in Workers /\ StoreTypeOK /\ WorkerTypeOK
  BY SystemAssumption DEF SystemInv, ConcurrentInv, TypeInv, TypeOK
<1>r. ASSUME NEW x, NEW leak, Return(Server, x, leak), x.session \in {Nil, id}
      PROVE  pc'[Server] = "idle" /\ resp'[Server].session \in {Nil, id}
  BY <1>r, <1>t DEF Return, WorkerTypeOK
<1>p. ASSUME NEW step, NEW s, Proceed(Server, step, s, hdr)
      PROVE  /\ pc'[Server] = step /\ loaded'[Server] = s
             /\ resp'[Server].session \in {Nil, id}
  <2>1. EmptyResponse.session = Nil
    BY DEF EmptyResponse, Respond
  <2> QED BY <1>p, <1>t, <2>1 DEF Proceed, WorkerTypeOK
<1>s. /\ \A st : ErrorResponse(st).session = Nil
      /\ \A s : ChallengeResponse(s).session = s.id
      /\ \A s : LookupResponse(s).session = Nil
  BY DEF ErrorResponse, ChallengeResponse, LookupResponse, Respond
<1>h. UNCHANGED historyVars
  BY DEF DbscCall, RegisterMissingCookie, RegisterLoad, RefreshMissingId, RefreshLoad, GetSession
<1> DEFINE Answered == \E x, leak : Return(Server, x, leak) /\ x.session \in {Nil, id}
<1>a. ASSUME Answered PROVE resp'[Server].session \in {Nil, id} /\ pc'[Server] = "idle"
  BY <1>a, <1>r
<1>e. ASSUME NEW st, Return(Server, ErrorResponse(st), FALSE) PROVE Answered
  <2>1. ErrorResponse(st).session \in {Nil, id}
    BY <1>s, Zenon
  <2> QED BY <1>e, <2>1, Zenon
<1>c. ASSUME NEW out, out.id = id, Return(Server, ChallengeResponse(out), FALSE) PROVE Answered
  <2>1. ChallengeResponse(out).session \in {Nil, id}
    BY <1>c, <1>s, Zenon
  <2> QED BY <1>c, <2>1, Zenon
<1>l. ASSUME NEW out, Return(Server, LookupResponse(out), FALSE) PROVE Answered
  <2>1. LookupResponse(out).session \in {Nil, id}
    BY <1>s, Zenon
  <2> QED BY <1>l, <2>1, Zenon
<1>o. ASSUME NEW out \in {sessions[id], Nil}, id # Nil, out # Nil PROVE out.id = id
  BY <1>o, <1>t DEF StoreTypeOK
<1> HIDE DEF Answered
<1>1. Answered \/ \E step, out : Proceed(Server, step, out, hdr) /\ out.id = id
  <2>1. CASE RegisterMissingCookie(Server)
    BY <2>1, <1>e, Zenon DEF RegisterMissingCookie
  <2>2. CASE RefreshMissingId(Server)
    BY <2>2, <1>e, Zenon DEF RefreshMissingId
  <2>3. CASE id # Nil /\ RegisterLoad(Server, id, hdr)
    <3>1. PICK out \in {sessions[id], Nil} :
            \/ Return(Server, ErrorResponse(401), FALSE)
            \/ Return(Server, ErrorResponse(400), FALSE)
            \/ out # Nil /\ Return(Server, ChallengeResponse(out), FALSE)
            \/ out # Nil /\ Proceed(Server, "register", out, hdr)
      BY <2>3, Zenon DEF RegisterLoad
    <3> QED BY <2>3, <3>1, <1>e, <1>c, <1>o, ZenonT(30)
  <2>4. CASE id # Nil /\ RefreshLoad(Server, id, hdr)
    <3>1. PICK out \in {sessions[id], Nil} :
            \/ Return(Server, ErrorResponse(401), FALSE)
            \/ Return(Server, ErrorResponse(400), FALSE)
            \/ out # Nil /\ Return(Server, ChallengeResponse(out), FALSE)
            \/ out # Nil /\ Proceed(Server, "refresh", out, hdr)
      BY <2>4, Zenon DEF RefreshLoad
    <3> QED BY <2>4, <3>1, <1>e, <1>c, <1>o, ZenonT(30)
  <2>5. CASE GetSession(Server, id)
    BY <2>5, <1>l, Zenon DEF GetSession
  <2> QED BY <2>1, <2>2, <2>3, <2>4, <2>5, Zenon DEF DbscCall
<1>2. CASE Answered
  BY <1>2, <1>a, <1>h
<1>3. CASE \E step, out : Proceed(Server, step, out, hdr) /\ out.id = id
  BY <1>3, <1>p, <1>h
<1> QED BY <1>1, <1>2, <1>3

\* What a call that goes on answers, and what it reports.
LEMMA CallEnds ==
  ASSUME SystemInv, AgreementInv, CallOfRequest, ServeOn
  PROVE  /\ serving # Nil /\ pc'[Server] = "idle"
         /\ resp'[Server].session \in {Nil, serving.id}
         /\ usedIds' = usedIds
         /\ \A e \in events' : e.type = "REGISTER" =>
              \/ e \in events
              \/ /\ serving.path = "register" /\ pc[Server] = "register"
                 /\ e.session = serving.id /\ e.key = KeyOf[serving.client]
                 /\ resp'[Server].status = 200
<1>t. Server \in Workers /\ StoreTypeOK /\ WorkerTypeOK /\ CallsHoldSessions /\ TypeInv
  BY SystemAssumption DEF SystemInv, ConcurrentInv, TypeInv, TypeOK
<1>0. serving # Nil /\ ServingOK /\ OpenOK(serving)
  BY DEF ServeOn, AgreementInv, Open
<1>r. ASSUME NEW x, NEW leak, Return(Server, x, leak)
      PROVE  pc'[Server] = "idle" /\ resp'[Server] = x
  BY <1>r, <1>t DEF Return, WorkerTypeOK
<1>s. /\ \A s : ChallengeResponse(s).session = s.id
      /\ \A s : SuccessResponse(s).session = s.id /\ SuccessResponse(s).status = 200
      /\ InternalError.session = Nil
  BY DEF ChallengeResponse, SuccessResponse, InternalError, Respond
<1>i. pc[Server] \in {"register", "refresh"} => loaded[Server].id = serving.id
  BY <1>0 DEF ServingOK, CallOfRequest
<1>1. CASE RegisterReject(Server) \/ RefreshReject(Server)
  <2>1. PICK leak : Return(Server, ChallengeResponse(loaded[Server]), leak)
    BY <1>1, Zenon DEF RegisterReject, RefreshReject
  <2>2. UNCHANGED <<usedIds, events>> /\ pc[Server] \in {"register", "refresh"}
    BY <1>1 DEF RegisterReject, RefreshReject, historyVars
  <2>3. pc'[Server] = "idle" /\ resp'[Server] = ChallengeResponse(loaded[Server])
    BY <2>1, <1>r
  <2>4. ChallengeResponse(loaded[Server]).session = serving.id
    BY <1>i, <1>s, <2>2
  <2> QED BY <1>0, <2>2, <2>3, <2>4
<1>2. CASE RefreshExtend(Server)
  <2>1. PICK s, e, c : Rotates(Server, s, c, e)
    BY <1>2, <1>t, RotateEffect
  <2>2. pc[Server] = "refresh" /\ loaded[Server].state = "bound"
    BY <1>2, <1>t DEF RefreshExtend, CallsHoldSessions
  <2>3. s.id = serving.id /\ e.type # "REGISTER" /\ usedIds' = usedIds
    BY <1>i, <2>1, <2>2 DEF Rotates
  <2>4. \A f \in events' : f = e \/ f \in events
    BY <2>1 DEF Rotates
  <2>5. PICK x \in {SuccessResponse(s), InternalError}, leak \in BOOLEAN :
          Return(Server, x, leak)
    BY <2>1, Zenon DEF Rotates
  <2>6. x.session \in {Nil, serving.id}
    <3>1. SuccessResponse(s).session = s.id /\ InternalError.session = Nil
      BY <1>s
    <3> QED BY <2>3, <2>5, <3>1
  <2> QED BY <1>0, <1>r, <2>3, <2>4, <2>5, <2>6
<1>3. CASE RegisterBind(Server)
  <2> DEFINE t == header[Server]
  <2>1. PICK c \in generate_challenge, ok \in BOOLEAN : RegisterStore(Server, c, ok)
    BY <1>3 DEF RegisterBind
  <2> DEFINE s == Bound(loaded[Server], t.jwk, t.algorithm, c, now)
             e == [type |-> "REGISTER", session |-> s.id, key |-> t.jwk,
                   signer |-> t.signer, jti |-> t.challenge, next |-> c]
  <2>2. /\ serving.path = "register" /\ pc[Server] = "register"
        /\ loaded[Server].id = serving.id /\ t = serving.proof.value
    BY <1>3, <1>0 DEF RegisterBind, ServingOK
  <2>3. t.jwk = KeyOf[serving.client]
    BY <2>2, <1>0 DEF OpenOK
  <2>4. s.id = serving.id
    <3>1. loaded[Server] \in Session
      BY <2>2, <1>t DEF WorkerTypeOK, CallsHoldSessions
    <3> QED BY <2>2, <3>1 DEF Bound, Session
  <2>5. /\ usedIds' = usedIds
        /\ \/ emit_event("REGISTER", s.id, t.jwk, t.signer, t.challenge, c)
              /\ Return(Server, SuccessResponse(s), FALSE)
           \/ UNCHANGED events /\ Return(Server, InternalError, FALSE)
    BY <2>1, Zenon DEF RegisterStore
  <2>6. e.session = s.id /\ e.key = t.jwk
    OBVIOUS
  <2>7. CASE emit_event("REGISTER", s.id, t.jwk, t.signer, t.challenge, c)
             /\ Return(Server, SuccessResponse(s), FALSE)
    <3>1. events' = events \cup {e}
      BY <2>7 DEF emit_event
    <3> HIDE DEF s, e
    <3>2. PICK no \in {FALSE} : Return(Server, SuccessResponse(s), no)
      BY <2>7, Zenon
    <3>3. pc'[Server] = "idle" /\ resp'[Server] = SuccessResponse(s)
      BY <3>2, <1>r
    <3>4. SuccessResponse(s).session = serving.id /\ SuccessResponse(s).status = 200
      BY <1>s, <2>4
    <3> QED BY <1>0, <2>2, <2>3, <2>4, <2>5, <2>6, <3>1, <3>3, <3>4
  <2>8. CASE UNCHANGED events /\ Return(Server, InternalError, FALSE)
    <3>1. PICK no \in {FALSE} : Return(Server, InternalError, no)
      BY <2>8, Zenon
    <3>2. pc'[Server] = "idle" /\ resp'[Server] = InternalError
      BY <3>1, <1>r
    <3> QED BY <1>0, <1>s, <2>5, <2>8, <3>2
  <2> QED BY <2>5, <2>7, <2>8
<1>4. CASE RegisterNoChallenge(Server) \/ RefreshNoChallenge(Server)
  BY <1>0, <1>4, NoChallengeEnds
<1> QED BY <1>1, <1>2, <1>3, <1>4 DEF ServeOn

\* What a login answers: a new identifier, or nothing.
LEMMA LoginAnswers ==
  ASSUME SystemInv, NEW r, HandleLogin(r)
  PROVE  /\ pc'[Server] = "idle"
         /\ resp'[Server].rc = 0 => resp'[Server].session \in Ids
         /\ resp'[Server].session # Nil =>
              resp'[Server].session \in Ids \ usedIds /\ resp'[Server].session \in usedIds'
         /\ usedIds \subseteq usedIds'
         /\ \A e \in events' : e.type = "REGISTER" => e \in events
<1>t. Server \in Workers /\ WorkerTypeOK
  BY SystemAssumption DEF SystemInv, ConcurrentInv, TypeInv, TypeOK
<1>r. ASSUME NEW x, NEW leak, Return(Server, x, leak)
      PROVE  pc'[Server] = "idle" /\ resp'[Server] = x
  BY <1>r, <1>t DEF Return, WorkerTypeOK
<1>f. ASSUME InitiateFails(Server)
      PROVE  /\ pc'[Server] = "idle" /\ resp'[Server] = InternalError
             /\ UNCHANGED <<usedIds, events>>
  <2>1. PICK leak : Return(Server, InternalError, leak)
    BY <1>f, Zenon DEF InitiateFails
  <2> QED BY <1>f, <1>r, <2>1 DEF InitiateFails, historyVars
<1>g. InternalError.session = Nil /\ InternalError.rc = -1
  BY DEF InternalError, Respond
<1> SUFFICES ASSUME \E u \in Users : Initiate(Server, u)
             PROVE  /\ pc'[Server] = "idle"
                    /\ resp'[Server].rc = 0 => resp'[Server].session \in Ids
                    /\ resp'[Server].session # Nil =>
                         /\ resp'[Server].session \in Ids \ usedIds
                         /\ resp'[Server].session \in usedIds'
                    /\ usedIds \subseteq usedIds'
                    /\ \A f \in events' : f.type = "REGISTER" => f \in events
  BY <1>f, <1>g DEF HandleLogin
<1>1. PICK u \in Users, id \in Ids \ usedIds, c \in generate_challenge, ok \in BOOLEAN :
        InitiateStore(Server, u, id, c, ok)
  BY DEF Initiate, session_new_id
<1> DEFINE s == NewSession(id, u, c, now)
           e == [type |-> "LOGIN", session |-> id, key |-> Nil, signer |-> Nil, jti |-> Nil,
                 next |-> c]
<1>2. /\ usedIds' = usedIds \cup {id}
      /\ \/ events' = events \cup {e} \/ UNCHANGED events
      /\ \E x \in {LoginResponse(s), InternalError}, leak \in BOOLEAN : Return(Server, x, leak)
  BY <1>1, Zenon DEF InitiateStore, emit_event
<1>3. LoginResponse(s).session = id /\ InternalError.session = Nil /\ InternalError.rc = -1
  BY DEF LoginResponse, InternalError, Respond, NewSession
<1>4. e.type # "REGISTER"
  OBVIOUS
<1> HIDE DEF s, e
<1>5. PICK x \in {LoginResponse(s), InternalError}, leak \in BOOLEAN : Return(Server, x, leak)
  BY <1>2
<1>6. pc'[Server] = "idle" /\ resp'[Server] = x
  BY <1>5, <1>r
<1>7. resp'[Server].rc = 0 => resp'[Server].session \in Ids
  BY <1>3, <1>5, <1>6
<1>8. resp'[Server].session # Nil => resp'[Server].session = id
  BY <1>3, <1>5, <1>6
<1> QED BY <1>2, <1>4, <1>6, <1>7, <1>8

\* An answer leaves a browser its identifier, takes it away, or gives it the
\* one in the answer; only a login gives one.
LEMMA AfterHolds ==
  ASSUME NEW st \in BrowserStates, NEW a
  PROVE  /\ After(st, a).id \in {st.id, a.id, Nil}
         /\ After(st, a).phase = "registering" =>
              \/ st.phase = "out" /\ a.status = 200 /\ After(st, a).id = a.id
              \/ st.phase = "registering" /\ a.status # 200 /\ After(st, a).id = st.id
<1> DEFINE given == IF a.challenge = Nil THEN st.challenge ELSE a.challenge
           idle == [st EXCEPT !.waiting = FALSE, !.challenge = given]
           granted == st.phase = "out" /\ a.status = 200
           bound == st.phase \in {"registering", "refreshing"} /\ a.status = 200
           refused == st.phase # "out" /\ a.status \in {400, 401}
<1>1. After(st, a) =
        CASE granted -> [idle EXCEPT !.phase = "registering", !.id = a.id]
          [] bound   -> [idle EXCEPT !.phase = "bound"]
          [] refused -> [idle EXCEPT !.phase = "out", !.id = Nil, !.challenge = Nil]
          [] OTHER   -> idle
  BY Zenon DEF After, idle
<1>2. ~(granted /\ bound) /\ ~(granted /\ refused) /\ ~(bound /\ refused)
  OBVIOUS
<1> DEFINE any == [phase: {"out", "registering", "bound", "refreshing"}, id: Ids \cup {Nil},
                   challenge: {given}, waiting: BOOLEAN]
<1>3. idle \in any /\ idle.phase = st.phase /\ idle.id = st.id
  <2>1. PICK no \in {FALSE} : idle = [st EXCEPT !.waiting = no, !.challenge = given]
    BY Zenon
  <2> HIDE DEF given, idle
  <2> QED BY <2>1 DEF BrowserStates
<1>4. granted => st.phase = "out" /\ a.status = 200
  OBVIOUS
<1>5. ~bound /\ st.phase = "registering" => a.status # 200
  OBVIOUS
<1> HIDE DEF idle, granted, bound, refused, given
<1>6. \/ granted /\ After(st, a) = [idle EXCEPT !.phase = "registering", !.id = a.id]
      \/ bound /\ After(st, a) = [idle EXCEPT !.phase = "bound"]
      \/ refused /\ After(st, a) = [idle EXCEPT !.phase = "out", !.id = Nil, !.challenge = Nil]
      \/ ~bound /\ After(st, a) = idle
  BY <1>1, <1>2
<1>7. CASE granted /\ After(st, a) = [idle EXCEPT !.phase = "registering", !.id = a.id]
  BY <1>3, <1>4, <1>7
<1>8. CASE bound /\ After(st, a) = [idle EXCEPT !.phase = "bound"]
  BY <1>3, <1>8
<1>9. CASE refused /\ After(st, a) = [idle EXCEPT !.phase = "out", !.id = Nil, !.challenge = Nil]
  BY <1>3, <1>9
<1>10. CASE ~bound /\ After(st, a) = idle
  BY <1>3, <1>5, <1>10
<1> QED BY <1>6, <1>7, <1>8, <1>9, <1>10

\* What a step does to who has which identifier: nothing, or browser c gets one
\* nobody had.
Gives(c, new) ==
  /\ new \notin usedIds
  /\ \A b \in Clients : \A id \in Ids :
       Holds(b, id)' => Holds(b, id) \/ (b = c /\ id = new /\ id \in usedIds')

\* Every step gives at most one browser an identifier, and a new one.
LEMMA HoldersStep ==
  ASSUME SystemInv, AgreementInv, CallOfRequest, [SystemNext]_sysVars
  PROVE  \E c, new : Gives(c, new)
<1>h. Nil \notin usedIds /\ Nil \notin Ids
  BY NilAssumption DEF SystemInv, ConcurrentInv, TypeInv, TypeOK, HistoryTypeOK
<1>s. ASSUME \A b \in Clients : \A id \in Ids : Holds(b, id)' => Holds(b, id)
      PROVE  \E c, new : Gives(c, new)
  <2>1. Gives(Nil, Nil)
    BY <1>s, <1>h DEF Gives
  <2> QED BY <2>1
<1>b. browser \in [Clients -> BrowserStates]
  BY DEF SystemInv, BrowsersKnow
<1>1. CASE Poll \/ EndLoop \/ RequestStop \/ SystemTick \/ UNCHANGED sysVars
  <2>1. UNCHANGED <<browser, replies, serving, pc, resp>> /\ Open' = Open
    BY <1>1 DEF Poll, EndLoop, RequestStop, SystemTick, ClockTick, sysVars, vars, workerVars,
       loopVars, netVars, Open
  <2> QED BY <2>1, <1>s DEF Holds
<1>2. ASSUME NEW r \in sent, Arrive(r) \/ Vanish(r) PROVE \E c, new : Gives(c, new)
  <2>1. UNCHANGED <<browser, replies, serving, pc, resp>> /\ Open' \subseteq Open
    BY <1>2 DEF Arrive, Vanish, vars, workerVars, loopVars, Open
  <2> QED BY <2>1, <1>s DEF Holds
<1>3. ASSUME NEW r \in ready, HandleDbsc(r) PROVE \E c, new : Gives(c, new)
  <2>1. UNCHANGED <<browser, replies>> /\ serving' = r /\ r \in Open /\ Open' \subseteq Open
    BY <1>3 DEF HandleDbsc, Take, netVars, Open
  <2>2. PICK id \in {r.id, Nil}, proof \in {r.proof, Nil} :
          DbscCall(r.path, id, strip_quotes(proof))
    BY <1>3 DEF HandleDbsc
  <2>3. id \in Ids \cup {Nil}
    BY <2>1 DEF AgreementInv, OpenOK, Requests
  <2>4. resp'[Server].session \in {Nil, r.id}
    BY <2>2, <2>3, CallAnswers
  <2>5. ASSUME NEW b \in Clients, NEW i \in Ids, Holds(b, i)' PROVE Holds(b, i)
    BY <2>1, <2>4, <2>5, <1>h DEF Holds
  <2> QED BY <2>5, <1>s
<1>4. ASSUME NEW r \in ready, HandleLogin(r) PROVE \E c, new : Gives(c, new)
  <2>1. UNCHANGED <<browser, replies>> /\ serving' = r /\ Open' \subseteq Open
    BY <1>4 DEF HandleLogin, Take, netVars, Open
  <2> DEFINE new == resp'[Server].session
  <2>2. new # Nil => new \in Ids \ usedIds /\ new \in usedIds'
    BY <1>4, LoginAnswers
  <2>3. ASSUME NEW b \in Clients, NEW i \in Ids, Holds(b, i)'
        PROVE  Holds(b, i) \/ (b = r.client /\ i = new)
    BY <2>1, <2>3 DEF Holds
  <2> HIDE DEF new
  <2>4. Gives(r.client, new)
    BY <2>2, <2>3, <1>h DEF Gives
  <2> QED BY <2>4
<1>5. CASE ServeOn
  <2>1. UNCHANGED <<browser, replies, serving>> /\ serving # Nil /\ Open' = Open /\ serving \in Open
    BY <1>5 DEF ServeOn, loopVars, netVars, Open
  <2>2. resp'[Server].session \in {Nil, serving.id}
    BY <1>5, CallEnds
  <2>3. ASSUME NEW b \in Clients, NEW i \in Ids, Holds(b, i)' PROVE Holds(b, i)
    BY <2>1, <2>2, <2>3, <1>h DEF Holds
  <2> QED BY <2>3, <1>s
<1>6. CASE Reply
  <2>1. /\ UNCHANGED <<browser, pc, resp>> /\ serving # Nil /\ serving' = Nil
        /\ pc[Server] = "idle" /\ Open' \subseteq Open
    BY <1>6 DEF Reply, vars, workerVars, Open
  <2> DEFINE rs == resp[Server]
             good == Answer(serving.client, StatusOf(serving.path, rs), rs.session, rs.challenge)
             bad == Answer(serving.client, 500, Nil, Nil)
  <2>2. replies' \subseteq replies \cup {good} \/ replies' \subseteq replies \cup {bad}
    BY <1>6, Zenon DEF Reply, SendTo
  <2>3. good.client = serving.client /\ good.id = rs.session /\ bad.id = Nil
    BY DEF Answer
  <2> HIDE DEF good, bad
  <2>4. ASSUME NEW b \in Clients, NEW i \in Ids, Holds(b, i)' PROVE Holds(b, i)
    BY <2>1, <2>2, <2>3, <2>4, <1>h DEF Holds
  <2> QED BY <2>4, <1>s
<1>7. ASSUME NEW r \in ready, ReplyAtOnce(r) PROVE \E c, new : Gives(c, new)
  <2>1. UNCHANGED <<browser, pc, resp, serving>> /\ Open' \subseteq Open
    BY <1>7 DEF ReplyAtOnce, vars, workerVars, Open
  <2>2. PICK st : replies' \subseteq replies \cup {Answer(r.client, st, Nil, Nil)}
    <3>1. PICK st \in {401, 500} : SendTo(r, Answer(r.client, st, Nil, Nil))
      BY <1>7, Zenon DEF ReplyAtOnce
    <3>2. replies' \subseteq replies \cup {Answer(r.client, st, Nil, Nil)}
      BY <3>1, Zenon DEF SendTo
    <3> QED BY <3>2
  <2> DEFINE a == Answer(r.client, st, Nil, Nil)
  <2>3. a.id = Nil
    BY DEF Answer
  <2> HIDE DEF a
  <2>4. replies' \subseteq replies \cup {a}
    BY <2>2 DEF a
  <2>5. ASSUME NEW b \in Clients, NEW i \in Ids, Holds(b, i)' PROVE Holds(b, i)
    BY <2>1, <2>3, <2>4, <2>5, <1>h DEF Holds
  <2> QED BY <2>5, <1>s
<1>8. ASSUME NEW b \in Clients, LogIn(b) \/ Register(b) \/ Refresh(b) \/ LookUp(b)
      PROVE  \E c, new : Gives(c, new)
  <2>1. PICK r : /\ Send(b, r)
                 /\ \/ r = Request(b, "login", Nil, Nil)
                    \/ r = Request(b, "register", browser[b].id,
                                   Quoted(Proof(KeyOf[b], KeyOf[b], browser[b].challenge)))
                    \/ r = Request(b, "refresh", browser[b].id,
                                   Quoted(Proof(KeyOf[b], Nil, browser[b].challenge)))
                    \/ r = Request(b, "me", browser[b].id, Nil)
    BY <1>8, Zenon DEF LogIn, Register, Refresh, LookUp
  <2>2. r.client = b /\ r.id \in {Nil, browser[b].id}
    BY <2>1 DEF Request
  <2>3. browser' = [browser EXCEPT ![b].waiting = TRUE]
    BY <1>8, Zenon DEF LogIn, Register, Refresh, LookUp
  <2>4. \A c \in Clients : browser'[c].id = browser[c].id
    BY <2>3, <1>b DEF BrowserStates
  <2>5. UNCHANGED <<replies, pc, resp, serving>> /\ Open' \subseteq Open \cup {r}
    BY <2>1 DEF Send, vars, workerVars, loopVars, Open
  <2>6. ASSUME NEW c \in Clients, NEW i \in Ids, Holds(c, i)' PROVE Holds(c, i)
    BY <2>2, <2>4, <2>5, <2>6, <1>h DEF Holds
  <2> QED BY <2>6, <1>s
<1>9. ASSUME NEW b \in Clients, NeedRefresh(b) PROVE \E c, new : Gives(c, new)
  <2>1. /\ UNCHANGED <<pc, resp, serving, replies>> /\ Open' = Open
        /\ browser' = [browser EXCEPT ![b].phase = "refreshing"]
    BY <1>9 DEF NeedRefresh, vars, workerVars, loopVars, netVars, Open
  <2>2. \A c \in Clients : browser'[c].id = browser[c].id
    BY <2>1, <1>b DEF BrowserStates
  <2> QED BY <2>1, <2>2, <1>s DEF Holds
<1>10. ASSUME NEW x \in replies, Receive(x) PROVE \E c, new : Gives(c, new)
  <2>1. /\ UNCHANGED <<pc, resp, serving>> /\ replies' \subseteq replies /\ Open' = Open
        /\ browser' = [browser EXCEPT ![x.client] = After(browser[x.client], x)]
    BY <1>10 DEF Receive, vars, workerVars, loopVars, Open
  <2>2. x.client \in Clients
    BY DEF AgreementInv, AnsweredOK
  <2>3. After(browser[x.client], x).id \in {browser[x.client].id, x.id, Nil}
    BY <2>2, <1>b, AfterHolds
  <2>4. \A c \in Clients : browser'[c].id \in {browser[c].id, Nil} \/ (c = x.client /\ browser'[c].id = x.id)
    BY <2>1, <2>2, <2>3, <1>b
  <2>5. ASSUME NEW c \in Clients, NEW i \in Ids, Holds(c, i)' PROVE Holds(c, i)
    BY <2>1, <2>4, <2>5, <1>h DEF Holds
  <2> QED BY <2>5, <1>s
<1>11. ASSUME NEW b \in Clients, Abandon(b) PROVE \E c, new : Gives(c, new)
  <2>1. /\ UNCHANGED <<pc, resp>> /\ replies' \subseteq replies
        /\ browser' = [browser EXCEPT ![b].waiting = FALSE]
        /\ serving' = IF serving = Nil THEN Nil ELSE Abandoned(b, serving)
    BY <1>11 DEF Abandon, vars, workerVars
  <2>2. \A c \in Clients : browser'[c].id = browser[c].id
    BY <2>1, <1>b DEF BrowserStates
  <2>3. ASSUME NEW r \in Open' PROVE \E q \in Open : r = Abandoned(b, q)
    <3>1. CASE r \in {Abandoned(b, q) : q \in sent} \cup {Abandoned(b, q) : q \in arrived}
                       \cup {Abandoned(b, q) : q \in ready}
      BY <3>1 DEF Open
    <3>2. CASE serving # Nil /\ r = Abandoned(b, serving)
      BY <3>2 DEF Open
    <3> QED BY <1>11, <3>1, <3>2 DEF Abandon, Open
  <2>4. \A q \in Open : Abandoned(b, q).client = q.client /\ Abandoned(b, q).id = q.id
    BY AbandonedIs DEF AgreementInv
  <2>5. serving # Nil => serving \in Open
    BY DEF Open
  <2>6. serving' # Nil => serving # Nil /\ serving'.client = serving.client
    BY <2>1, <2>4, <2>5
  <2>7. ASSUME NEW c \in Clients, NEW i \in Ids, Holds(c, i)' PROVE Holds(c, i)
    <3>1. CASE \E r \in Open' : r.client = c /\ r.id = i
      BY <2>3, <2>4, <3>1 DEF Holds
    <3> QED BY <2>1, <2>2, <2>6, <2>7, <3>1 DEF Holds
  <2> QED BY <2>7, <1>s
<1> QED BY <1>1, <1>2, <1>3, <1>4, <1>5, <1>6, <1>7, <1>8, <1>9, <1>10, <1>11
        DEF SystemNext, Loop, Handle, BrowserSends

\* What a step reports anew: the registration of the request in hand, with the
\* key of the browser that made it and an answer of 200.
Reports(e) ==
  /\ ServeOn
  /\ serving # Nil /\ serving' = serving /\ serving.path = "register"
  /\ pc[Server] = "register" /\ pc'[Server] = "idle" /\ resp'[Server].status = 200
  /\ e.session = serving.id /\ e.key = KeyOf[serving.client]

\* Every registration was reported before, or is reported now.
LEMMA ReportsStep ==
  ASSUME SystemInv, AgreementInv, CallOfRequest, [SystemNext]_sysVars,
         NEW e \in events', e.type = "REGISTER"
  PROVE  e \in events \/ Reports(e)
<1>1. CASE ServeOn
  <2>1. UNCHANGED serving
    BY <1>1 DEF ServeOn, loopVars
  <2> QED BY <1>1, <2>1, CallEnds DEF Reports
<1>2. ASSUME NEW r \in ready, HandleLogin(r) PROVE e \in events
  BY <1>2, LoginAnswers
<1>3. ASSUME NEW r \in ready, HandleDbsc(r) PROVE e \in events
  <2>1. PICK id \in {r.id, Nil}, proof \in {r.proof, Nil} :
          DbscCall(r.path, id, strip_quotes(proof))
    BY <1>3 DEF HandleDbsc
  <2>2. OpenOK(r)
    BY DEF AgreementInv, Open
  <2>3. id \in Ids \cup {Nil}
    BY <2>2 DEF OpenOK, Requests
  <2> QED BY <2>1, <2>3, CallAnswers DEF historyVars
<1>4. ASSUME UNCHANGED events PROVE e \in events
  BY <1>4
<1>5. ASSUME UNCHANGED vars PROVE e \in events
  BY <1>5 DEF vars, historyVars
<1>6. CASE Poll \/ EndLoop \/ RequestStop \/ SystemTick \/ UNCHANGED sysVars \/ Reply
  BY <1>4, <1>5, <1>6 DEF Poll, EndLoop, RequestStop, SystemTick, ClockTick, sysVars, Reply, historyVars
<1>7. ASSUME NEW r, Arrive(r) \/ Vanish(r) \/ ReplyAtOnce(r) \/ Receive(r) PROVE e \in events
  BY <1>5, <1>7 DEF Arrive, Vanish, ReplyAtOnce, Receive
<1>8. ASSUME NEW b, LogIn(b) \/ BrowserSends(b) \/ NeedRefresh(b) \/ LookUp(b) \/ Abandon(b)
      PROVE  e \in events
  BY <1>5, <1>8 DEF LogIn, BrowserSends, Register, Refresh, NeedRefresh, LookUp, Abandon, Send
<1> QED BY <1>1, <1>2, <1>3, <1>6, <1>7, <1>8 DEF SystemNext, Loop, Handle

\* Identifiers stay used.
LEMMA UsedStays ==
  ASSUME TypeInv, [Next]_vars
  PROVE  usedIds \subseteq usedIds'
<1>1. ASSUME NEW w \in Workers, WorkerStep(w) PROVE usedIds \subseteq usedIds'
  <2>1. CASE Quits(w) \/ Loads(w)
    BY <2>1 DEF Quits, Loads, historyVars
  <2>2. CASE \E u \in Users : Initiate(w, u)
    BY <2>2 DEF Initiate, session_new_id, InitiateStore
  <2>3. CASE RegisterBind(w) \/ RefreshExtend(w)
    BY <2>3, RotateEffect DEF Rotates
  <2>4. CASE \E ok \in BOOLEAN : CloseDelete(w, ok)
    BY <2>4 DEF CloseDelete
  <2> QED BY <1>1, <2>1, <2>2, <2>3, <2>4, StepKinds DEF Writes
<1> QED BY <1>1 DEF Next, ClockTick, vars, historyVars

\* A request's identifier is its browser's.
LEMMA RequestHolds ==
  ASSUME AgreementInv, HeldApart, NEW r \in Open, r.id \in Ids
  PROVE  r.client \in Clients /\ Holds(r.client, r.id) /\ r.id \in usedIds
<1>1. r.client \in Clients
  BY DEF AgreementInv, OpenOK, Requests
<1>2. Holds(r.client, r.id)
  BY DEF Holds
<1> QED BY <1>1, <1>2 DEF HeldApart

\* Identifiers stay apart, and with them the keys.
LEMMA HeldApartStep ==
  ASSUME SystemInv, AgreementInv, HeldApart, CallOfRequest, [SystemNext]_sysVars
  PROVE  HeldApart'
<1>u. usedIds \subseteq usedIds'
  BY StepIsManagerStep, UsedStays DEF SystemInv, ConcurrentInv
<1>1. PICK c, new : Gives(c, new)
  BY HoldersStep
<1>2. ASSUME NEW b \in Clients, NEW id \in Ids, Holds(b, id)'
      PROVE  id \in usedIds' /\ (Holds(b, id) \/ (b = c /\ id = new))
  BY <1>1, <1>2, <1>u DEF Gives, HeldApart
<1>3. ASSUME NEW b \in Clients, NEW id \in Ids, Holds(b, id), NEW d \in Clients, Holds(d, id)'
      PROVE  d = b
  BY <1>1, <1>2, <1>3 DEF Gives, HeldApart
<1>4. ASSUME NEW b \in Clients, NEW id \in Ids, Holds(b, id)', NEW d \in Clients, Holds(d, id)'
      PROVE  d = b
  BY <1>2, <1>3, <1>4
<1> QED BY <1>2, <1>4 DEF HeldApart

\* The reported keys stay those of the browsers that have the identifiers.
LEMMA KeyOfHolderStep ==
  ASSUME SystemInv, AgreementInv, HeldApart, CallOfRequest, KeyOfHolder, [SystemNext]_sysVars
  PROVE  KeyOfHolder'
<1>1. PICK c, new : Gives(c, new)
  BY HoldersStep
<1>2. ASSUME NEW e \in events', NEW b \in Clients, e.type = "REGISTER", Holds(b, e.session)'
      PROVE  e.key = KeyOf[b]
  <2>1. e \in events \/ Reports(e)
    BY <1>2, ReportsStep
  <2>2. CASE e \in events
    <3>1. e.session \in usedIds /\ e.session \in Ids
      BY <2>2 DEF SystemInv, ConcurrentInv, IdsGenerated, TypeInv, TypeOK, HistoryTypeOK
    <3>2. Holds(b, e.session)
      BY <1>1, <1>2, <3>1 DEF Gives
    <3> QED BY <1>2, <2>2, <3>2 DEF KeyOfHolder
  <2>3. CASE Reports(e)
    <3>1. serving \in Open /\ e.session = serving.id /\ e.key = KeyOf[serving.client]
      BY <2>3 DEF Reports, Open
    <3>2. e.session \in Ids
      <4>1. loaded[Server] \in Session /\ loaded[Server].id = serving.id
        BY <2>3, SystemAssumption DEF Reports, AgreementInv, ServingOK, SystemInv, ConcurrentInv,
           TypeInv, TypeOK, WorkerTypeOK, CallsHoldSessions
      <4> QED BY <3>1, <4>1 DEF Session
    <3>3. serving.client \in Clients /\ Holds(serving.client, e.session) /\ e.session \in usedIds
      BY <3>1, <3>2, RequestHolds
    <3>4. Holds(b, e.session)
      BY <1>1, <1>2, <3>2, <3>3 DEF Gives
    <3> QED BY <3>1, <3>2, <3>3, <3>4 DEF HeldApart
  <2> QED BY <2>1, <2>2, <2>3
<1> QED BY <1>2 DEF KeyOfHolder

\* The copy of a refresh stays that of its request.
LEMMA CallOfRequestStep ==
  ASSUME SystemInv, AgreementInv, CallOfRequest, [SystemNext]_sysVars
  PROVE  CallOfRequest'
<1>1. CASE Poll \/ EndLoop \/ RequestStop \/ SystemTick \/ UNCHANGED sysVars
  BY <1>1 DEF Poll, EndLoop, RequestStop, SystemTick, ClockTick, sysVars, vars, workerVars,
     loopVars, netVars, CallOfRequest
<1>2. ASSUME NEW r, Arrive(r) \/ Vanish(r) \/ ReplyAtOnce(r) \/ Receive(r) PROVE CallOfRequest'
  BY <1>2 DEF Arrive, Vanish, ReplyAtOnce, Receive, vars, workerVars, loopVars, CallOfRequest
<1>3. ASSUME NEW r \in ready, HandleDbsc(r) PROVE CallOfRequest'
  <2>1. PICK id \in {r.id, Nil}, proof \in {r.proof, Nil} :
          DbscCall(r.path, id, strip_quotes(proof))
    BY <1>3 DEF HandleDbsc
  <2>2. serving' = r /\ OpenOK(r)
    BY <1>3 DEF HandleDbsc, Take, AgreementInv, Open
  <2>3. id \in Ids \cup {Nil}
    BY <2>2 DEF OpenOK, Requests
  <2>4. pc'[Server] = "refresh" => loaded'[Server].id = id
    BY <2>1, <2>3, CallAnswers
  <2>5. pc'[Server] = "refresh" => id # Nil
    <3>1. SUFFICES ASSUME id = Nil PROVE pc'[Server] # "refresh"
      OBVIOUS
    <3>2. RegisterMissingCookie(Server) \/ RefreshMissingId(Server)
      BY <2>1, <3>1 DEF DbscCall
    <3> QED BY <3>2, SystemAssumption
            DEF RegisterMissingCookie, RefreshMissingId, Return, SystemInv, ConcurrentInv, TypeInv,
                TypeOK, WorkerTypeOK
  <2> QED BY <2>2, <2>4, <2>5 DEF CallOfRequest
<1>4. ASSUME NEW r \in ready, HandleLogin(r) PROVE CallOfRequest'
  BY <1>4, LoginAnswers DEF CallOfRequest
<1>5. CASE ServeOn
  BY <1>5, CallEnds DEF CallOfRequest
<1>6. CASE Reply
  BY <1>6 DEF Reply, CallOfRequest
<1>7. ASSUME NEW b \in Clients, LogIn(b) \/ BrowserSends(b) \/ NeedRefresh(b) \/ LookUp(b)
      PROVE  CallOfRequest'
  BY <1>7 DEF LogIn, BrowserSends, Register, Refresh, NeedRefresh, LookUp, Send, vars, workerVars,
     loopVars, CallOfRequest
<1>8. ASSUME NEW b \in Clients, Abandon(b) PROVE CallOfRequest'
  <2>1. /\ UNCHANGED <<pc, loaded>>
        /\ serving' = IF serving = Nil THEN Nil ELSE Abandoned(b, serving)
    BY <1>8 DEF Abandon, vars, workerVars
  <2>2. serving # Nil => Abandoned(b, serving).id = serving.id
    BY AbandonedIs DEF AgreementInv, Open
  <2> QED BY <2>1, <2>2 DEF CallOfRequest
<1> QED BY <1>1, <1>2, <1>3, <1>4, <1>5, <1>6, <1>7, <1>8 DEF SystemNext, Loop, Handle

\* The manager with one worker and a store that does not fail binds what it
\* reports, and nothing else.
LEMMA BoundIsReportedStep ==
  ASSUME ConcurrentInv, CopyIsCurrent, ReliableStore, BoundIsReported, [Next]_vars
  PROVE  BoundIsReported'
<1>t. TypeInv /\ StoreTypeOK /\ WorkerTypeOK /\ HistoryTypeOK /\ CallsHoldSessions
  BY DEF ConcurrentInv, TypeInv, TypeOK
<1>e. \A id : Reported(id) => Reported(id)'
  <2>1. \A id, k : Acknowledged(id, k) => Acknowledged(id, k)'
    BY <1>t, AcknowledgedStays
  <2>2. ASSUME NEW id, Reported(id) PROVE Reported(id)'
    <3>1. PICK e \in events : e.type = "REGISTER" /\ e.session = id
      BY <2>2 DEF Reported
    <3>2. Acknowledged(id, e.key)'
      BY <2>1, <3>1 DEF Acknowledged
    <3> QED BY <3>2 DEF Acknowledged, Reported
  <2> QED BY <2>2
<1>s. ASSUME \A i \in Ids : sessions'[i] \in {sessions[i], Nil} PROVE BoundIsReported'
  BY <1>s, <1>e DEF BoundIsReported
<1>1. CASE UNCHANGED vars \/ ClockTick
  BY <1>1, <1>s DEF vars, storeVars, ClockTick, Tick
<1>2. ASSUME NEW w \in Workers, WorkerStep(w) PROVE BoundIsReported'
  <2>1. CASE Quits(w)
    BY <2>1, <1>s DEF Quits, storeVars
  <2>2. CASE Loads(w)
    <3>1. PICK id \in Ids, out \in Session \cup {Nil} : Get(id, out)
      BY <2>2 DEF Loads
    <3>2. \E v \in {sessions[id], Nil} : sessions' = [sessions EXCEPT ![id] = v]
      BY <3>1, <1>t, GetEffect
    <3> QED BY <3>2, <1>s, <1>t DEF StoreTypeOK
  <2>3. CASE \E u \in Users : Initiate(w, u)
    <3>1. PICK u \in Users, id \in Ids \ usedIds, c \in generate_challenge, ok \in BOOLEAN :
            InitiateStore(w, u, id, c, ok)
      BY <2>3 DEF Initiate, session_new_id
    <3> DEFINE s == NewSession(id, u, c, now)
    <3>2. s.id = id /\ s.state = "active" /\ Create(s, ok)
      BY <3>1 DEF InitiateStore, NewSession
    <3> HIDE DEF s
    <3>3. sessions' = [sessions EXCEPT ![id] = s] \/ sessions' = sessions
      BY <3>2 DEF Create, Put, ReliableStore
    <3> QED BY <3>2, <3>3, <1>e, <1>t DEF StoreTypeOK, BoundIsReported
  <2>4. CASE RegisterBind(w) \/ RefreshExtend(w)
    <3>1. PICK s, e, c : Rotates(w, s, c, e)
      BY <2>4, <1>t, RotateEffect
    <3>2. s.id \in Ids
      BY <3>1 DEF Rotates, Session
    <3>3. CASE Update(s, FALSE)
      BY <3>3, <1>s DEF Update, ReliableStore
    <3>4. CASE Update(s, TRUE) /\ events' = events \cup {e}
      <4>1. sessions' = [sessions EXCEPT ![s.id] = s]
        BY <3>4 DEF Update, Put
      <4>2. Reported(s.id)'
        <5>1. CASE e.type = "REGISTER"
          BY <3>1, <3>4, <5>1 DEF Rotates, Reported
        <5>2. CASE loaded[w].state = "bound"
          <6>1. sessions[s.id] = loaded[w] /\ loaded[w] # Nil
            BY <3>1, <1>t DEF Rotates, CopyIsCurrent, CallsHoldSessions
          <6> QED BY <3>2, <5>2, <6>1, <1>e DEF BoundIsReported
        <5> QED BY <3>1, <5>1, <5>2 DEF Rotates
      <4> QED BY <3>2, <4>1, <4>2, <1>e, <1>t DEF StoreTypeOK, BoundIsReported
    <3> QED BY <3>1, <3>3, <3>4 DEF Rotates
  <2>5. CASE \E ok \in BOOLEAN : CloseDelete(w, ok)
    <3>1. PICK ok \in BOOLEAN : CloseDelete(w, ok)
      BY <2>5
    <3>2. sessions' = sessions \/ sessions' = [sessions EXCEPT ![loaded[w].id] = Nil]
      BY <3>1 DEF CloseDelete, Delete, Put
    <3> QED BY <3>2, <1>s, <1>t DEF StoreTypeOK
  <2> QED BY <1>t, <1>2, <2>1, <2>2, <2>3, <2>4, <2>5, StepKinds DEF Writes
<1> QED BY <1>1, <1>2 DEF Next

-----------------------------------------------------------------------------
(* What a step can do to each part of the system.                           *)

\* Losses and failures are counted for good.
LEMMA LossesStay ==
  ASSUME spent \in [{"lost", "failed", "rounds"} -> Nat], [SystemNext]_sysVars
  PROVE  /\ spent'.lost = 0 => spent.lost = 0 /\ \A b \in Clients : ~Abandon(b)
         /\ spent'.failed = 0 => spent.failed = 0 /\ ~Spend("failed", MaxFailed)
<1>1. ASSUME NEW what \in {"lost", "failed", "rounds"}, NEW max, Spend(what, max)
      PROVE  spent'[what] # 0 /\ \A x \in {"lost", "failed"} : spent'[x] = 0 => spent[x] = 0
  BY <1>1 DEF Spend
<1>2. \/ UNCHANGED spent
      \/ \E what \in {"lost", "failed", "rounds"} : \E max : Spend(what, max)
  <2>1. CASE Loop
    BY <2>1 DEF Loop, Poll, EndLoop, Handle, ServeOn, Reply, HandleDbsc, HandleLogin, ReplyAtOnce,
       Seen
  <2>2. ASSUME NEW b \in Clients, LogIn(b) \/ BrowserSends(b) \/ NeedRefresh(b) \/ LookUp(b)
                                  \/ Abandon(b)
        PROVE  UNCHANGED spent \/ \E what \in {"lost", "failed", "rounds"} :
                                    \E max : Spend(what, max)
    BY <2>2 DEF LogIn, BrowserSends, Register, Refresh, NeedRefresh, LookUp, Abandon
  <2>3. CASE RequestStop \/ SystemTick \/ UNCHANGED sysVars
    BY <2>3 DEF RequestStop, SystemTick, sysVars
  <2>4. ASSUME NEW r, Arrive(r) \/ Vanish(r) \/ Receive(r) PROVE UNCHANGED spent
    BY <2>4 DEF Arrive, Vanish, Receive
  <2> QED BY <2>1, <2>2, <2>3, <2>4 DEF SystemNext
<1>3. \A x \in {"lost", "failed"} : spent'[x] = 0 => spent[x] = 0
  BY <1>1, <1>2
<1>4. ASSUME NEW b \in Clients, Abandon(b) PROVE spent'.lost # 0
  BY <1>1, <1>4 DEF Abandon
<1>5. Spend("failed", MaxFailed) => spent'.failed # 0
  BY <1>1
<1> QED BY <1>3, <1>4, <1>5

\* The one answer on its way to the browser that takes it in.
LEMMA ReceivedIs ==
  ASSUME SystemInv, AgreementInv, NEW x \in replies
  PROVE  /\ x.client \in Clients /\ Answers(x.client) = {x}
         /\ Alive(InHand, x.client) = {}
<1>1. x.client \in Clients /\ x \in Answers(x.client) /\ BrowsersKnow
  BY DEF AgreementInv, AnsweredOK, Answers, SystemInv
<1>2. WaitOK(x.client)
  BY <1>1 DEF AgreementInv, BrowserOK
<1> QED BY <1>1, <1>2, PendingWaits, SingleIs

\* A browser stays in its phase, begins a refresh with nothing under way, or
\* takes in its one answer.
BrowserStays(c) == browser'[c].phase = browser[c].phase /\ browser'[c].id = browser[c].id

BrowserRefreshes(c) ==
  /\ browser[c].phase = "bound" /\ browser'[c].phase = "refreshing"
  /\ browser'[c].id = browser[c].id
  /\ \A a \in replies' : a.client # c

BrowserTakes(c, x) ==
  /\ x \in replies /\ x.client = c
  /\ Receive(x)
  /\ browser'[c] = After(browser[c], x)
  /\ \A a \in replies' : a.client # c

\* These three are all a step can do to a browser.
LEMMA BrowserMoves ==
  ASSUME SystemInv, AgreementInv, [SystemNext]_sysVars, NEW c \in Clients
  PROVE  BrowserStays(c) \/ BrowserRefreshes(c) \/ \E x : BrowserTakes(c, x)
<1>b. browser \in [Clients -> BrowserStates]
  BY DEF SystemInv, BrowsersKnow
<1>1. CASE UNCHANGED browser
  BY <1>1 DEF BrowserStays
<1>2. ASSUME NEW b \in Clients, LogIn(b) \/ BrowserSends(b) \/ LookUp(b) \/ Abandon(b)
      PROVE  BrowserStays(c)
  <2>1. \/ browser' = [browser EXCEPT ![b].waiting = TRUE]
        \/ browser' = [browser EXCEPT ![b].waiting = FALSE]
    BY <1>2 DEF LogIn, BrowserSends, Register, Refresh, LookUp, Abandon
  <2> QED BY <2>1, <1>b DEF BrowserStates, BrowserStays
<1>3. ASSUME NEW b \in Clients, NeedRefresh(b) PROVE BrowserStays(c) \/ BrowserRefreshes(c)
  <2>1. /\ browser[b].phase = "bound" /\ ~browser[b].waiting /\ replies' = replies
        /\ browser' = [browser EXCEPT ![b].phase = "refreshing"]
    BY <1>3 DEF NeedRefresh, netVars
  <2>2. \A a \in replies : a.client # b
    BY <2>1 DEF AgreementInv, BrowserOK, WaitOK, Vacant, Answers
  <2>3. CASE c = b
    BY <2>1, <2>2, <2>3, <1>b DEF BrowserStates, BrowserRefreshes
  <2>4. CASE c # b
    BY <2>1, <2>4, <1>b DEF BrowserStays
  <2> QED BY <2>3, <2>4
<1>4. ASSUME NEW x \in replies, Receive(x) PROVE BrowserStays(c) \/ BrowserTakes(c, x)
  <2>1. /\ replies' = replies \ {x}
        /\ browser' = [browser EXCEPT ![x.client] = After(browser[x.client], x)]
    BY <1>4 DEF Receive
  <2>2. x.client \in Clients /\ Answers(x.client) = {x}
    BY ReceivedIs
  <2>3. CASE c = x.client
    <3>1. \A a \in replies' : a.client # c
      BY <2>1, <2>2, <2>3 DEF Answers
    <3>2. browser'[c] = After(browser[c], x)
      BY <2>1, <2>2, <2>3, <1>b
    <3> QED BY <1>4, <2>3, <3>1, <3>2 DEF BrowserTakes
  <2>4. CASE c # x.client
    BY <2>1, <2>4, <1>b DEF BrowserStays
  <2> QED BY <2>3, <2>4
<1>5. CASE Loop \/ RequestStop \/ SystemTick \/ UNCHANGED sysVars
  BY <1>1, <1>5 DEF Loop, Handle, Poll, EndLoop, HandleDbsc, HandleLogin, ReplyAtOnce, ServeOn,
     Reply, RequestStop, SystemTick, sysVars
<1>6. ASSUME NEW r \in sent, Arrive(r) \/ Vanish(r) PROVE UNCHANGED browser
  BY <1>6 DEF Arrive, Vanish
<1> QED BY <1>1, <1>2, <1>3, <1>4, <1>5, <1>6 DEF SystemNext

\* The request in hand stays, is answered, taken up, gone on with, or given up.
ServingStays == UNCHANGED <<serving, pc, resp>>

ServingEnds == serving' = Nil /\ (serving = Nil \/ Reply)

ServingGivenUp ==
  /\ serving # Nil /\ serving'.path = serving.path /\ ~serving'.live
  /\ UNCHANGED <<pc, resp>>
  /\ \E b \in Clients : Abandon(b)

\* No step does anything else to the request in hand.
LEMMA ServingMoves ==
  ASSUME SystemInv, AgreementInv, [SystemNext]_sysVars
  PROVE  \/ ServingStays \/ ServingEnds \/ ServingGivenUp
         \/ \E r \in ready : HandleDbsc(r) \/ HandleLogin(r)
         \/ ServeOn
<1>1. CASE Poll \/ EndLoop \/ RequestStop \/ SystemTick \/ UNCHANGED sysVars
  BY <1>1 DEF Poll, EndLoop, RequestStop, SystemTick, ClockTick, sysVars, vars, workerVars,
     loopVars, netVars, ServingStays
<1>2. ASSUME NEW r, Arrive(r) \/ Vanish(r) \/ ReplyAtOnce(r) \/ Receive(r) PROVE ServingStays
  BY <1>2 DEF Arrive, Vanish, ReplyAtOnce, Receive, vars, workerVars, loopVars, ServingStays
<1>3. CASE Reply
  BY <1>3 DEF Reply, ServingEnds
<1>4. ASSUME NEW b \in Clients, LogIn(b) \/ BrowserSends(b) \/ NeedRefresh(b) \/ LookUp(b)
      PROVE  ServingStays
  BY <1>4 DEF LogIn, BrowserSends, Register, Refresh, NeedRefresh, LookUp, Send, vars, workerVars,
     loopVars, ServingStays
<1>5. ASSUME NEW b \in Clients, Abandon(b) PROVE ServingStays \/ ServingGivenUp
  <2>1. /\ UNCHANGED <<pc, resp>>
        /\ serving' = IF serving = Nil THEN Nil ELSE Abandoned(b, serving)
    BY <1>5 DEF Abandon, vars, workerVars
  <2>2. CASE serving = Nil
    BY <2>1, <2>2 DEF ServingStays
  <2>3. CASE serving # Nil
    <3>1. OpenOK(serving)
      BY <2>3 DEF AgreementInv, Open
    <3>2. CASE serving.client # b
      BY <2>1, <2>3, <3>1, <3>2, AbandonedIs DEF ServingStays
    <3>3. CASE serving.client = b
      <4>1. serving'.path = serving.path /\ ~serving'.live
        BY <2>1, <2>3, <3>1, <3>3, AbandonedIs
      <4> QED BY <1>5, <2>1, <2>3, <4>1 DEF ServingGivenUp
    <3> QED BY <3>2, <3>3
  <2> QED BY <2>2, <2>3
<1> QED BY <1>1, <1>2, <1>3, <1>4, <1>5 DEF SystemNext, Loop, Handle

\* A new answer is what the call answered, or nothing but a status.
Replied(a) ==
  /\ Reply
  /\ serving # Nil /\ serving.live /\ pc[Server] = "idle" /\ UNCHANGED <<vars, browser>>
  /\ a.client = serving.client /\ a.status = StatusOf(serving.path, resp[Server])
  /\ a.id = resp[Server].session

TurnedAway(a) ==
  /\ UNCHANGED <<vars, browser>>
  /\ a.id = Nil /\ a.status # 200
  /\ Spend("failed", MaxFailed) \/ browser[a.client].phase = "out"

\* No other answer is sent.
LEMMA AnswerMoves ==
  ASSUME SystemInv, AgreementInv, [SystemNext]_sysVars, NEW a \in replies'
  PROVE  a \in replies \/ Replied(a) \/ TurnedAway(a)
<1>1. ASSUME replies' \subseteq replies PROVE a \in replies
  BY <1>1
<1>2. CASE Poll \/ EndLoop \/ RequestStop \/ SystemTick \/ UNCHANGED sysVars \/ ServeOn
  BY <1>1, <1>2 DEF Poll, EndLoop, RequestStop, SystemTick, sysVars, netVars, ServeOn
<1>3. ASSUME NEW r, Arrive(r) \/ Vanish(r) \/ HandleDbsc(r) \/ HandleLogin(r) \/ Receive(r)
      PROVE  a \in replies
  BY <1>1, <1>3 DEF Arrive, Vanish, HandleDbsc, HandleLogin, Receive, netVars
<1>4. ASSUME NEW b \in Clients, LogIn(b) \/ BrowserSends(b) \/ NeedRefresh(b) \/ LookUp(b)
                                \/ Abandon(b)
      PROVE  a \in replies
  BY <1>1, <1>4 DEF LogIn, BrowserSends, Register, Refresh, NeedRefresh, LookUp, Abandon, Send,
     netVars
<1>5. CASE Reply
  <2>1. UNCHANGED <<vars, browser>> /\ serving # Nil /\ pc[Server] = "idle"
    BY <1>5 DEF Reply
  <2>2. serving \in Requests
    BY <2>1 DEF AgreementInv, Open, OpenOK
  <2> DEFINE rs == resp[Server]
             good == Answer(serving.client, StatusOf(serving.path, rs), rs.session, rs.challenge)
             bad == Answer(serving.client, 500, Nil, Nil)
  <2>3. /\ good.client = serving.client /\ good.status = StatusOf(serving.path, rs)
        /\ good.id = rs.session
        /\ bad.client = serving.client /\ bad.status = 500 /\ bad.id = Nil
    BY DEF Answer
  <2>4. SendTo(serving, good) \/ (Spend("failed", MaxFailed) /\ SendTo(serving, bad))
    BY <1>5 DEF Reply
  <2> HIDE DEF good, bad
  <2>5. CASE SendTo(serving, good)
    <3>1. replies' = replies \/ (serving.live /\ replies' = replies \cup {good})
      BY <2>2, <2>3, <2>5, AnswersMove
    <3> QED BY <1>5, <2>1, <2>3, <3>1 DEF Replied
  <2>6. CASE Spend("failed", MaxFailed) /\ SendTo(serving, bad)
    <3>1. replies' = replies \/ (serving.live /\ replies' = replies \cup {bad})
      BY <2>2, <2>3, <2>6, AnswersMove
    <3> QED BY <2>1, <2>3, <2>6, <3>1 DEF TurnedAway
  <2> QED BY <2>4, <2>5, <2>6
<1>6. ASSUME NEW r \in ready, ReplyAtOnce(r) PROVE a \in replies \/ TurnedAway(a)
  <2>1. UNCHANGED <<vars, browser>> /\ OpenOK(r) /\ r \in Requests
    BY <1>6 DEF ReplyAtOnce, AgreementInv, Open, OpenOK
  <2>2. PICK st \in {401, 500} : /\ SendTo(r, Answer(r.client, st, Nil, Nil))
                                 /\ r.path = "login" \/ Spend("failed", MaxFailed)
    BY <1>6, Zenon DEF ReplyAtOnce
  <2> DEFINE x == Answer(r.client, st, Nil, Nil)
  <2>3. x.client = r.client /\ x.status # 200 /\ x.id = Nil
    BY <2>2 DEF Answer
  <2>4. SendTo(r, x)
    BY <2>2
  <2> HIDE DEF x
  <2>5. replies' = replies \/ (r.live /\ replies' = replies \cup {x})
    BY <2>1, <2>3, <2>4, AnswersMove
  <2>6. r.live => TurnedAway(x)
    BY <2>1, <2>2, <2>3 DEF TurnedAway, OpenOK, Match
  <2> QED BY <2>5, <2>6
<1> QED BY <1>2, <1>3, <1>4, <1>5, <1>6 DEF SystemNext, Loop, Handle

\* An answer stays on its way until it is taken in or its browser gives up.
LEMMA AnswerStays ==
  ASSUME SystemInv, AgreementInv, [SystemNext]_sysVars, NEW a \in replies
  PROVE  a \in replies' \/ Receive(a) \/ \E b \in Clients : Abandon(b)
<1>1. CASE Poll \/ EndLoop \/ RequestStop \/ SystemTick \/ UNCHANGED sysVars \/ ServeOn
  BY <1>1 DEF Poll, EndLoop, RequestStop, SystemTick, sysVars, netVars, ServeOn
<1>2. ASSUME NEW r, Arrive(r) \/ Vanish(r) \/ HandleDbsc(r) \/ HandleLogin(r) PROVE a \in replies'
  BY <1>2 DEF Arrive, Vanish, HandleDbsc, HandleLogin, netVars
<1>3. ASSUME NEW b \in Clients, LogIn(b) \/ BrowserSends(b) \/ NeedRefresh(b) \/ LookUp(b)
      PROVE  a \in replies'
  BY <1>3 DEF LogIn, BrowserSends, Register, Refresh, NeedRefresh, LookUp, Send, netVars
<1>4. ASSUME NEW r, NEW x, SendTo(r, x) PROVE a \in replies'
  BY <1>4 DEF SendTo
<1>5. CASE Reply \/ \E r \in ready : ReplyAtOnce(r)
  <2>1. \E r, x : SendTo(r, x)
    BY <1>5, Zenon DEF Reply, ReplyAtOnce
  <2> QED BY <2>1, <1>4
<1>6. ASSUME NEW x \in replies, Receive(x), x # a PROVE a \in replies'
  BY <1>6 DEF Receive
<1> QED BY <1>1, <1>2, <1>3, <1>5, <1>6 DEF SystemNext, Loop, Handle

\* What comes to be asked is live.
LEMMA RequestMoves ==
  ASSUME SystemInv, AgreementInv, [SystemNext]_sysVars, NEW r \in Open'
  PROVE  r \in Open \/ r.live \/ \E b \in Clients : Abandon(b)
<1>1. ASSUME Open' \subseteq Open PROVE r \in Open
  BY <1>1
<1>2. CASE Poll \/ EndLoop \/ RequestStop \/ SystemTick \/ UNCHANGED sysVars \/ ServeOn \/ Reply
  BY <1>1, <1>2 DEF Poll, EndLoop, RequestStop, SystemTick, sysVars, loopVars, netVars, ServeOn, Reply,
     Open
<1>3. ASSUME NEW q \in sent, Arrive(q) \/ Vanish(q) PROVE r \in Open
  BY <1>1, <1>3 DEF Arrive, Vanish, loopVars, Open
<1>4. ASSUME NEW q \in ready, HandleDbsc(q) \/ HandleLogin(q) \/ ReplyAtOnce(q) PROVE r \in Open
  BY <1>1, <1>4 DEF HandleDbsc, HandleLogin, ReplyAtOnce, Take, netVars, Open
<1>5. ASSUME NEW x, Receive(x) PROVE r \in Open
  BY <1>1, <1>5 DEF Receive, loopVars, Open
<1>6. ASSUME NEW b \in Clients, NeedRefresh(b) PROVE r \in Open
  BY <1>1, <1>6 DEF NeedRefresh, loopVars, netVars, Open
<1>7. ASSUME NEW b \in Clients, LogIn(b) \/ BrowserSends(b) \/ LookUp(b) PROVE r \in Open \/ r.live
  <2>1. PICK path, id, proof : Send(b, Request(b, path, id, proof))
    BY <1>7, Zenon DEF LogIn, BrowserSends, Register, Refresh, LookUp
  <2> DEFINE q == Request(b, path, id, proof)
  <2>2. q.live
    BY Zenon DEF Request
  <2> HIDE DEF q
  <2>3. Open' \subseteq Open \cup {q}
    BY <2>1 DEF Send, loopVars, Open, q
  <2> QED BY <2>2, <2>3
<1> QED BY <1>2, <1>3, <1>4, <1>5, <1>6, <1>7 DEF SystemNext, Loop, Handle

-----------------------------------------------------------------------------
\* Logins go on giving identifiers.
LEMMA LoginsOKStep ==
  ASSUME SystemInv, AgreementInv, LoginsOK, [SystemNext]_sysVars
  PROVE  LoginsOK'
<1>b. browser \in [Clients -> BrowserStates]
  BY DEF SystemInv, BrowsersKnow
<1>1. ASSUME serving' # Nil, serving'.path = "login", pc'[Server] = "idle", resp'[Server].rc = 0
      PROVE  resp'[Server].session \in Ids
  <2>1. CASE ServingStays
    BY <1>1, <2>1 DEF ServingStays, LoginsOK
  <2>2. CASE ServingGivenUp
    BY <1>1, <2>2 DEF ServingGivenUp, LoginsOK
  <2>3. ASSUME NEW r \in ready, HandleDbsc(r) PROVE FALSE
    BY <1>1, <2>3 DEF HandleDbsc, Take, DbscCall
  <2>4. ASSUME NEW r \in ready, HandleLogin(r) PROVE resp'[Server].session \in Ids
    BY <1>1, <2>4, LoginAnswers
  <2>5. CASE ServeOn
    BY <1>1, <2>5 DEF ServeOn, loopVars, AgreementInv, ServingOK, RegisterReject, RegisterBind,
       RefreshReject, RefreshExtend, RegisterNoChallenge, RefreshNoChallenge
  <2> QED BY <1>1, <2>1, <2>2, <2>3, <2>4, <2>5, ServingMoves DEF ServingEnds
<1>2. ASSUME NEW a \in replies', browser'[a.client].phase = "out", a.status = 200
      PROVE  a.id \in Ids
  <2>1. CASE a \in replies
    <3>1. a.client \in Clients
      BY <2>1 DEF AgreementInv, AnsweredOK
    <3>2. BrowserStays(a.client)
      BY <1>2, <3>1, BrowserMoves DEF BrowserRefreshes, BrowserTakes
    <3> QED BY <1>2, <2>1, <3>2 DEF BrowserStays, LoginsOK
  <2>2. CASE Replied(a)
    <3>1. OpenOK(serving) /\ serving \in Requests
      BY <2>2 DEF Replied, AgreementInv, Open, OpenOK
    <3>2. serving.path = "login"
      BY <1>2, <2>2, <3>1 DEF Replied, OpenOK, Match, Requests, Paths
    <3>3. resp[Server].rc = 0
      BY <1>2, <2>2, <3>2 DEF Replied, StatusOf
    <3> QED BY <2>2, <3>2, <3>3 DEF Replied, LoginsOK
  <2> QED BY <1>2, <2>1, <2>2, AnswerMoves DEF TurnedAway
<1>3. ASSUME NEW b \in Clients, browser'[b].phase = "registering"
      PROVE  browser'[b].id \in Ids
  <2>1. CASE BrowserStays(b)
    BY <1>3, <2>1 DEF BrowserStays, LoginsOK
  <2>2. ASSUME NEW x, BrowserTakes(b, x) PROVE browser'[b].id \in Ids
    <3>1. x \in replies /\ x.client = b /\ browser'[b] = After(browser[b], x)
      BY <2>2 DEF BrowserTakes
    <3>2. \/ browser[b].phase = "out" /\ x.status = 200 /\ browser'[b].id = x.id
          \/ browser[b].phase = "registering" /\ browser'[b].id = browser[b].id
      BY <1>3, <1>b, <3>1, AfterHolds
    <3> QED BY <3>1, <3>2 DEF LoginsOK
  <2> QED BY <1>3, <2>1, <2>2, BrowserMoves DEF BrowserRefreshes
<1> QED BY <1>1, <1>2, <1>3 DEF LoginsOK

\* A reported registration is of a generated identifier.
LEMMA ReportedIsUsed ==
  ASSUME ConcurrentInv, NEW id, Reported(id)
  PROVE  id \in Ids /\ id \in usedIds
BY DEF Reported, ConcurrentInv, IdsGenerated, TypeInv, TypeOK, HistoryTypeOK, Event

\* What is reported was reported before, or is what the request in hand registers.
LEMMA ReportedNow ==
  ASSUME SystemInv, AgreementInv, CallOfRequest, [SystemNext]_sysVars, NEW id, Reported(id)'
  PROVE  \/ Reported(id)
         \/ /\ ServeOn /\ serving # Nil /\ serving' = serving /\ serving.path = "register"
            /\ pc[Server] = "register" /\ pc'[Server] = "idle" /\ resp'[Server].status = 200
            /\ id = serving.id /\ id \in Ids /\ serving \in Open
<1>1. PICK e \in events' : e.type = "REGISTER" /\ e.session = id
  BY DEF Reported
<1>2. e \in events => Reported(id)
  BY <1>1 DEF Reported
<1>3. ASSUME Reports(e) PROVE serving.id \in Ids /\ serving \in Open
  <2>1. loaded[Server] \in Session /\ loaded[Server].id = serving.id
    BY <1>3, SystemAssumption DEF Reports, AgreementInv, ServingOK, SystemInv, ConcurrentInv,
       TypeInv, TypeOK, WorkerTypeOK, CallsHoldSessions
  <2> QED BY <1>3, <2>1 DEF Session, Reports, Open
<1> QED BY <1>1, <1>2, <1>3, ReportsStep DEF Reports

\* Nothing is lost until something is.
LEMMA NothingLostStep ==
  ASSUME SystemInv, AgreementInv, HeldApart, CallOfRequest, NothingLost,
         spent \in [{"lost", "failed", "rounds"} -> Nat], [SystemNext]_sysVars
  PROVE  NothingLost'
<1>0. SUFFICES ASSUME spent'.lost = 0, spent'.failed = 0
               PROVE  /\ \A r \in Open' : r.live
                      /\ serving' # Nil /\ serving'.path = "login" /\ pc'[Server] = "idle"
                           => ~Reported(resp[Server].session)'
                      /\ \A a \in replies' : browser'[a.client].phase = "out" => ~Reported(a.id)'
                      /\ \A b \in Clients :
                           browser'[b].phase = "registering" /\ Reported(browser[b].id)'
                             => Succeeds(b)'
  BY DEF NothingLost
<1>z. /\ spent.lost = 0 /\ spent.failed = 0 /\ ~Spend("failed", MaxFailed)
      /\ \A b \in Clients : ~Abandon(b)
  BY <1>0, LossesStay
<1>i. /\ \A r \in Open : r.live
      /\ serving # Nil /\ serving.path = "login" /\ pc[Server] = "idle"
           => ~Reported(resp[Server].session)
      /\ \A a \in replies : browser[a.client].phase = "out" => ~Reported(a.id)
      /\ \A b \in Clients :
           browser[b].phase = "registering" /\ Reported(browser[b].id) => Succeeds(b)
  BY <1>z DEF NothingLost
<1>c. ConcurrentInv /\ ConcurrentInv' /\ browser \in [Clients -> BrowserStates]
  BY SystemInvStep DEF SystemInv, BrowsersKnow
<1>v. ASSUME NEW id, UNCHANGED vars, Reported(id)' PROVE Reported(id)
  BY <1>v DEF vars, historyVars, Reported
<1>1. \A r \in Open' : r.live
  BY <1>i, <1>z, RequestMoves
<1>2. ASSUME serving' # Nil, serving'.path = "login", pc'[Server] = "idle",
             Reported(resp[Server].session)'
      PROVE  FALSE
  <2>1. PICK i : i = resp'[Server].session /\ Reported(i)'
    BY <1>2 DEF Reported
  <2>2. CASE ServingStays
    <3>1. Reported(i)
      BY <2>1, <2>2, ReportedNow DEF ServingStays
    <3> QED BY <1>2, <1>i, <2>1, <2>2, <3>1 DEF ServingStays
  <2>3. ASSUME NEW r \in ready, HandleDbsc(r) PROVE FALSE
    BY <1>2, <2>3 DEF HandleDbsc, Take, DbscCall
  <2>4. ASSUME NEW r \in ready, HandleLogin(r) PROVE FALSE
    <3>1. Reported(i)
      BY <2>1, <2>4, ReportedNow DEF HandleLogin, Take
    <3>2. i \in Ids /\ i \in usedIds
      BY <1>c, <3>1, ReportedIsUsed
    <3> QED BY <2>1, <2>4, <3>2, LoginAnswers, NilAssumption
  <2>5. CASE ServeOn
    BY <1>2, <2>5 DEF ServeOn, loopVars, AgreementInv, ServingOK, RegisterReject, RegisterBind,
       RefreshReject, RefreshExtend, RegisterNoChallenge, RefreshNoChallenge
  <2> QED BY <1>2, <1>z, <2>2, <2>3, <2>4, <2>5, ServingMoves DEF ServingEnds, ServingGivenUp
<1>3. ASSUME NEW a \in replies', browser'[a.client].phase = "out", Reported(a.id)' PROVE FALSE
  <2>1. CASE a \in replies
    <3>1. a.client \in Clients
      BY <2>1 DEF AgreementInv, AnsweredOK
    <3>2. browser[a.client].phase = "out"
      BY <1>3, <3>1, BrowserMoves DEF BrowserStays, BrowserRefreshes, BrowserTakes
    <3>3. ~Reported(a.id)
      BY <1>i, <2>1, <3>2
    <3>4. serving # Nil /\ a.id = serving.id /\ a.id \in Ids /\ serving \in Open
      BY <1>3, <3>3, ReportedNow
    <3>5. Holds(a.client, a.id)
      BY <2>1 DEF Holds
    <3>6. serving.client = a.client /\ serving.live
      BY <1>i, <3>1, <3>4, <3>5, RequestHolds DEF HeldApart
    <3>7. serving \in Alive(InHand, a.client)
      BY <3>4, <3>6 DEF Alive, InHand
    <3> QED BY <2>1, <3>7, ReceivedIs
  <2>2. CASE Replied(a)
    <3>1. OpenOK(serving) /\ serving \in Requests
      BY <2>2 DEF Replied, AgreementInv, Open, OpenOK
    <3>2. serving.path = "login"
      BY <1>3, <2>2, <3>1 DEF Replied, OpenOK, Match, Requests, Paths
    <3>3. Reported(a.id)
      BY <1>3, <1>v, <2>2 DEF Replied
    <3> QED BY <1>i, <2>2, <3>2, <3>3 DEF Replied
  <2>3. CASE TurnedAway(a)
    <3>1. Reported(a.id)
      BY <1>3, <1>v, <2>3 DEF TurnedAway
    <3> QED BY <1>c, <2>3, <3>1, ReportedIsUsed, NilAssumption DEF TurnedAway
  <2> QED BY <2>1, <2>2, <2>3, AnswerMoves
<1>4. ASSUME NEW b \in Clients, browser'[b].phase = "registering", Reported(browser[b].id)'
      PROVE  Succeeds(b)'
  <2>1. PICK id : id = browser'[b].id /\ Reported(id)'
    BY <1>4 DEF Reported
  <2>2. ASSUME BrowserStays(b), Reported(id) PROVE Succeeds(b)'
    <3>1. browser[b].phase = "registering" /\ Succeeds(b)
      BY <1>4, <1>i, <2>1, <2>2 DEF BrowserStays
    <3>2. CASE /\ serving # Nil /\ serving.client = b /\ serving.path = "register" /\ serving.live
               /\ pc[Server] = "idle" /\ resp[Server].status = 200
      <4>1. CASE ServingStays
        BY <3>2, <4>1 DEF ServingStays, Succeeds
      <4>2. CASE Reply
        <5> DEFINE rs == resp[Server]
                   a == Answer(b, StatusOf(serving.path, rs), rs.session, rs.challenge)
        <5>1. SendTo(serving, a)
          BY <1>z, <3>2, <4>2 DEF Reply
        <5>2. a \in replies'
          BY <3>2, <5>1 DEF SendTo
        <5>3. a.client = b /\ a.status = 200
          BY <3>2 DEF Answer, StatusOf
        <5> HIDE DEF a
        <5> QED BY <5>2, <5>3 DEF Succeeds
      <4>3. ASSUME NEW r \in ready, HandleDbsc(r) \/ HandleLogin(r) PROVE FALSE
        BY <3>2, <4>3 DEF HandleDbsc, HandleLogin, Take
      <4>4. CASE ServeOn
        BY <3>2, <4>4 DEF ServeOn, RegisterReject, RegisterBind, RefreshReject, RefreshExtend,
           RegisterNoChallenge, RefreshNoChallenge
      <4> QED BY <1>z, <3>2, <4>1, <4>2, <4>3, <4>4, ServingMoves DEF ServingEnds, ServingGivenUp
    <3>3. ASSUME NEW a \in replies, a.client = b, a.status = 200 PROVE Succeeds(b)'
      <4>1. CASE Receive(a)
        <5>1. browser'[b] = After(browser[b], a)
          BY <1>c, <3>3, <4>1 DEF Receive
        <5>2. browser[b].phase = "out" \/ a.status # 200
          BY <1>4, <1>c, <5>1, AfterHolds
        <5> QED BY <3>1, <3>3, <5>2
      <4>2. CASE a \in replies'
        BY <3>3, <4>2 DEF Succeeds
      <4> QED BY <1>z, <4>1, <4>2, AnswerStays
    <3> QED BY <3>1, <3>2, <3>3 DEF Succeeds
  <2>3. ASSUME BrowserStays(b), ~Reported(id) PROVE Succeeds(b)'
    <3>1. /\ serving # Nil /\ serving' = serving /\ serving.path = "register"
          /\ pc'[Server] = "idle" /\ resp'[Server].status = 200
          /\ id = serving.id /\ id \in Ids /\ serving \in Open
      BY <2>1, <2>3, ReportedNow
    <3>2. Holds(b, id)
      BY <2>1, <2>3 DEF BrowserStays, Holds
    <3>3. serving.client = b /\ serving.live
      BY <1>i, <3>1, <3>2, RequestHolds DEF HeldApart
    <3> QED BY <3>1, <3>3 DEF Succeeds
  <2>4. ASSUME NEW x, BrowserTakes(b, x) PROVE FALSE
    <3>1. x \in replies /\ x.client = b /\ browser'[b] = After(browser[b], x) /\ UNCHANGED vars
      BY <2>4 DEF BrowserTakes, Receive
    <3>2. Reported(id)
      BY <1>v, <2>1, <3>1
    <3>3. \/ browser[b].phase = "out" /\ x.status = 200 /\ id = x.id
          \/ browser[b].phase = "registering" /\ x.status # 200 /\ id = browser[b].id
      BY <1>4, <1>c, <2>1, <3>1, AfterHolds
    <3>4. CASE browser[b].phase = "out" /\ id = x.id
      BY <1>i, <3>1, <3>2, <3>4
    <3>5. CASE browser[b].phase = "registering" /\ x.status # 200 /\ id = browser[b].id
      <4>1. Succeeds(b)
        BY <1>i, <3>2, <3>5
      <4>2. Answers(b) = {x} /\ Alive(InHand, b) = {}
        BY <3>1, ReceivedIs
      <4> QED BY <3>5, <4>1, <4>2 DEF Succeeds, Answers, Alive, InHand
    <3> QED BY <3>3, <3>4, <3>5
  <2> QED BY <1>4, <2>2, <2>3, <2>4, BrowserMoves DEF BrowserRefreshes
<1> QED BY <1>1, <1>2, <1>3, <1>4

-----------------------------------------------------------------------------
\* What is settled stays settled: nothing unbinds a session, and no identifier
\* is taken twice.
LEMMA SettledStays ==
  ASSUME ConcurrentInv, [Next]_vars, NEW id \in Ids, Settled(id)
  PROVE  Settled(id)'
<1>1. usedIds \subseteq usedIds'
  BY UsedStays DEF ConcurrentInv
<1>2. sessions[id] = Nil => Gone(id)'
  BY GoneStays DEF Settled, Gone
<1>3. sessions[id] # Nil /\ sessions'[id] # Nil => sessions'[id].state = "bound"
  BY IdentityStep DEF IdentityKept, Settled
<1> QED BY <1>1, <1>2, <1>3 DEF Settled, Gone

\* A registration is refused at once only when the store, which does not fail,
\* has the session bound or no longer has it.
LEMMA RegisterRefused ==
  ASSUME SystemInv, ReliableStore, NEW id \in Ids, id \in usedIds, NEW hdr,
         RegisterLoad(Server, id, hdr), pc'[Server] = "idle", Refusal(resp'[Server].status)
  PROVE  Settled(id)'
<1>t. Server \in Workers /\ StoreTypeOK /\ WorkerTypeOK
  BY SystemAssumption DEF SystemInv, ConcurrentInv, TypeInv, TypeOK
<1>2. PICK out \in {sessions[id], Nil} :
        /\ Get(id, out)
        /\ \/ out = Nil
           \/ out # Nil /\ out.state # "active"
           \/ Return(Server, ChallengeResponse(out), FALSE)
           \/ Proceed(Server, "register", out, hdr)
    BY Zenon DEF RegisterLoad
<1>3. usedIds' = usedIds
  BY DEF RegisterLoad, historyVars
<1>4. CASE out = Nil
  BY <1>2, <1>3, <1>4, <1>t DEF Get, Put, ReliableStore, Settled, StoreTypeOK
<1>5. CASE out # Nil /\ out.state # "active"
  <2>1. sessions' = sessions /\ sessions[id] \in Session /\ sessions[id].state # "active"
    BY <1>2, <1>5, <1>t, GetEffect DEF StoreTypeOK
  <2> QED BY <1>3, <2>1 DEF Settled, Session
<1>6. CASE Return(Server, ChallengeResponse(out), FALSE)
  <2>1. PICK leak \in {FALSE} : Return(Server, ChallengeResponse(out), leak)
    BY <1>6, Zenon
  <2>2. resp'[Server] = ChallengeResponse(out)
    BY <2>1, <1>t DEF Return, WorkerTypeOK
  <2>3. ChallengeResponse(out).status = 403
    BY DEF ChallengeResponse, Respond
  <2>4. 403 \notin {400, 401}
    OBVIOUS
  <2> QED BY <2>2, <2>3, <2>4 DEF Refusal
<1>7. CASE Proceed(Server, "register", out, hdr)
  BY <1>7, <1>t DEF Proceed, WorkerTypeOK
<1> QED BY <1>2, <1>4, <1>5, <1>6, <1>7

\* A call that goes on to a proof does not refuse.
LEMMA ProofsNotRefused ==
  ASSUME SystemInv, AgreementInv, ServeOn
  PROVE  ~Refusal(resp'[Server].status)
<1>t. Server \in Workers /\ WorkerTypeOK /\ TypeInv
  BY SystemAssumption DEF SystemInv, ConcurrentInv, TypeInv, TypeOK
<1>r. ASSUME NEW x, NEW leak, Return(Server, x, leak) PROVE resp'[Server] = x
  BY <1>r, <1>t DEF Return, WorkerTypeOK
<1>s. /\ \A s : ChallengeResponse(s).status = 403
      /\ \A s : SuccessResponse(s).status = 200
      /\ InternalError.status = 0
      /\ ~Refusal(403) /\ ~Refusal(200) /\ ~Refusal(0)
  BY DEF ChallengeResponse, SuccessResponse, InternalError, Respond, Refusal
<1>1. CASE RegisterReject(Server) \/ RefreshReject(Server)
  <2>1. PICK leak : Return(Server, ChallengeResponse(loaded[Server]), leak)
    BY <1>1, Zenon DEF RegisterReject, RefreshReject
  <2>2. resp'[Server] = ChallengeResponse(loaded[Server])
    BY <2>1, <1>r
  <2>3. ChallengeResponse(loaded[Server]).status = 403
    BY <1>s
  <2> QED BY <1>s, <2>2, <2>3
<1>2. CASE RegisterBind(Server) \/ RefreshExtend(Server)
  <2>1. PICK s, e, c : Rotates(Server, s, c, e)
    BY <1>2, <1>t, RotateEffect
  <2>2. PICK x \in {SuccessResponse(s), InternalError}, leak \in BOOLEAN :
          Return(Server, x, leak)
    BY <2>1, Zenon DEF Rotates
  <2>3. resp'[Server] = x
    BY <2>2, <1>r
  <2>4. SuccessResponse(s).status = 200 /\ InternalError.status = 0
    BY <1>s
  <2> QED BY <1>s, <2>2, <2>3, <2>4
<1>3. CASE RegisterNoChallenge(Server) \/ RefreshNoChallenge(Server)
  BY <1>s, <1>3, NoChallengeEnds
<1> QED BY <1>1, <1>2, <1>3 DEF ServeOn

\* Refusals of registrations stay right.
LEMMA RegistrationsStep ==
  ASSUME SystemInv, AgreementInv, HeldApart, LoginsOK, RegistrationsOK, ReliableStore,
         spent \in [{"lost", "failed", "rounds"} -> Nat], [SystemNext]_sysVars
  PROVE  RegistrationsOK'
<1>0. SUFFICES ASSUME spent'.failed = 0
               PROVE  /\ /\ serving' # Nil /\ serving'.path = "register" /\ serving'.live
                         /\ pc'[Server] = "idle" /\ Refusal(resp'[Server].status)
                         => Settled(serving.id)'
                      /\ \A a \in replies' :
                           Refusal(a.status) /\ browser'[a.client].phase = "registering"
                             => Settled(browser[a.client].id)'
  BY DEF RegistrationsOK, Refusal
<1>z. spent.failed = 0 /\ ~Spend("failed", MaxFailed)
  BY <1>0, LossesStay
<1>i. /\ /\ serving # Nil /\ serving.path = "register" /\ serving.live
         /\ pc[Server] = "idle" /\ Refusal(resp[Server].status)
         => Settled(serving.id)
      /\ \A a \in replies :
           Refusal(a.status) /\ browser[a.client].phase = "registering"
             => Settled(browser[a.client].id)
  BY <1>z DEF RegistrationsOK
<1>k. ASSUME NEW id, Settled(id) PROVE Settled(id)'
  <2>1. id \in Ids /\ ConcurrentInv
    BY <1>k DEF Settled, SystemInv, ConcurrentInv, TypeInv, TypeOK, HistoryTypeOK
  <2> QED BY <1>k, <2>1, StepIsManagerStep, SettledStays
<1>1. ASSUME serving' # Nil, serving'.path = "register", serving'.live, pc'[Server] = "idle",
             Refusal(resp'[Server].status)
      PROVE  \E id : id = serving'.id /\ Settled(id)'
  <2>1. CASE ServingStays
    BY <1>1, <1>i, <1>k, <2>1 DEF ServingStays
  <2>2. ASSUME NEW r \in ready, HandleDbsc(r) PROVE serving' = r /\ Settled(r.id)'
    <3>1. serving' = r /\ r \in Open /\ OpenOK(r) /\ r.client \in Clients
      BY <2>2 DEF HandleDbsc, Take, AgreementInv, Open, OpenOK, Requests
    <3>2. browser[r.client].phase = "registering" /\ r.id = browser[r.client].id
      BY <1>1, <3>1 DEF OpenOK, Match
    <3>3. r.id \in Ids /\ r.id \in usedIds /\ r.id # Nil
      BY <3>1, <3>2, RequestHolds, NilAssumption DEF LoginsOK
    <3>4. PICK id \in {r.id, Nil}, proof \in {r.proof, Nil} :
            Seen(r, id, proof) /\ DbscCall(r.path, id, strip_quotes(proof))
      BY <2>2 DEF HandleDbsc
    <3>5. id = r.id
      BY <3>4, <1>z DEF Seen
    <3>6. RegisterLoad(Server, r.id, strip_quotes(proof))
      BY <1>1, <3>1, <3>3, <3>4, <3>5 DEF DbscCall
    <3> QED BY <1>1, <3>1, <3>3, <3>6, RegisterRefused
  <2>3. ASSUME NEW r \in ready, HandleLogin(r) PROVE FALSE
    BY <1>1, <2>3 DEF HandleLogin, Take
  <2>4. CASE ServeOn
    BY <1>1, <2>4, ProofsNotRefused
  <2> QED BY <1>1, <2>1, <2>2, <2>3, <2>4, ServingMoves DEF ServingEnds, ServingGivenUp
<1>2. ASSUME NEW a \in replies', Refusal(a.status), browser'[a.client].phase = "registering"
      PROVE  \E id : id = browser'[a.client].id /\ Settled(id)'
  <2>1. CASE a \in replies
    <3>1. a.client \in Clients
      BY <2>1 DEF AgreementInv, AnsweredOK
    <3>2. BrowserStays(a.client)
      BY <1>2, <3>1, BrowserMoves DEF BrowserRefreshes, BrowserTakes
    <3> QED BY <1>2, <1>i, <1>k, <2>1, <3>2 DEF BrowserStays
  <2>2. CASE Replied(a)
    <3>1. OpenOK(serving) /\ serving \in Requests
      BY <2>2 DEF Replied, AgreementInv, Open, OpenOK
    <3>2. serving.path = "register" /\ serving.id = browser[a.client].id
      BY <1>2, <2>2, <3>1 DEF Replied, OpenOK, Match, Requests, Paths
    <3>3. a.status = resp[Server].status
      BY <2>2, <3>2 DEF Replied, StatusOf
    <3>4. Settled(serving.id)
      BY <1>2, <1>i, <2>2, <3>2, <3>3 DEF Replied
    <3> QED BY <1>k, <2>2, <3>2, <3>4 DEF Replied
  <2>3. CASE TurnedAway(a)
    BY <1>2, <1>z, <2>3 DEF TurnedAway
  <2> QED BY <2>1, <2>2, <2>3, AnswerMoves
<1>3. ASSUME NEW id, id = serving'.id, Settled(id)' PROVE Settled(serving.id)'
  BY <1>3 DEF Settled
<1>4. ASSUME NEW a, NEW id, id = browser'[a.client].id, Settled(id)'
      PROVE  Settled(browser[a.client].id)'
  BY <1>4 DEF Settled
<1> QED BY <1>1, <1>2, <1>3, <1>4

\* Every step keeps RegistrationInv.
LEMMA RegistrationStep ==
  ASSUME SystemInv, AgreementInv, CopyIsCurrent, RefusalInv, RegistrationInv, ReliableStore,
         [SystemNext]_sysVars
  PROVE  RegistrationInv'
<1>1. /\ HeldApart /\ CallOfRequest /\ KeyOfHolder /\ LoginsOK /\ BoundIsReported
      /\ NothingLost /\ RegistrationsOK
  BY DEF RegistrationInv, HolderInv
<1>2. spent \in [{"lost", "failed", "rounds"} -> Nat] /\ ConcurrentInv
  BY DEF RefusalInv, SystemInv
<1>3. HeldApart' /\ CallOfRequest' /\ KeyOfHolder' /\ LoginsOK'
  BY <1>1, HeldApartStep, CallOfRequestStep, KeyOfHolderStep, LoginsOKStep
<1>4. BoundIsReported'
  BY <1>1, <1>2, StepIsManagerStep, BoundIsReportedStep
<1>5. NothingLost' /\ RegistrationsOK'
  BY <1>1, <1>2, NothingLostStep, RegistrationsStep
<1> QED BY <1>3, <1>4, <1>5 DEF RegistrationInv, HolderInv

\* Initial states satisfy RegistrationInv.
LEMMA RegistrationInit == SystemInit => RegistrationInv
<1> SUFFICES ASSUME SystemInit PROVE RegistrationInv
  OBVIOUS
<1>1. /\ serving = Nil /\ replies = {} /\ Open = {} /\ events = {}
      /\ sessions = [id \in Ids |-> Nil]
  BY DEF SystemInit, Init, StoreInit, Open
<1>2. \A b \in Clients : browser[b].id = Nil /\ browser[b].phase = "out"
  <2>1. PICK no \in {FALSE} :
          browser = [c \in Clients |->
                       [phase |-> "out", id |-> Nil, challenge |-> Nil, waiting |-> no]]
    BY Zenon DEF SystemInit
  <2> QED BY <2>1
<1>3. \A b \in Clients : \A id \in Ids : ~Holds(b, id)
  BY <1>1, <1>2, NilAssumption DEF Holds
<1> QED BY <1>1, <1>2, <1>3 DEF RegistrationInv, HolderInv, HeldApart, CallOfRequest, KeyOfHolder,
        LoginsOK, BoundIsReported, NothingLost, RegistrationsOK

\* Only an answer that refuses makes a registering browser give up.
LEMMA RefusalEndsRegistration ==
  ASSUME SystemInv, AgreementInv, [SystemNext]_sysVars, NEW b \in Clients,
         browser[b].phase = "registering", browser'[b].phase = "out"
  PROVE  \E a \in replies : a.client = b /\ Refusal(a.status)
<1>1. browser \in [Clients -> BrowserStates]
  BY DEF SystemInv, BrowsersKnow
<1>2. PICK a : BrowserTakes(b, a)
  BY BrowserMoves DEF BrowserStays, BrowserRefreshes
<1> DEFINE st == browser[b]
           given == IF a.challenge = Nil THEN st.challenge ELSE a.challenge
           idle == [st EXCEPT !.waiting = FALSE, !.challenge = given]
<1>3. After(st, a).phase = "out"
  BY <1>2 DEF BrowserTakes
<1>4. After(st, a) =
        CASE st.phase = "out" /\ a.status = 200 ->
               [idle EXCEPT !.phase = "registering", !.id = a.id]
          [] st.phase \in {"registering", "refreshing"} /\ a.status = 200 ->
               [idle EXCEPT !.phase = "bound"]
          [] st.phase # "out" /\ a.status \in {400, 401} ->
               [idle EXCEPT !.phase = "out", !.id = Nil, !.challenge = Nil]
          [] OTHER -> idle
  BY Zenon DEF After
<1>5. idle.phase = "registering" /\ [idle EXCEPT !.phase = "bound"].phase = "bound"
  BY <1>1 DEF BrowserStates
<1> HIDE DEF idle, given
<1>6. ~Refusal(a.status) => After(st, a) = idle \/ After(st, a) = [idle EXCEPT !.phase = "bound"]
  BY <1>4 DEF Refusal
<1>7. Refusal(a.status)
  BY <1>3, <1>5, <1>6
<1> QED BY <1>2, <1>7 DEF BrowserTakes

\* With a store that does not fail, and as long as no allocation of the wrapper
\* fails, a registering browser is turned away only when its session no longer
\* exists, or when it is bound already, with that browser's own key, and an
\* answer to the browser was lost: no other browser, no delay and no repetition
\* takes a session from whoever logged in.
THEOREM RefusedMeansDone == SystemSpec /\ ReliableStore => RegistrationRefusedOnlyWhenDone
<1> DEFINE Inv == /\ SystemInv /\ AgreementInv /\ KeyPinned /\ CopyIsCurrent /\ RefusalInv
                  /\ RegistrationInv /\ ReliableStore
           Step == \A b \in Clients :
                     /\ spent.failed = 0
                     /\ browser[b].phase = "registering"
                     /\ browser'[b].phase = "out"
                     => LET s == sessions[browser[b].id]
                        IN \/ s = Nil
                           \/ s.state = "bound" /\ s.public_key = KeyOf[b] /\ spent.lost > 0
<1>1. SystemInit => RefusalInv
  <2> SUFFICES ASSUME SystemInit PROVE RefusalInv
    OBVIOUS
  <2>1. spent \in [{"lost", "failed", "rounds"} -> Nat] /\ serving = Nil /\ replies = {}
    BY DEF SystemInit
  <2> QED BY <2>1 DEF RefusalInv, RefusalsOK
<1>2. SystemInv /\ AgreementInv /\ KeyPinned /\ RefusalInv /\ ReliableStore /\ [SystemNext]_sysVars
        => RefusalInv'
  BY RefusalStep
<1>3. SystemInv /\ AgreementInv /\ CopyIsCurrent /\ RefusalInv /\ RegistrationInv /\ ReliableStore
        /\ [SystemNext]_sysVars => RegistrationInv'
  BY RegistrationStep
<1>4. ReliableStore => ReliableStore'
  BY DEF ReliableStore
<1>5. Inv /\ [SystemNext]_sysVars => [Step]_sysVars
  <2> SUFFICES ASSUME Inv, [SystemNext]_sysVars, NEW b \in Clients, spent.failed = 0,
                      browser[b].phase = "registering", browser'[b].phase = "out",
                      sessions[browser[b].id] # Nil
               PROVE  /\ sessions[browser[b].id].state = "bound"
                      /\ sessions[browser[b].id].public_key = KeyOf[b]
                      /\ spent.lost > 0
    OBVIOUS
  <2> DEFINE id == browser[b].id
  <2>0. /\ HeldApart /\ KeyOfHolder /\ LoginsOK /\ BoundIsReported /\ NothingLost /\ RegistrationsOK
    BY DEF RegistrationInv, HolderInv
  <2>1. PICK a \in replies : a.client = b /\ Refusal(a.status)
    BY RefusalEndsRegistration
  <2>2. sessions[id].state = "bound" /\ id \in Ids
    BY <2>0, <2>1 DEF RegistrationsOK, Settled, LoginsOK
  <2>3. Reported(id)
    BY <2>0, <2>2 DEF BoundIsReported
  <2>4. sessions[id].public_key = KeyOf[b]
    <3>1. PICK e \in events : e.type = "REGISTER" /\ e.session = id
      BY <2>3 DEF Reported
    <3>2. sessions[id].public_key = e.key
      BY <3>1 DEF KeyPinned
    <3>3. Holds(b, id)
      BY DEF Holds
    <3> QED BY <2>0, <3>1, <3>2, <3>3 DEF KeyOfHolder
  <2>5. spent.lost # 0
    <3>1. SUFFICES ASSUME spent.lost = 0 PROVE FALSE
      OBVIOUS
    <3>2. Succeeds(b)
      BY <2>0, <2>3, <3>1 DEF NothingLost
    <3>3. Answers(b) = {a} /\ Alive(InHand, b) = {}
      BY <2>1, ReceivedIs
    <3>4. a.status # 200
      BY <2>1 DEF Refusal
    <3> QED BY <3>2, <3>3, <3>4 DEF Succeeds, Answers, Alive, InHand
  <2>6. spent.lost \in Nat
    BY DEF RefusalInv
  <2> QED BY <2>2, <2>4, <2>5, <2>6
<1>6. SystemSpec => []CopyIsCurrent
  <2>1. Spec /\ Serial => []SerialInv
    BY SerialInit, SerialStep, PTL DEF Spec
  <2>2. SerialInv => CopyIsCurrent
    BY DEF SerialInv
  <2> QED BY <2>1, <2>2, ServerImplementsManager, OneWorker, PTL DEF ImplementsManager
<1>7. SystemSpec /\ ReliableStore => []Inv
  <2>1. ReliableStore => []ReliableStore
    BY <1>4, PTL
  <2> QED BY <1>1, <1>2, <1>3, <1>6, <2>1, RegistrationInit, SystemAgreement, ServerKeyPinned, PTL
          DEF SystemSpec
<1> HIDE DEF Inv
<1> QED BY <1>5, <1>7, PTL DEF SystemSpec, RegistrationRefusedOnlyWhenDone
=============================================================================
