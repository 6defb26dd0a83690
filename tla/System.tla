------------------------------- MODULE System -------------------------------
(***************************************************************************)
(* The server as it is deployed: the manager behind the HTTP wrapper        *)
(* (http.c), the example application's login route and shutdown             *)
(* (examples/server.c), and browsers on a network that loses and delays.    *)
(*                                                                         *)
(* One thread runs the event loop, so one worker makes all manager calls,   *)
(* one request after the other.  The browser is external: it does what the  *)
(* responses ask for.  It signs with one key, answers the last challenge it *)
(* was given, repeats a request it got no usable answer to, and gives the   *)
(* session up when it is refused with 400 or 401.  What the wrapper reports *)
(* of skipped sessions goes to the event callback and nowhere else.         *)
(***************************************************************************)
EXTENDS Manager

CONSTANTS
  Server,       \* the thread of the event loop
  Clients,      \* browsers
  KeyOf,        \* [Clients -> Keys]
  MaxLost,      \* bound on the connections that time out or break
  MaxFailed,    \* bound on the allocations that fail
  MaxRounds     \* bound on the refreshes the browsers begin

\* The proofs of a browser, jti left open: with the key, and without it.
Proof(k, jwk, c) ==
  [parses |-> TRUE, algorithm |-> "ES256", type |-> "dbsc+jwt", jwk |-> jwk,
   challenge |-> c, authorization |-> Authorization, signature |-> "raw", signer |-> k]

ASSUME SystemAssumption ==
  /\ Workers = {Server}
  /\ KeyOf \in [Clients -> Keys]
  /\ \A b \in Clients : {Proof(KeyOf[b], KeyOf[b], Nil), Proof(KeyOf[b], Nil, Nil)} \subseteq TokenShapes
  /\ MaxLost \in Nat /\ MaxFailed \in Nat /\ MaxRounds \in Nat

VARIABLES
  running,  \* server->running
  looping,  \* whether opendbsc_http_server_run has not returned
  sent,     \* requests on their way
  arrived,  \* requests the loop can read
  ready,    \* requests this mg_mgr_poll still has to handle
  serving,  \* the request being handled, or Nil
  replies,  \* responses on their way
  browser,  \* [Clients -> [phase, id, challenge, waiting]]
  spent     \* how much of each bound is used up

loopVars == <<running, looping, ready, serving>>
netVars == <<sent, arrived, replies>>
sysVars == <<vars, loopVars, netVars, browser, spent>>

\* A header travels as a quoted structured-field string.
Quoted(t) == [quoted |-> TRUE, value |-> t]

Request(b, path, id, proof) ==
  [client |-> b, path |-> path, id |-> id, proof |-> proof, live |-> TRUE]

\* All requests that are not answered.
Open == sent \cup arrived \cup ready \cup (IF serving = Nil THEN {} ELSE {serving})

Spend(what, max) ==
  /\ spent[what] < max
  /\ spent' = [spent EXCEPT ![what] = @ + 1]

-----------------------------------------------------------------------------
\* opendbsc_http_server_start has succeeded, nobody is logged in.
SystemInit ==
  /\ Init
  /\ running = TRUE
  /\ looping = TRUE
  /\ sent = {}
  /\ arrived = {}
  /\ ready = {}
  /\ serving = Nil
  /\ replies = {}
  /\ browser = [b \in Clients |->
                  [phase |-> "out", id |-> Nil, challenge |-> Nil, waiting |-> FALSE]]
  /\ spent = [lost |-> 0, failed |-> 0, rounds |-> 0]

-----------------------------------------------------------------------------
\* The event loop.  mg_mgr_poll handles what it can read when it is called,
\* and the flag is looked at again when it returns.
Poll ==
  /\ looping
  /\ running
  /\ ready = {} /\ serving = Nil
  /\ arrived # {}
  /\ ready' = arrived
  /\ arrived' = {}
  /\ UNCHANGED <<vars, running, looping, serving, sent, replies, browser, spent>>

\* Mutant of EndLoop: what can be read is to be answered first.
EndLoopWhenIdle ==
  /\ looping
  /\ ~running
  /\ ready = {} /\ serving = Nil /\ arrived = {}
  /\ looping' = FALSE
  /\ UNCHANGED <<vars, running, ready, serving, netVars, browser, spent>>

\* opendbsc_http_server_run returns; main destroys the manager and the store.
EndLoop ==
  /\ looping
  /\ ~running
  /\ ready = {} /\ serving = Nil
  /\ looping' = FALSE
  /\ UNCHANGED <<vars, running, ready, serving, netVars, browser, spent>>

\* signal_handler calls opendbsc_http_server_request_stop, at any moment.
RequestStop ==
  /\ running
  /\ looping
  /\ running' = FALSE
  /\ UNCHANGED <<vars, looping, ready, serving, netVars, browser, spent>>

-----------------------------------------------------------------------------
\* Mutant of strip_quotes: the quotes stay and the token does not parse.
strip_quotes_none(h) == IF h = Nil THEN Nil ELSE [h.value EXCEPT !.parses = FALSE]

strip_quotes(h) == IF h = Nil THEN Nil ELSE h.value

Take(r) ==
  /\ looping
  /\ serving = Nil
  /\ r \in ready
  /\ ready' = ready \ {r}
  /\ serving' = r

\* What the handler sees of r.  A failing copy of a header or cookie is taken
\* for an absent one.  A refresh that has no Sec-Secure-Session-Id then looks for
\* the cookie, which names the same session if the browser still has it.
Seen(r, id, proof) ==
  \/ id = r.id /\ proof = r.proof /\ UNCHANGED spent
  \/ id = r.id /\ proof = r.proof /\ r.path = "refresh" /\ Spend("failed", MaxFailed)
  \/ id = Nil /\ r.id # Nil /\ proof = r.proof /\ Spend("failed", MaxFailed)
  \/ id = r.id /\ proof = Nil /\ r.proof # Nil /\ Spend("failed", MaxFailed)

\* Mutant of DbscCall: both endpoints lead to opendbsc_manager_register.
DbscCallRegister(path, id, hdr) ==
  \/ id = Nil /\ RegisterMissingCookie(Server)
  \/ id # Nil /\ RegisterLoad(Server, id, hdr)

\* Mutant of DbscCall: both endpoints lead to opendbsc_manager_refresh.
DbscCallRefresh(path, id, hdr) ==
  \/ id = Nil /\ RefreshMissingId(Server)
  \/ id # Nil /\ RefreshLoad(Server, id, hdr)

\* The endpoints of the wrapper and the manager functions they call.
DbscCall(path, id, hdr) ==
  \/ path = "register" /\ id = Nil /\ RegisterMissingCookie(Server)
  \/ path = "register" /\ id # Nil /\ RegisterLoad(Server, id, hdr)
  \/ path = "refresh" /\ id = Nil /\ RefreshMissingId(Server)
  \/ path = "refresh" /\ id # Nil /\ RefreshLoad(Server, id, hdr)
  \/ path = "me" /\ id # Nil /\ GetSession(Server, id)

HandleDbsc(r) ==
  /\ Take(r)
  /\ \E id \in {r.id, Nil}, proof \in {r.proof, Nil} :
       /\ Seen(r, id, proof)
       /\ DbscCall(r.path, id, strip_quotes(proof))
  /\ UNCHANGED <<running, looping, netVars, browser>>

\* app_route: POST /login with valid credentials.
HandleLogin(r) ==
  /\ Take(r)
  /\ r.path = "login"
  /\ \/ (\E u \in Users : Initiate(Server, u)) /\ UNCHANGED spent
     \/ InitiateFails(Server) /\ Spend("failed", MaxFailed)
  /\ UNCHANGED <<running, looping, netVars, browser>>

\* The call the handler is in goes on after its store read.
ServeOn ==
  /\ serving # Nil
  /\ \/ /\ \/ RegisterReject(Server)
           \/ RegisterBind(Server)
           \/ RefreshReject(Server)
           \/ RefreshExtend(Server)
        /\ UNCHANGED spent
     \/ /\ RegisterNoChallenge(Server) \/ RefreshNoChallenge(Server)
        /\ Spend("failed", MaxFailed)
  /\ UNCHANGED <<loopVars, netVars, browser>>

Answer(b, status, id, c) ==
  [client |-> b, status |-> status, id |-> id, challenge |-> c]

\* To a connection that is closed nothing is sent.
SendTo(r, answer) == replies' = IF r.live THEN replies \cup {answer} ELSE replies

\* Mutant of StatusOf: the status is that of the return code.
StatusOfCall(path, rs) == IF rs.rc = 0 THEN 200 ELSE 401

\* The status the response is sent with.  The return codes of register and
\* refresh are ignored: an internal error goes out with status 0.
StatusOf(path, rs) ==
  CASE path = "me"    -> IF rs.rc = 0 THEN 200 ELSE 401
    [] path = "login" -> IF rs.rc = 0 THEN rs.status ELSE 500
    [] OTHER          -> rs.status

\* send_response: all of it, or 500 when the header buffer does not grow.
Reply ==
  /\ serving # Nil
  /\ pc[Server] = "idle"
  /\ serving' = Nil
  /\ LET rs == resp[Server]
         b == serving.client
     IN  \/ /\ SendTo(serving, Answer(b, StatusOf(serving.path, rs), rs.session, rs.challenge))
            /\ UNCHANGED spent
         \/ /\ Spend("failed", MaxFailed)
            /\ SendTo(serving, Answer(b, 500, Nil, Nil))
  /\ UNCHANGED <<vars, running, looping, ready, sent, arrived, browser>>

\* Mutant of ReplyAtOnce: no return after the answer.
ReplyAtOnceNoReturn(r) ==
  /\ looping
  /\ serving = Nil
  /\ r \in ready
  /\ Spend("failed", MaxFailed)
  /\ SendTo(r, Answer(r.client, 500, Nil, Nil))
  /\ UNCHANGED <<vars, running, looping, ready, serving, sent, arrived, browser>>

\* What the handler answers without calling the manager: a failed login, a
\* look-up without a cookie, and 500 when uri or method cannot be copied.
ReplyAtOnce(r) ==
  /\ looping
  /\ serving = Nil
  /\ r \in ready
  /\ ready' = ready \ {r}
  /\ \/ /\ r.path = "login"
        /\ SendTo(r, Answer(r.client, 401, Nil, Nil))
        /\ UNCHANGED spent
     \/ /\ r.path = "me"
        /\ Spend("failed", MaxFailed)
        /\ SendTo(r, Answer(r.client, 401, Nil, Nil))
     \/ /\ Spend("failed", MaxFailed)
        /\ SendTo(r, Answer(r.client, 500, Nil, Nil))
  /\ UNCHANGED <<vars, running, looping, serving, sent, arrived, browser>>

-----------------------------------------------------------------------------
\* The network: a request arrives; a request nobody waits for may not.
Arrive(r) ==
  /\ r \in sent
  /\ sent' = sent \ {r}
  /\ arrived' = arrived \cup {r}
  /\ UNCHANGED <<vars, loopVars, replies, browser, spent>>

Vanish(r) ==
  /\ r \in sent
  /\ ~r.live
  /\ sent' = sent \ {r}
  /\ UNCHANGED <<vars, loopVars, arrived, replies, browser, spent>>

-----------------------------------------------------------------------------
\* The browser.
Send(b, r) ==
  /\ ~browser[b].waiting
  /\ sent' = sent \cup {r}
  /\ UNCHANGED <<vars, loopVars, arrived, replies>>

LogIn(b) ==
  /\ browser[b].phase = "out"
  /\ Cardinality(usedIds) + Cardinality({r \in Open : r.path = "login"}) < Cardinality(Ids)
  /\ Send(b, Request(b, "login", Nil, Nil))
  /\ browser' = [browser EXCEPT ![b].waiting = TRUE]
  /\ UNCHANGED spent

Register(b) ==
  /\ browser[b].phase = "registering"
  /\ Send(b, Request(b, "register", browser[b].id,
                     Quoted(Proof(KeyOf[b], KeyOf[b], browser[b].challenge))))
  /\ browser' = [browser EXCEPT ![b].waiting = TRUE]
  /\ UNCHANGED spent

\* The cookie has run out.
NeedRefresh(b) ==
  /\ browser[b].phase = "bound"
  /\ ~browser[b].waiting
  /\ Spend("rounds", MaxRounds)
  /\ browser' = [browser EXCEPT ![b].phase = "refreshing"]
  /\ UNCHANGED <<vars, loopVars, netVars>>

Refresh(b) ==
  /\ browser[b].phase = "refreshing"
  /\ Send(b, Request(b, "refresh", browser[b].id,
                     Quoted(Proof(KeyOf[b], Nil, browser[b].challenge))))
  /\ browser' = [browser EXCEPT ![b].waiting = TRUE]
  /\ UNCHANGED spent

LookUp(b) ==
  /\ browser[b].phase = "bound"
  /\ Send(b, Request(b, "me", browser[b].id, Nil))
  /\ browser' = [browser EXCEPT ![b].waiting = TRUE]
  /\ UNCHANGED spent

\* What a browser makes of an answer in a phase.
After(st, a) ==
  LET given == IF a.challenge = Nil THEN st.challenge ELSE a.challenge
      idle  == [st EXCEPT !.waiting = FALSE, !.challenge = given]
  IN  CASE st.phase = "out" /\ a.status = 200 ->
             [idle EXCEPT !.phase = "registering", !.id = a.id]
        [] st.phase \in {"registering", "refreshing"} /\ a.status = 200 ->
             [idle EXCEPT !.phase = "bound"]
        [] st.phase # "out" /\ a.status \in {400, 401} ->
             [idle EXCEPT !.phase = "out", !.id = Nil, !.challenge = Nil]
        [] OTHER -> idle

Receive(a) ==
  /\ a \in replies
  /\ replies' = replies \ {a}
  /\ browser' = [browser EXCEPT ![a.client] = After(@, a)]
  /\ UNCHANGED <<vars, loopVars, sent, arrived, spent>>

\* A timeout or a broken connection: the request may still reach the server,
\* the answer no longer reaches the browser.
Abandoned(b, r) == IF r # Nil /\ r.client = b THEN [r EXCEPT !.live = FALSE] ELSE r

Abandon(b) ==
  /\ browser[b].waiting
  /\ Spend("lost", MaxLost)
  /\ browser' = [browser EXCEPT ![b].waiting = FALSE]
  /\ sent' = {Abandoned(b, r) : r \in sent}
  /\ arrived' = {Abandoned(b, r) : r \in arrived}
  /\ ready' = {Abandoned(b, r) : r \in ready}
  /\ serving' = IF serving = Nil THEN Nil ELSE Abandoned(b, serving)
  /\ replies' = {a \in replies : a.client # b}
  /\ UNCHANGED <<vars, running, looping>>

SystemTick == ClockTick /\ UNCHANGED <<loopVars, netVars, browser, spent>>

-----------------------------------------------------------------------------
Handle == \E r \in ready : HandleDbsc(r) \/ HandleLogin(r) \/ ReplyAtOnce(r)

Loop == Poll \/ EndLoop \/ Handle \/ ServeOn \/ Reply

BrowserSends(b) == Register(b) \/ Refresh(b)

SystemNext ==
  \/ Loop
  \/ RequestStop
  \/ \E r \in sent : Arrive(r) \/ Vanish(r)
  \/ \E b \in Clients : LogIn(b) \/ BrowserSends(b) \/ NeedRefresh(b) \/ LookUp(b) \/ Abandon(b)
  \/ \E a \in replies : Receive(a)
  \/ SystemTick

\* The loop runs, what is sent arrives unless it is lost, and a browser that
\* has something to send sends it.
SystemFairness ==
  /\ WF_sysVars(Loop)
  /\ WF_sysVars(\E r \in sent : Arrive(r))
  /\ WF_sysVars(\E a \in replies : Receive(a))
  /\ \A b \in Clients : WF_sysVars(BrowserSends(b))

SystemSpec == SystemInit /\ [][SystemNext]_sysVars /\ SystemFairness

-----------------------------------------------------------------------------
Paths == {"login", "register", "refresh", "me"}

Requests ==
  [client: Clients, path: Paths, id: Ids \cup {Nil},
   proof: [quoted: {TRUE}, value: Token] \cup {Nil}, live: BOOLEAN]

ASSUME NilRequestAssumption == Nil \notin Requests /\ Nil \notin [quoted: {TRUE}, value: Token]

\* Every variable holds a value of its type, and a browser that waits has
\* exactly one live request or answer somewhere.
SystemTypeOK ==
  /\ running \in BOOLEAN /\ looping \in BOOLEAN
  /\ Open \subseteq Requests
  /\ browser \in [Clients -> [phase: {"out", "registering", "bound", "refreshing"},
                              id: Ids \cup {Nil}, challenge: ChallengeValues \cup {Nil},
                              waiting: BOOLEAN]]
  /\ \A b \in Clients :
       Cardinality({r \in Open : r.client = b /\ r.live} \cup {a \in replies : a.client = b})
         = IF browser[b].waiting THEN 1 ELSE 0

\* A browser that was told it is bound is right: while its session exists it
\* is bound to that browser's key.
BoundIsAgreed ==
  \A b \in Clients :
    browser[b].phase \in {"bound", "refreshing"} =>
      LET s == sessions[browser[b].id]
      IN  s # Nil => s.state = "bound" /\ s.public_key = KeyOf[b]

\* A refreshing browser, whatever was lost or repeated before, is turned away
\* only when its session no longer exists, unless an allocation failed.
RefusedOnlyWhenGone ==
  [][\A b \in Clients :
       /\ spent.failed = 0
       /\ browser[b].phase = "refreshing"
       /\ browser'[b].phase = "out"
       => sessions[browser[b].id] = Nil]_sysVars

\* A registering browser is turned away only when its session no longer
\* exists, or when an earlier registration of its own got through and only
\* the answer was lost: the key the server then holds is that browser's.
RegistrationRefusedOnlyWhenDone ==
  [][\A b \in Clients :
       /\ spent.failed = 0
       /\ browser[b].phase = "registering"
       /\ browser'[b].phase = "out"
       => LET s == sessions[browser[b].id]
          IN \/ s = Nil
             \/ s.state = "bound" /\ s.public_key = KeyOf[b] /\ spent.lost > 0]_sysVars

\* The loop's requests reach the manager as one worker's calls: what is proved
\* of the manager without overlap holds of the deployed server.
ImplementsManager == Spec

\* A browser that must refresh gets through or is told to log in, however its
\* challenge fell behind, unless the server is stopped.
RefreshSettles ==
  \A b \in Clients :
    browser[b].phase = "refreshing" ~> browser[b].phase # "refreshing" \/ ~running

\* A stopped server stops: no request keeps the loop from ending.
ShutsDown == ~running ~> ~looping
=============================================================================
