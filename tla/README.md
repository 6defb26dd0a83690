# A TLA+ verification of opendbsc

opendbsc is a C library for Device Bound Session Credentials: a server logs a
user in, the browser registers a public key for the session by signing a
challenge, and from then on it keeps the session alive by signing a new
challenge with the same key. This directory models the library's core, checks
it with TLC on small instances and proves the most important properties with
TLAPS for every instance.

## 1. The system

| Component | State | Operations | Source |
|---|---|---|---|
| session object | id, user, state (active, bound), key, algorithm, challenge, expiry, creation time | setters, copy, new id | `src/session/session.c` |
| session manager | configuration only; works on copies of sessions | initiate, get_session, register, refresh, close | `src/manager/manager.c` |
| proof JWT | none | decode, verify at registration, verify at refresh | `src/protocol/jwt.c` |
| store interface | the stored sessions | create, get, update, delete, get_by_user_id, delete_by_user_id, destroy | `include/store/store.h` |
| in-memory store | array of sessions, count, capacity, mutex | the interface | `src/store/memory.c` |
| Redis store | keys with TTL and per-user sets | the interface | `src/store/redis.c` |
| SQLite store | a table, one connection per process | the interface | `src/store/sqlite.c` |
| ODBC store | a table, one connection and a mutex per process | the interface | `src/store/odbc.c` |
| HTTP wrapper | event loop, running flag | route a request to a manager call, send its response, start, run, stop | `src/wrapper/http.c` |
| structured headers | the locals of a parse | serialise, unquote, parse Secure-Session-Skipped | `src/protocol/header.c` |
| session instructions | string fields, flags, three growing arrays | set, add, free, to JSON | `src/protocol/instruction.c` |
| algorithm names | none | name of an algorithm | `src/algo/algo.c` |
| example server | event log | login page, `/api/events`, signals | `examples/server.c` |

How they interact. The HTTP wrapper calls the manager; the manager calls the
store through its table of function pointers, and the JWT code for proofs; it
answers with a response struct and reports login, registration, refresh and
close to a callback. The store hands out deep copies: a manager call reads a
session, changes its copy and writes it back, and no lock spans the two store
calls. The wrapper itself serves requests from one thread, so calls overlap
when an application calls the manager from several threads (`store.h` promises
thread-safe stores) or when several server processes share one database.

What is hard, and what has to be right:

* **Manager.** Read, check and write back are separate steps. The registered
  key must not be replaced, a challenge must not be accepted twice, a closed
  session must not come back because somebody still holds a copy, the challenge
  sent to the client must be the one the next call will ask for, and all of it
  must survive store calls that fail after doing half of their work.
* **Proofs.** Two flows with opposite rules on the embedded key, an unsigned
  algorithm that only one of them may accept, two signature formats and keys
  of two families.
* **Stores.** Array surgery under failing allocations (memory); check-then-set,
  a second index and key TTLs without transactions (Redis); a change counter
  shared by threads and a listing stepped row by row while others write
  (SQLite); a mutex that every early return has to give back, and drivers that
  report the same outcome differently (ODBC); reading an expired row and
  deleting it in two statements (both).
* **Wrapper.** Ignored return codes, responses that are lost or come too late
  after the challenge was rotated, stopping from a signal handler.
* **Text.** Hand-written scanners with look-ahead that must end, must stay
  inside the buffer and must not report half a list; a second, simpler scanner
  in the wrapper for the same headers; arrays that grow and elements copied
  member by member while allocations fail.

The complete list of hazards, each at its line, is in `PROJECT.json`.

## 2. Modules

    Session ── SessionStore ── AbstractStore
       │ │           │               ▲ implements
       │ ├───────────┼────────── MemoryStore ── MCMemoryStore
       │ ├─ RedisStore ── MCRedisStore
       │ ├─ SqlStore ── MCSqlStore
       └─ ProofJWT ──┴─ Manager ── MCManager
             │            └─ System ── MCSystem
             └─ ProofFlow ── MCProofFlow

    Allocation ─┬─ Header ──────┐
                ├─ EventLog ────┼─ Messages ── MCMessages
                └─ Instruction ─┘

The proofs about a module are in a module of their own that extends it:
ManagerProofs, SystemProofs (which extends ManagerProofs too), ProofFlowProofs,
SqlStoreProofs, RedisStoreProofs, MemoryStoreProofs and MessagesProofs. The
last two also extend Induction, lemmas on the rounds of a loop.

**Session** is the record of `session.h` and the three ways the manager makes a
session: `NewSession` (initiate), `Bound` (register), `Extended` (refresh).
Strings are model values, `Nil` is NULL, and an `expires_at` of `Nil` is a
false `has_expires`. `IsExpired` is strict, like `difftime(...) > 0`.

**ProofJWT** holds the checks of `jwt.c` in their order. A token is a record of
what the checks look at: whether it parses, its claims, the format of its
signature and the key that really signed it. OpenSSL is external: a key
verifies a signature it made, if the bytes that reach it are in the format of
its family.

**SessionStore** states what a caller may rely on of each function of
`store.h`, as action operators over the stored sessions and the clock. They
allow for what the backends differ in: create on a known id replaces (memory)
or fails (SQLite), and a write that reports failure leaves what was there, the
new value, or nothing (`Torn`). **AbstractStore** turns them into a
specification in which any caller calls anything.

**Manager** runs `manager.c` in any number of workers. A call is cut at its
store calls, because that is where others get in:

| Code | Actions |
|---|---|
| `opendbsc_manager_initiate` | `Initiate` (its one store call), `InitiateFails` |
| `opendbsc_manager_get_session` | `GetSession` |
| `opendbsc_manager_register` | `RegisterMissingCookie`; `RegisterLoad` (read and the checks up to the proof); `RegisterReject`, `RegisterNoChallenge`, `RegisterBind` (proof, bind, update, event, response) |
| `opendbsc_manager_refresh` | `RefreshMissingId`, `RefreshLoad`, `RefreshReject`, `RefreshNoChallenge`, `RefreshExtend` |
| `opendbsc_manager_close` | `CloseMissingId`, `CloseLoad`, `CloseDelete` |

A worker's variables are the call's locals: its copy of the session, the proof
header, whether the proof struct still owns memory, the response and the return
code. `usedIds`, `issued` and `events` are histories: what was generated, and
what `emit_event` reported together with the key that signed the proof. Clients
may send any proof shape over any challenge ever issued, so replays and proofs
meant for another session are part of every run.

**MemoryStore** is `memory.c`: the array with its growth, its swap on removal,
its two sweeping loops (recursive functions of the round: a removal moves the
last slot into the hole, so the index stays) and the zeroed slot a failed copy
leaves. Every function holds the mutex throughout and is one action. `Contract` instantiates
AbstractStore with the sessions each identifier finds.

**ProofFlow** puts the two verification flows in sequence, over all tokens and
both key families; Manager's runs use one family so that keys can be permuted.
Each accepted proof rotates the challenge, and the setters of `session.c` may
fail to copy: the manager does not look at their results, so a session can be
bound without its key, or keep the challenge that was just spent. `failed`
records which setters failed: nothing but these failures brings a spent
challenge back, and a session without its key accepts nobody's refresh.

**RedisStore** is `redis.c` command by command. A client is a server process
with its own connection; its call is the list of commands it still has to send,
which stands for its stack, and a nested call (update calls get and create, delete calls get, get calls
delete on an expired value, delete_by_user_id calls delete for one listed
session after the other) puts its commands in front. Nothing in the code bounds
the nesting of get and delete on an expired value: it goes on until Redis drops
the key, or until the stack is full (`StackDepth` commands), when the process
ends and starts again (`Overflow`). Between any two commands other clients act,
the clock ticks, Redis drops keys whose time has come, and, if `CommandsMayFail`, commands fail, replies are lost after the
command was carried out, connections break for good (`redis.c` connects once)
and processes restart. Values are the JSON objects of `session_to_json`.
`deleted` and `scope` are histories: which sessions a completed deletion has to
have removed. A session that is being created while a deletion begins may come
before or after it and is not counted.

**SqlStore** is `sqlite.c` and `odbc.c`, which keep the same table and run the
same statements. A deployment says which of the two it is and which process
each thread runs in, so that one module has the threads behind the ODBC mutex,
the SQLite processes that meet in the file's locks and the threads that share
a SQLite connection. A call is cut at its statements:

| Code | Actions |
|---|---|
| entry of any function, `pthread_mutex_lock` | `Call`, `Lock` |
| `*_create`, `*_delete`, `*_delete_by_user_id` | `Insert`, `Delete`, `DeleteByUserId` |
| `sqlite_update`, `odbc_update` | `UpdateRow`; in SQLite `ReadChanges` (`sqlite3_changes`) follows as a step of its own |
| `*_get` | `SelectById`, and `SweepOne` if the row has expired |
| `odbc_get_by_user_id` | `SelectByUserId`, then `SweepOne` for each expired row |
| `sqlite_get_by_user_id` | `OpenByUserId`, `StepRow` for each row, `StepDone`, then `SweepOne` for each expired row |
| every error exit, SQLITE_BUSY | `StatementFails` |
| the way out, `pthread_mutex_unlock` | `Return` |
| a process that dies, `*_destroy`, `*_store_create` | `Restart` |

Times go through RFC 3339 text. `deleted`, and a call's `hit`, `steady` and
`missed`, are histories: what was removed with success, whether an UPDATE met
a row, and which live sessions were there during the whole of a listing.

**Header** is `header.c`. A quoted string is a sequence of characters of four
classes (quote, backslash, white space, other), which is what the scanners
tell apart; a list is a sequence of lexemes. `ReadHeader`, `ParseItem`,
`ParseParam` and `ParseItemEnd` are the parts of the loop of
`opendbsc_parse_session_skipped`, with its exits and failing allocations. What
it should read is stated twice, as conditions on each lexeme and the ones
around it that share nothing with the parser: `DocumentedList` is the form
`header.h:143-156` describes (reasons separated by commas, each with at most a
quoted `session_identifier`), and `Accepted` with `EntriesOf` the language the
parser really takes. `Accepted` is not the sf-list `header.h:144` names. It has
items without a comma between them and parameters with an empty key, and lacks
valid parameters such as `;x=1` and `;flag`; section 3 lists this with the
other disagreements. The serialisers write values as they are. A value with
bare quotes in it (`TornStrings`), or a reason that is no token (`TornTokens`),
is therefore not one lexeme for a reader but the several lexemes the instance
gives for it, whatever the value.
**Instruction** is `instruction.c`: setters, arrays whose new slots hold
garbage, elements whose members are copied one by one, and the JSON.
**EventLog** is the array of `examples/server.c`. **Messages** puts them on the
path of a request: `handle_session_skipped` parses and reports each entry to
the event callback, the example's `/api/events` shows the log, an endpoint
builds an instruction. **Allocation** holds NULL, the failing allocator and the
doubling of arrays that the three share.

**System** composes the manager with the wrapper, the example's login route and
signal handler, and browsers. It extends Manager with one worker, the event
loop, so every manager step in it is Manager's own action:

| Code | Actions |
|---|---|
| `opendbsc_http_server_run` | `Poll` (what can be read now is handled, then the flag is looked at), `EndLoop` |
| `dbsc_event_handler` | `HandleDbsc` (extract cookie, id and proof, call the manager), `ServeOn` (the call after its read), `ReplyAtOnce` (answers that need no manager) |
| `app_route` | `HandleLogin`, the failed login in `ReplyAtOnce` |
| `send_response` | `Reply` |
| `signal_handler`, `opendbsc_http_server_request_stop` | `RequestStop` |

Network and browser are external and modelled from what the responses ask for:
requests take time, a browser may give a request up at any moment (`Abandon`:
a timeout, a broken connection) and the request may still be handled later,
its answer going nowhere. A browser repeats what it got no usable answer to,
takes over the challenge of any response, and gives the session up on 400 or
401. Allocations of the wrapper and of the manager fail: a header or cookie is
then taken for absent, a refresh without the header `Sec-Secure-Session-Id`
looks for the cookie instead, a response becomes a 500, a login fails with 500,
and a registration or refresh that finds no memory for its next challenge is
answered with the empty response, status 0.

## 3. Runs

| Run | Instance | Shows |
|---|---|---|
| `manager_serial` | 1 worker, 2 sessions, 2 keys, 2 challenges and the constant, unsigned proofs, failing stores, allocations and entropy | type correctness; registered keys stay; no random challenge accepted twice; announced challenges are current; a close that returns 0 has removed the session |
| `manager_concurrent` | 2 workers, 2 sessions, 2 users, 2 keys, 3 challenges, proofs signed by the wrong key | what holds although calls overlap: proven possession, close is final, identity is stable |
| `memory_store` | 3 identifiers, 2 users, up to 4 slots, failing allocations | the array is well formed and implements the store interface |
| `proof_flow` | 2 EC keys, 1 RSA key, 1 unusable key, every token, 4 challenges, failing setters | an accepted proof is owned by the right key; a challenge is spent once, unless the setter of its successor failed; no accepted registration locks its owner out |
| `sql_store` | 2 threads on ODBC, 2 processes on SQLite, 2 threads on one SQLite connection; 2 sessions of one user, failing statements, restarts | deletions last; an update that reports success found its row unless a SQLite connection is shared; listings are complete; behind the mutex a sweep removes only what has expired; the mutex is always given back |
| `messages` | headers of up to 5 lexemes and damaged lists, values with bare quotes, strings of up to 5 characters, 3 instruction calls, allocations failing anywhere | the parser reads every list of the documented form, and of the others exactly the language `Accepted`; serialised lists and registrations read back if nothing in them needed escaping, and values with bare quotes never do; the wrapper's and the library's quotes agree; entries become events once, in order, and none of a refused header; the log shows the newest; JSON mirrors the calls; the handler returns |
| `redis_store` | 1 client with its clock ahead, 2 sessions of one user, failing commands, restarts | stored sessions are what callers passed in and expire when they should; without failures the user's set is complete and deletions hold; what the client sees as expired is dropped within a second; every call ends, by returning or by exhausting the stack |
| `system` | 1 browser, 1 session, 2 abandoned requests, 1 failed allocation of the wrapper or the manager, 1 refresh | browser and store agree on the binding; a refresh is refused only if the session is gone and a registration only if it is gone or was already done; every behaviour is one of Manager; a refresh settles; a stop is carried out |
| `manager_race` | 2 workers, 1 session, 2 keys | **violated**: two overlapping registrations are both acknowledged; the second replaces the key |
| `manager_leak` | 1 worker | **violated**: a refused proof is never freed |
| `redis_race` | 2 clients, no failures | **violated**: an update sets a session again that was deleted after its check |
| `sqlite_race` | 2 threads of one process, no failures | **violated**: an update that met no row reports success, because another thread's statement was counted last |

The violated properties state what a comment of the code says; `findings` in
`PROJECT.json` quotes it and names the lines. `redis_race` and `sqlite_race`
also mean that a Redis shared by several processes, and a SQLite connection
shared by threads, do not meet SessionStore's `Update`; what is shown of
Manager holds over a store that does.

Other disagreements between the code and what is written about it can be read
off the modules and have no run of their own:

* A proof with algorithm "none" and no key leaves a session bound to no
  credential (`session.h:22`: "Session has been bound to a credential.").
* A close whose delete fails returns -1 with a complete success response
  (`manager.h:171`). `CloseIsTruthful` is what is left: the return code tells.
* Without entropy every challenge is the same constant (`manager.c:71`), which
  is accepted again whenever it was given out again. `SpentOnce` excepts it and
  holds of every random challenge, in a run in which both occur.
* RS256 in a proof verifies with an EC key: the family of the key decides, not
  the name of the algorithm (`jwt.c:554`).
* `redis_delete` does not look at its replies (`redis.c:343`): after a failure
  it reports a deletion that did not happen.
* An ODBC driver may report a DELETE that met no row as SQL_NO_DATA, which
  becomes -1 (`odbc.c:343`); `store.h:78` promises 0.
* `parse_session_skipped` returns -1 for malformed text as well;
  `header.h:166-168` lists NULL arguments and failed allocations only. What it
  calls malformed includes parameters a structured field may have (`;x=1`,
  `;flag`), and what it takes includes two items without a comma between them
  and an empty key (`header.h:144`). A
  malformed later parameter also leaves the copied identifier allocated
  (`header.c:376`).
* When its bind fails, `sqlite_get_by_user_id` leaves through code that reads
  `expired_count` before it is initialised (`sqlite.c:415`).
* The serialisers do not escape (`header.c:135-178`, `268-270`): an identifier,
  challenge or authorization with a quote in it is not read back.
* The instruction always announces `Secure`, `HttpOnly` and `SameSite` and never
  `Domain` (`manager.c:216-221`), while the cookie has the attributes that are
  configured (`manager.c:150-175`). The two texts are not modelled.

Bounds. `Ids`, `Keys` and `Users` need two members for one to be mistaken for
another. `SessionTtl = 1` and `MaxTime = 2` let a session expire, be read in
its last second and be refreshed past its first expiry; in RedisStore the clock
goes on ticking at its bound, so that keys are always dropped in the end. Three
challenges are an issue, a registration and a refresh of one session, or two
sessions and one registration. In `manager_serial` the constant of a failing
getentropy is one of the three, and `FewFallbacks` stops where it would be
given to a second session or announced a second time. Proofs signed by the
wrong key are in `manager_concurrent` and, with a proof that lacks the
authorization value, in `manager_leak`. `EnoughChallenges` stops where the next call
would find none left; the code has 2^256. Identifiers are never generated twice
(74 random bits of a UUIDv7). `InitialCapacity = 1` makes the array grow at 1,
2 and 4 instead of 8, 16 and 32; `MaxSlots = 4` leaves room for three sessions
and a zeroed slot. `StackDepth = 6` is room for several rounds of the recursion
of `redis_get`, so that it ends in both ways: Redis drops the key first, or the
stack is exhausted first. The real stack has room for thousands of rounds, one
round trip each; `ExpiredIsShortLived` says how long there is to fill it. In `system` six challenges are what a login, a
registration, a refresh, two abandoned requests (`MaxLost`) and a failed
allocation (`MaxFailed`) can use up, so the loop never lacks one; they are
generated in numerical order (`InOrder`), every other order being a renaming.
In `proof_flow` four challenges are a registration, two refreshes and the
replay of either. In `sql_store` two threads and two sessions make every race
of two statements; sessions expire at the first tick or never, and one tick is
enough to turn a session that was read as live into an expired one. In
`messages` five lexemes are one parameter in every order with one lexeme to
spare, the serialised and damaged lists have up to two items with a parameter
each, and lists of four entries make the entry array and the log overflow; of
the two values with bare quotes one leaves malformed text behind and the other
one more parameter. A value with an odd number of bare quotes, after which every
later quote of the header changes its meaning, is not among them.
`MinCapacity = 1` instead of 4 and `MaxEvents = 2` instead of 100 bring growth
and wrap-around into reach. Three calls fill an array past its second growth.
The inputs of one parser are not multiplied with those of another: a request
has one of the headers, and instructions are built for requests with none.
Deadlock is checked everywhere but in `system`, where the server stops and the
browser's budgets run out, and in `messages`, where a request has an end.

Symmetry: identifiers, keys, challenges, workers and clients are only compared,
so they are permuted in the runs that check nothing but safety.

Fairness. RedisStore: a client inside a call sends its next command (the code
has no other wait), and time passes; nothing is assumed of restarts or of
failures. SqlStore: a thread that is inside a call and has the mutex, or needs
none, runs its next statement; nothing is assumed of who gets the mutex.
Messages: `handle_session_skipped` runs on the server's thread to its end.
System: the loop goes on (`mg_mgr_poll` returns within a second),
what is sent arrives unless its browser gives it up, and a browser with
something to send sends it. Nothing is assumed of logins, timeouts, the clock
or signals.

## 4. Proofs

Every theorem holds for all values of the constants that satisfy the named
`ASSUME`s of the model's modules: any number of workers, threads, processes,
browsers, sessions, keys and challenges, arrays and texts of any length. The
assumptions say that constants are of their kind (flags are Boolean, times and
bounds are naturals), that `Nil`, the fallback challenge and the garbage of an
uninitialised slot are no ordinary values, that callers pass sessions (in
RedisStore an identifier stays with its user, in SqlStore with its creation
time), that header values are sequences of the lexemes a scanner can cut, and
in System that there is one worker and each browser has a key. TLC
evaluates them in the runs. A theorem that needs more has a hypothesis with a
name, and a run shows that it is needed, or the code says so.

**ManagerProofs.**

* `TypeCorrect`: `TypeOK`, from the inductive `TypeInv`, which adds that a
  worker inside a call holds a session in the state its read checked for and,
  before a bind or an extension, a proof.
* `ClosesAreTruthful` (`CloseIsTruthful`), `ClosedForGood`
  (`ClosedStaysClosed`) and `PossessionProven`
  (`ProvenPossession`), from `ConcurrentInv`. It adds what connects a worker's
  copy to the store: identifiers in use, in the store, in copies and in events,
  were generated before, so `initiate` never fills the entry of a closed one;
  every copy and every stored session carries a challenge issued for its
  identifier; and a copy agrees with the stored session on user and creation
  time. With these a stale write-back can only meet an entry that is gone,
  where `update` fails, or the same session.
* `IdentityStable` (`SessionIdentityStable`), an action property, from the same
  invariant.
* Three theorems assume `Serial`: there is at most one worker, as behind the
  bundled wrapper, whose one thread runs every handler to its end. Then a
  worker's copy agrees with the store until its own write.
  `SerialKeyPinned`: `KeyPinned`, stores and allocations failing as they like.
  `SerialSpentOnce`: `SpentOnce`; the strengthening `FreshInv` says of the
  random challenges that accepted ones were issued, no stored session expects
  one of them again, and no two sessions expect the same. Nothing is assumed of
  getentropy: the constant is what the property excepts.
  `SerialAnnounced`: `AnnouncedChallengeIsCurrent`; what a failing store call
  may have left behind is the old session, the new one or none.

`manager_race` shows that `Serial` cannot go. The key lemma
is `WriteEffect`: whatever create or update reports, the entry afterwards is
the old one, the new one or empty, and update never fills an empty one.
`StepKinds` sorts the sixteen actions into calls that answer without the store,
reads and writes, so that each invariant is shown per kind.

**SystemProofs.** `ServerImplementsManager`: for any set of browsers and any
losses, delays and failures, every behaviour of System is one of Manager. A
step of the loop is a manager step only if the proof in the request is one a
client can have, over an issued challenge; `SystemInv` follows a challenge from
session and response to reply, browser and request to show that it is. With one
worker, `ServerKeyPinned`, `ServerSpentOnce` and `ServerAnnounced` follow: in
the deployed server they hold without any assumption on overlap. Then

* `SystemTypeCorrect` (`SystemTypeOK`) and `BoundBrowsersAgree`
  (`BoundIsAgreed`), from `AgreementInv`. A browser that waits has exactly one
  live request or answer, in one of five places (being sent, readable, being
  served, computed, on its way back), and wherever an answer says that a
  registration succeeded, the manager has reported it with that browser's key.
  `KeyPinned` and `ClosedStaysClosed` carry this from the report to the store
  of any later state.
* `RefusedMeansGone` (`RefusedOnlyWhenGone`), if store calls do not fail
  (`ReliableStore`; a read that fails is answered like a session that is not
  there). `RefusalInv` says that every refusal of a live refresh, computed
  or on its way to the browser, is of a session that is gone; `GoneStays` keeps
  that true while it travels, because no identifier is generated twice.
* `RefusedMeansDone` (`RegistrationRefusedOnlyWhenDone`), with the same
  hypothesis. That the refused browser itself has bound the session needs
  `HolderInv`: no two browsers ever have the same identifier, requests they
  have given up included, and a reported registration has the key of the
  browser that has its identifier. That this takes a lost answer is
  `NothingLost`: until something is lost, a browser whose registration was
  reported has its 200 on the way. `RegistrationsOK` follows the refusal.

**ProofFlowProofs.** From `FlowInv` (what was accepted was owned; a stored key
is one that loads; the current challenge is unspent unless a setter of one
failed): `ProofsAreOwned`
(`AcceptedIsOwned`), `ReplayNeedsLostSetter` (`ReplayOnlyWithoutMemory`) and
`RegistrationLocksNobodyOut` (`RegisteredKeyRefreshes`), over every token.
`AcceptedIsOwned` says that the token carries the challenge the session asked
for (`asked`, a history) and whose signature it has; a registration with
algorithm "none" and no key has none, and no refresh is accepted that way.

**SqlStoreProofs**, for any deployment of threads on processes and connections,
failing statements and restarts:

* `SqlTypeCorrect` (`SqlTypeOK`), `DeletedRowsStayAway` (`RowsStayDeleted`) and
  `ListingsAreComplete` (`ListingComplete`), from `SqlInv`: columns read back
  as the session they were bound from, a thread's locals fit its place in the
  code, the mutex is held by exactly one thread between lock and unlock, and
  while rows are stepped each steady live session is listed or still to come.
* `UpdatesAreTruthful` (`UnsharedUpdateIsTruthful`): unless two threads share a
  SQLite connection, the connection's count is the update's own. `sqlite_race`
  shows that the exception is needed; ODBC needs none.
* `SweepTakesOnlyExpired` (`SweptWasExpired`), an action property: what a
  reader behind the mutex is about to delete has expired (`SweepOK`), and
  nobody can extend it in between.

**RedisStoreProofs.** `RedisTypeCorrect` (`RedisTypeOK`) for any number of
clients, any failures and skewed clocks. `RecursionIsShort`
(`ExpiredIsShortLived`) likewise, from `TtlFits`: the TTL of a key is what was
left of its session by the clock of some client, or one second if that was
more; a session that another client already sees as expired is therefore
dropped within a second, or sooner than the two clocks are apart. With one client
(`OneClient`, the case `IndexComplete` and `DeletionTakesEffect` speak of) and
no failed command: `OneClientIndexComplete` and `OneClientDeletionTakesEffect`.
`SoloInv` describes the list of commands a call can have left, however its
nested calls have extended it (`Planned`), that every key is in its user's set
or an SADD for it is pending, that an SREM comes only after its DEL, and that
what the call has to remove is gone, listed or still to be listed. `redis_race`
shows that one client is needed.

**MemoryStoreProofs.** `MemoryTypeCorrect` (`MemoryTypeOK`) and
`MemoryImplementsStore`: every step of the array with growth, swapping removal,
sweeps and zeroed slots is a step of AbstractStore or changes nothing a caller
can see. `MemInv` says that the slots in use fit the capacity and that no
identifier is in two of them. The sweeping loops are handled
by a loop invariant over their rounds: nothing live is removed, what is left of
the array before the index is live, and every identifier still has one slot.

**MessagesProofs**, for texts, lists, logs and call sequences of any length:

* `MessagesTypeCorrect` (`MessagesTypeOK`), `LogShowsNewest`
  (`LogKeepsNewest`), `JsonSaysWhatWasCalled` (`JsonMirrorsCalls`),
  `UnquoteCorrect` (`UnquoteExact`) and `StripCorrect` (`StripAgreesWithUnquote`), from
  `MessagesInv`: the parser's entry array is written up to its count and
  allocated beyond it, the slots of the log hold the first events and the last,
  and an instruction's fields and arrays are, member by member, what the
  successful calls since `instruction_init` have asked for.
* `ParserReadsDocumented` (`ReadsDocumentedLists`) and `EventsFollowHeader`
  (`EventsMirrorHeader`), from `HeadersInv`. `Accepted` is a condition on each
  lexeme and its predecessor, the parser a loop with three positions in each
  round, so the invariant says of the part the parser has taken that it
  violates no condition, where in an item the parser stands (`AtItem`,
  `ItemRead`), and that its entries are those of `EntriesOf` up to there
  (`HasRead`); at each exit one condition is shown to be broken, and at the end
  none. That every `DocumentedList` is `Accepted` is shown apart from the
  parser; the converse does not hold, as section 3 says.
* `SerializersReadBack` (`SerializedReadsBack`), from the same invariant: a
  serialized list of plain entries is cut at its items' offsets, every item is
  shown to be accepted where it stands, and the entries found in it are the
  readable ones of the list. An entry without a reason is not plain: it is
  written as bare parameters, which the parser refuses. Entries with a reason
  outside the specification or no identifier are dropped. A string with bare
  quotes never comes back, because no string the parser reads has one.
* `HandlerEnds`, an action property: `StepsLeft`, a natural number that starts
  at three times the header's lexemes plus four, falls with every step of
  `handle_session_skipped` and rises with no other until the next request. This
  is what `HandlerReturns` rests on besides fairness. It needs that entries are
  fewer than lexemes read (`EntriesCounted`).

**Induction.** The library's induction rules take a predicate, which the
provers cannot instantiate. The lemmas here take a set instead, the rounds
after which a loop's invariant holds, and rest on the well-foundedness of `<`.
They give what a recursive function computes: the sweeps, the arguments of a
list of calls, the position of a closing quote.

Only model-checked is liveness under fairness, which is out of the prover's
reach: `MutexReleased`, `HandlerReturns`, `CallsEnd`, `RefreshSettles` and
`ShutsDown`. Every other property of a passing run has a theorem.

`SweptWasExpired` is stated for one process behind the ODBC mutex; SQLite, and
several ODBC processes on one database, have the race it excludes: they read an
expired row, somebody extends it, and they delete it by its identifier.

## 5. Not modelled

* Formats: base64url, the JSON of tokens and keys, OpenSSL, UUID layout. They
  are verdicts of ProofJWT. The texts of cookies, instruction bodies and
  responses are left out; the model keeps which challenge, session and cookie
  action a response carries.
* `opendbsc_challenge_serialize`, whose output nothing in the library parses,
  and serialised values with an odd number of bare quotes.
* Algorithm names (`algo.c`): a constant table.
* In `odbc.c`, the chunked reading of long columns and the check of the table
  name; in `redis.c`, failing allocations and threads that share one
  connection; in the wrapper, TLS and static files, which are mongoose's; in the
  example, the form parser and the user table.
* In Manager, failing session setters: ProofFlow has them, and Manager fails
  the allocations the manager checks.
* Releases of memory, apart from the proof struct and what a freed instruction
  or a refused header keeps.

## 6. Plan

Done: sessions, proofs, manager, store interface, all four stores, headers,
instructions, event log and the composed server; every safety property of a
passing run is proved. What is left:

1. Measures like `StepsLeft` for the calls of SqlStore and RedisStore, the part
   of `MutexReleased` and `CallsEnd` that can be proved.
2. The parts section 5 lists, first of all the chunked reads of `odbc.c` and the
   failing allocations of `redis.c`.
