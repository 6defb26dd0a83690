---------------------------- MODULE SessionStore ----------------------------
(***************************************************************************)
(* What the manager may rely on of an OpenDBSC_Store (store.h): one action  *)
(* operator per function pointer of the vtable, relating the call's         *)
(* argument and result to the sessions before and after it.                 *)
(*                                                                         *)
(* A call that reports failure has stored nothing, all, or lost the session *)
(* of that identifier: memory.c zeroes the slot when a copy runs out of     *)
(* memory, sqlite.c leaves the row alone, redis.c has already SET the value *)
(* when the SADD of the user index fails.                                   *)
(***************************************************************************)
EXTENDS Session, FiniteSets

CONSTANTS
  StoreMayFail,  \* whether the backend may report errors
  MaxTime        \* bound on the clock

ASSUME StoreMayFailAssumption == StoreMayFail \in BOOLEAN

ASSUME MaxTimeAssumption == MaxTime \in Nat

VARIABLES
  sessions,  \* [Ids -> Session \cup {Nil}]: what is stored
  now        \* time(NULL)

storeVars == <<sessions, now>>

StoreTypeOK ==
  /\ sessions \in [Ids -> Session \cup {Nil}]
  /\ \A id \in Ids : sessions[id] # Nil => sessions[id].id = id
  /\ now \in Nat

StoreInit ==
  /\ sessions = [id \in Ids |-> Nil]
  /\ now = 0

Put(id, s) == sessions' = [sessions EXCEPT ![id] = s]

\* A failed write: unchanged, applied all the same, or the session lost.
Torn(s) == \E left \in {sessions[s.id], s, Nil} : Put(s.id, left)

\* create.  memory.c replaces a session of the same id, sqlite.c refuses it.
Create(s, ok) ==
  /\ UNCHANGED now
  /\ \/ ok /\ Put(s.id, s)
     \/ ~ok /\ StoreMayFail /\ Torn(s)
     \/ ~ok /\ sessions[s.id] # Nil /\ UNCHANGED sessions

\* get: a copy of a live session; an expired one is removed on the way.
Get(id, out) ==
  /\ UNCHANGED now
  /\ \/ /\ sessions[id] = Nil
        /\ out = Nil
        /\ UNCHANGED sessions
     \/ /\ sessions[id] # Nil
        /\ IsExpired(sessions[id], now)
        /\ out = Nil
        /\ Put(id, Nil)
     \/ /\ sessions[id] # Nil
        /\ ~IsExpired(sessions[id], now)
        /\ out = sessions[id]
        /\ UNCHANGED sessions
     \/ StoreMayFail /\ out = Nil /\ UNCHANGED sessions

\* Mutant of Update: stores the session whether or not it is there.
Upsert(s, ok) ==
  /\ UNCHANGED now
  /\ \/ ok /\ Put(s.id, s)
     \/ ~ok /\ StoreMayFail /\ Torn(s)

\* update: fails on an unknown id, and does not look at the expiry.
Update(s, ok) ==
  /\ UNCHANGED now
  /\ \/ ok /\ sessions[s.id] # Nil /\ Put(s.id, s)
     \/ ~ok /\ sessions[s.id] = Nil /\ UNCHANGED sessions
     \/ ~ok /\ sessions[s.id] # Nil /\ StoreMayFail /\ Torn(s)

\* delete: removing an unknown id succeeds.
Delete(id, ok) ==
  /\ UNCHANGED now
  /\ \/ ok /\ Put(id, Nil)
     \/ ~ok /\ StoreMayFail /\ UNCHANGED sessions

Tick ==
  /\ now < MaxTime
  /\ now' = now + 1
  /\ UNCHANGED sessions
=============================================================================
