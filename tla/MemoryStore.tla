---------------------------- MODULE MemoryStore ----------------------------
(***************************************************************************)
(* The in-memory backend (memory.c): an array of session structs, searched  *)
(* from the front, grown by doubling and shrunk by moving the last slot     *)
(* into the gap.  Every function holds the mutex from its first access to   *)
(* the array to its last, so each is one action.                            *)
(*                                                                         *)
(* slots is sessions[0..count-1]; Nil in it is a slot whose strings are all *)
(* NULL, which a failed copy leaves behind: no search finds it, no sweep    *)
(* removes it, and it is still counted.                                     *)
(***************************************************************************)
EXTENDS Session, SequencesExt

CONSTANTS
  Inputs,           \* the sessions callers pass in
  InitialCapacity,  \* OPENDBSC_MEMORY_STORE_INITIAL_CAPACITY
  AllocMayFail,     \* whether malloc, realloc and strdup may fail
  MaxTime,          \* bound on the clock
  MaxSlots          \* bound on the array: an append beyond it is not explored

ASSUME MemoryAssumption ==
  /\ Inputs \subseteq Session
  /\ InitialCapacity \in Nat \ {0}
  /\ AllocMayFail \in BOOLEAN
  /\ MaxTime \in Nat /\ MaxSlots \in Nat

VARIABLES slots, capacity, now, ret

vars == <<slots, capacity, now, ret>>

Result(op, arg, ok, out) == [op |-> op, arg |-> arg, ok |-> ok, out |-> out]

\* memory_store_find: the index, 0 here for the code's -1.
find(id) == SelectInSeq(slots, LAMBDA s : s # Nil /\ s.id = id)

\* memory_store_remove_at: the last slot moves into the gap.
remove_at(sq, i) == SubSeq([sq EXCEPT ![i] = sq[Len(sq)]], 1, Len(sq) - 1)

\* Mutant of Sweep: moves on after a removal, past the slot moved into the gap.
SweepSkipping(sq, dropped) ==
  LET after[n \in 0..Len(sq)] ==
        IF n = 0 THEN [i |-> 1, rest |-> sq]
        ELSE LET st == after[n - 1]
             IN  IF st.i > Len(st.rest) THEN st
                 ELSE [i |-> st.i + 1,
                       rest |-> IF st.rest[st.i] \in dropped THEN remove_at(st.rest, st.i)
                                ELSE st.rest]
  IN  after[Len(sq)].rest

\* One round: it drops the slot it looks at or moves on, and a slot moved into
\* the gap is looked at in the next round.
Round(st, dropped) ==
  IF st.rest[st.i] \in dropped
  THEN [i |-> st.i, rest |-> remove_at(st.rest, st.i)]
  ELSE [i |-> st.i + 1, rest |-> st.rest]

\* The loop of memory_store_expire and of delete_by_user_id, dropping the slots
\* whose value is in dropped.  There are as many rounds as slots.
Sweep(sq, dropped) ==
  LET after[n \in 0..Len(sq)] ==
        IF n = 0 THEN [i |-> 1, rest |-> sq] ELSE Round(after[n - 1], dropped)
  IN  after[Len(sq)].rest

\* memory_store_is_expired: a zeroed slot has no expiry.
is_expired(s) == s # Nil /\ IsExpired(s, now)

has_user(s, u) == s # Nil /\ s.user_id = u

\* The copies get_by_user_id makes, slot by slot.
matches(sq, u) ==
  LET copied[n \in 0..Len(sq)] ==
        IF n = 0 THEN <<>>
        ELSE IF has_user(sq[n], u) THEN Append(copied[n - 1], sq[n])
        ELSE copied[n - 1]
  IN  copied[Len(sq)]

\* Mutant of Full: off by one.
FullLate == ~(Len(slots) <= capacity)

\* memory_store_grow
Full == ~(Len(slots) < capacity)

Grown ==
  IF ~Full THEN capacity
  ELSE IF capacity = 0 THEN InitialCapacity ELSE capacity * 2

-----------------------------------------------------------------------------
Init ==
  /\ slots = <<>>
  /\ capacity = 0
  /\ now = 0
  /\ ret = Result("none", Nil, TRUE, <<>>)

\* Overwrite slot i with a copy of s.  The old strings are freed first, so a
\* copy that fails leaves a zeroed slot.
Overwrite(op, i, s) ==
  \/ /\ slots' = [slots EXCEPT ![i] = s]
     /\ ret' = Result(op, s, TRUE, <<>>)
  \/ /\ AllocMayFail
     /\ slots' = [slots EXCEPT ![i] = Nil]
     /\ ret' = Result(op, s, FALSE, <<>>)

CreateReplace(s) ==
  /\ find(s.id) # 0
  /\ Overwrite("create", find(s.id), s)
  /\ UNCHANGED <<capacity, now>>

CreateAppend(s) ==
  /\ find(s.id) = 0
  /\ Len(slots) < MaxSlots
  /\ capacity' = Grown
  /\ slots' = Append(slots, s)
  /\ ret' = Result("create", s, TRUE, <<>>)
  /\ UNCHANGED now

\* realloc fails, or the copy into the new slot does.
CreateFails(s) ==
  /\ find(s.id) = 0
  /\ AllocMayFail
  /\ \/ Full /\ UNCHANGED capacity
     \/ capacity' = Grown
  /\ ret' = Result("create", s, FALSE, <<>>)
  /\ UNCHANGED <<slots, now>>

GetMissing(id) ==
  /\ find(id) = 0
  /\ ret' = Result("get", id, FALSE, <<>>)
  /\ UNCHANGED <<slots, capacity, now>>

GetExpired(id) ==
  /\ find(id) # 0
  /\ is_expired(slots[find(id)])
  /\ slots' = remove_at(slots, find(id))
  /\ ret' = Result("get", id, FALSE, <<>>)
  /\ UNCHANGED <<capacity, now>>

GetLive(id) ==
  /\ find(id) # 0
  /\ ~is_expired(slots[find(id)])
  /\ \/ ret' = Result("get", id, TRUE, <<slots[find(id)]>>)
     \/ AllocMayFail /\ ret' = Result("get", id, FALSE, <<>>)
  /\ UNCHANGED <<slots, capacity, now>>

Update(s) ==
  /\ \/ /\ find(s.id) = 0
        /\ ret' = Result("update", s, FALSE, <<>>)
        /\ UNCHANGED slots
     \/ /\ find(s.id) # 0
        /\ Overwrite("update", find(s.id), s)
  /\ UNCHANGED <<capacity, now>>

Delete(id) ==
  /\ slots' = IF find(id) # 0 THEN remove_at(slots, find(id)) ELSE slots
  /\ ret' = Result("delete", id, TRUE, <<>>)
  /\ UNCHANGED <<capacity, now>>

\* get_by_user_id: the purge happens whatever becomes of the copies.
GetByUserId(u) ==
  /\ slots' = Sweep(slots, {s \in Range(slots) : is_expired(s)})
  /\ \/ ret' = Result("get_by_user_id", u, TRUE, matches(slots', u))
     \/ /\ AllocMayFail
        /\ matches(slots', u) # <<>>
        /\ ret' = Result("get_by_user_id", u, FALSE, <<>>)
  /\ UNCHANGED <<capacity, now>>

DeleteByUserId(u) ==
  /\ slots' = Sweep(slots, {s \in Range(slots) : has_user(s, u)})
  /\ ret' = Result("delete_by_user_id", u, TRUE, <<>>)
  /\ UNCHANGED <<capacity, now>>

\* destroy, then opendbsc_memory_store_create again.
Restart ==
  /\ slots' = <<>>
  /\ capacity' = 0
  /\ ret' = Result("restart", Nil, TRUE, <<>>)
  /\ UNCHANGED now

Tick ==
  /\ now < MaxTime
  /\ now' = now + 1
  /\ UNCHANGED <<slots, capacity, ret>>

Next ==
  \/ \E s \in Inputs : CreateReplace(s)
  \/ \E s \in Inputs : CreateAppend(s)
  \/ \E s \in Inputs : CreateFails(s)
  \/ \E s \in Inputs : Update(s)
  \/ \E id \in Ids : GetMissing(id)
  \/ \E id \in Ids : GetExpired(id)
  \/ \E id \in Ids : GetLive(id)
  \/ \E id \in Ids : Delete(id)
  \/ \E u \in Users : GetByUserId(u)
  \/ \E u \in Users : DeleteByUserId(u)
  \/ Restart
  \/ Tick

Spec == Init /\ [][Next]_vars

-----------------------------------------------------------------------------
\* An identifier is in one slot only, so the first one find meets is the one.
OneSlotPerId ==
  \A i, j \in DOMAIN slots :
    slots[i] # Nil /\ slots[j] # Nil /\ slots[i].id = slots[j].id => i = j

\* The array is well formed: its slots hold sessions or were zeroed by a copy
\* that failed, no identifier is in two of them, and it is never written past
\* its allocation, since grow runs before every append.
MemoryTypeOK ==
  /\ slots \in Seq(Session \cup {Nil})
  /\ capacity \in Nat
  /\ Len(slots) <= capacity
  /\ OneSlotPerId
  /\ now \in 0..MaxTime
  /\ ret.ok \in BOOLEAN /\ ret.out \in Seq(Session)

\* What callers see: the session each identifier finds.
Stored == [id \in Ids |-> IF find(id) = 0 THEN Nil ELSE slots[find(id)]]

Contract == INSTANCE AbstractStore WITH
  sessions <- Stored, StoreMayFail <- AllocMayFail

\* The array, with its swaps, sweeps and zeroed slots, keeps the contract of
\* store.h: every call changes and returns what the contract allows, and can
\* fail only when memory runs out.
ImplementsStore == Contract!StoreSpec
=============================================================================
