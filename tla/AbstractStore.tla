--------------------------- MODULE AbstractStore ---------------------------
(***************************************************************************)
(* The store contract as a specification of its own: any caller may call    *)
(* any function of the vtable with any session, and ret is what the last    *)
(* call returned.  A backend is correct when it implements StoreSpec.       *)
(***************************************************************************)
EXTENDS SessionStore, Sequences

CONSTANT Inputs  \* the sessions callers pass in, a subset of Session

VARIABLE ret     \* what the last call returned

abstractVars == <<storeVars, ret>>

Result(op, arg, ok, out) == [op |-> op, arg |-> arg, ok |-> ok, out |-> out]

AbstractInit == StoreInit /\ ret = Result("none", Nil, TRUE, <<>>)

\* The function, its argument and its result.
Outcome(op, arg, ok, out) == ret' = Result(op, arg, ok, out)

CreateCall == \E s \in Inputs, ok \in BOOLEAN :
  Outcome("create", s, ok, <<>>) /\ Create(s, ok)

GetCall == \E id \in Ids : \E out \in {sessions[id], Nil} :
  /\ Outcome("get", id, out # Nil, IF out = Nil THEN <<>> ELSE <<out>>)
  /\ Get(id, out)

UpdateCall == \E s \in Inputs, ok \in BOOLEAN :
  Outcome("update", s, ok, <<>>) /\ Update(s, ok)

DeleteCall == \E id \in Ids, ok \in BOOLEAN :
  Outcome("delete", id, ok, <<>>) /\ Delete(id, ok)

Owned(u) == {id \in Ids : sessions[id] # Nil /\ sessions[id].user_id = u}

Expired == {id \in Ids : sessions[id] # Nil /\ IsExpired(sessions[id], now)}

Remove(gone) == sessions' = [id \in Ids |-> IF id \in gone THEN Nil ELSE sessions[id]]

\* out lists the sessions of set S, each once, in some order.
Lists(out, S) ==
  /\ {out[i] : i \in DOMAIN out} = S
  /\ Len(out) = Cardinality(S)

\* get_by_user_id: the user's live sessions.  It may purge the user's expired
\* sessions (sqlite.c) or everybody's (memory.c).
GetByUserIdCall == \E u \in Users :
  /\ Outcome("get_by_user_id", u, ret'.ok, ret'.out)
  /\ \/ ret'.ok = TRUE /\ Lists(ret'.out, {sessions[id] : id \in Owned(u) \ Expired})
     \/ ret'.ok = FALSE /\ StoreMayFail /\ ret'.out = <<>>
  /\ UNCHANGED now
  /\ \E gone \in SUBSET Expired : Remove(gone)

\* delete_by_user_id: all of them, or some when it fails.
DeleteByUserIdCall == \E u \in Users, ok \in BOOLEAN :
  /\ Outcome("delete_by_user_id", u, ok, <<>>)
  /\ UNCHANGED now
  /\ \/ ok /\ Remove(Owned(u))
     \/ ~ok /\ StoreMayFail /\ \E gone \in SUBSET Owned(u) : Remove(gone)

\* destroy and a new store: what is not persistent is gone.
RestartCall ==
  /\ Outcome("restart", Nil, TRUE, <<>>)
  /\ UNCHANGED now
  /\ sessions' = sessions \/ Remove(Ids)

AbstractNext ==
  \/ CreateCall
  \/ GetCall
  \/ UpdateCall
  \/ DeleteCall
  \/ GetByUserIdCall
  \/ DeleteByUserIdCall
  \/ RestartCall
  \/ Tick /\ UNCHANGED ret

StoreSpec == AbstractInit /\ [][AbstractNext]_abstractVars
=============================================================================
