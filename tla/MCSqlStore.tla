----------------------------- MODULE MCSqlStore -----------------------------
(***************************************************************************)
(* SqlStore on a small instance: two threads, one user whose sessions       *)
(* expire when the clock first moves, or never.                             *)
(***************************************************************************)
EXTENDS SqlStore

CONSTANTS t1, t2, p1, p2

MCInputs ==
  {[id |-> id, user_id |-> u, state |-> "bound", public_key |-> Nil,
    algorithm |-> Nil, challenge |-> ch, expires_at |-> t, created_at |-> 0] :
     id \in Ids, u \in Users, ch \in Challenges, t \in {0, Nil}}

OneProcess == [t \in Threads |-> p1]

TwoProcesses == [t \in Threads |-> IF t = t1 THEN p1 ELSE p2]

\* Two threads of one process on SQLite.
SharedConnection == {[backend |-> "sqlite", conn |-> OneProcess]}

\* Also two threads of one process on ODBC, and two processes on SQLite.
MCDeployments ==
  SharedConnection \cup
  {[backend |-> "odbc", conn |-> OneProcess],
   [backend |-> "sqlite", conn |-> TwoProcesses]}
=============================================================================
