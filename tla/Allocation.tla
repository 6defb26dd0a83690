----------------------------- MODULE Allocation -----------------------------
(***************************************************************************)
(* What header.c, instruction.c and the event log share: NULL, an allocator *)
(* that may fail, and arrays that double.                                   *)
(***************************************************************************)
EXTENDS Integers, Sequences

CONSTANTS
  Nil,            \* NULL
  Garbage,        \* what realloc leaves in a new slot
  AllocMayFail,   \* whether malloc, realloc and strdup may fail
  MinCapacity     \* the first size of a growing array, 4 in the code

ASSUME AllocationAssumption ==
  /\ Garbage # Nil /\ Nil \notin BOOLEAN
  /\ AllocMayFail \in BOOLEAN
  /\ MinCapacity \in Nat \ {0}

VARIABLE noMem    \* history: whether an allocation failed

Allocated == noMem' = noMem

NotAllocated == AllocMayFail /\ noMem' = TRUE

\* The capacity of an array that has room for one element more than count.
grow_array(count, capacity) ==
  IF count < capacity THEN capacity
  ELSE IF capacity = 0 THEN MinCapacity ELSE 2 * capacity
=============================================================================
