------------------------------ MODULE EventLog ------------------------------
(***************************************************************************)
(* The event log of examples/server.c: a fixed array that add_event, the    *)
(* manager's on_event callback, fills under a mutex, and the route that     *)
(* shows it.  The texts of an event are cut to the size of their fields;    *)
(* the number of the event stands for its time.                             *)
(***************************************************************************)
EXTENDS Allocation, FiniteSetsExt

CONSTANT MaxEvents   \* MAX_EVENTS

ASSUME EventLogAssumption == MaxEvents \in Nat \ {0}

VARIABLES
  event_log,    \* the slots
  event_count,  \* how many are in use
  emitted,      \* history: the events add_event was called with
  shown         \* the last answer of GET /api/events, or Nil

logVars == <<event_log, event_count, emitted, shown>>

LogInit ==
  /\ event_log = [i \in 0..(MaxEvents - 1) |-> Nil]
  /\ event_count = 0
  /\ emitted = <<>>
  /\ shown = Nil

\* Mutant of Slot: no wrap-around, the write falls outside the array.
SlotPastEnd == event_count

Slot == event_count % MaxEvents

add_event(type, session_id, detail) ==
  LET e == [time |-> Len(emitted) + 1, type |-> type, session |-> session_id,
            detail |-> detail]
  IN /\ event_log' = [event_log EXCEPT ![Slot] = e]
     /\ event_count' = Min({event_count + 1, MaxEvents})
     /\ emitted' = Append(emitted, e)
     /\ shown' = shown

\* GET /api/events: the slots in use, or 500 when the buffer cannot be had.
api_events ==
  /\ \/ Allocated /\ shown' = [total |-> event_count,
          events |-> [i \in 0..(event_count - 1) |-> event_log[i]]]
     \/ NotAllocated /\ shown' = Nil
  /\ UNCHANGED <<event_log, event_count, emitted>>

\* A log that is full still shows the newest event, only events that
\* happened, and none of them twice: from then on add_event overwrites one
\* slot, and the others stay.
LogKeepsNewest ==
  shown # Nil =>
    LET seen == {shown.events[i] : i \in DOMAIN shown.events}
    IN /\ \A i \in DOMAIN shown.events : \E n \in DOMAIN emitted :
            shown.events[i] = emitted[n]
       /\ emitted # <<>> => emitted[Len(emitted)] \in seen
       /\ \A i, j \in DOMAIN shown.events :
            shown.events[i] = shown.events[j] => i = j
       /\ Len(emitted) <= MaxEvents => shown.total = Len(emitted)
=============================================================================
