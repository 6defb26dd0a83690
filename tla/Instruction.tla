----------------------------- MODULE Instruction ----------------------------
(***************************************************************************)
(* The session instruction of instruction.c: a record of strings, flags and *)
(* three growing arrays that callers fill field by field and turn into      *)
(* JSON.  A JSON object is the record of its keys; a key that is left out   *)
(* is Nil.                                                                  *)
(***************************************************************************)
EXTENDS Allocation, FiniteSets, SequencesExt

CONSTANTS
  Texts,         \* what string fields are set to
  Credentials,   \* records [type, name, attributes], Nil for a NULL field
  Rules,         \* records [type, domain, path]
  MaxCalls       \* bound on the successful calls on one instruction

ASSUME InstructionAssumption ==
  /\ MaxCalls \in Nat
  /\ Garbage \notin Texts /\ Garbage \notin Credentials /\ Garbage \notin Rules

VARIABLES
  inst,   \* the instruction
  calls   \* history: the calls that returned 0 since init or free

instVars == <<inst, calls>>

NoArray == [slots |-> <<>>, count |-> 0]

instruction_init ==
  [session_identifier |-> Nil, refresh_url |-> Nil, origin |-> Nil,
   continue_session |-> TRUE, has_continue |-> FALSE, include_site |-> FALSE,
   credentials |-> NoArray, specification |-> NoArray,
   allowed_refresh_initiators |-> NoArray]

InstInit == inst = instruction_init /\ calls = <<>>

Succeeded(op, arg) == calls' = Append(calls, [op |-> op, arg |-> arg])

\* The field after set_string: a copy that fails leaves it as it was.
set_string(old, v, copied) == IF v = Nil \/ copied THEN v ELSE old

SetField(field, v) ==
  \E copied \in BOOLEAN :
    /\ inst' = [inst EXCEPT ![field] = set_string(@, v, copied)]
    /\ \/ (copied \/ v = Nil) /\ Allocated /\ Succeeded(field, v)
       \/ ~copied /\ v # Nil /\ NotAllocated /\ calls' = calls

instruction_set_session_identifier(v) == SetField("session_identifier", v)

instruction_set_refresh_url(v) == SetField("refresh_url", v)

scope_set_origin(v) == SetField("origin", v)

instruction_set_continue(b) ==
  /\ inst' = [inst EXCEPT !.continue_session = b, !.has_continue = TRUE]
  /\ Succeeded("continue", b)
  /\ Allocated

scope_set_include_site(b) ==
  /\ inst' = [inst EXCEPT !.include_site = b]
  /\ Succeeded("include_site", b)
  /\ Allocated

-----------------------------------------------------------------------------
\* Mutant of Grown: an array that is just full is taken for one with room.
GrownTooLate(a) == IF a.count = Len(a.slots) /\ a.count > 0 THEN a ELSE
  [a EXCEPT !.slots = [i \in 1..(Len(a.slots) + MinCapacity) |->
     IF i <= Len(a.slots) THEN a.slots[i] ELSE Garbage]]

\* Arrays.  A slot that realloc has just made holds anything.
Grown(a) ==
  [a EXCEPT !.slots =
     [i \in 1..grow_array(a.count, Len(a.slots)) |->
        IF i <= Len(a.slots) THEN a.slots[i] ELSE Garbage]]

\* Mutant of CopyFailed: the element counts before it is complete.
CopyFailedCounted(a) ==
  LET g == Grown(a)
  IN [slots |-> [g.slots EXCEPT ![a.count + 1] = Nil], count |-> a.count + 1]

\* The copy of a member fails: the slot is freed, its members are NULL, and it
\* does not count.
CopyFailed(a) ==
  LET g == Grown(a)
  IN [g EXCEPT !.slots[a.count + 1] = Nil]

Pushed(a, e) ==
  [slots |-> [Grown(a).slots EXCEPT ![a.count + 1] = e], count |-> a.count + 1]

AddElement(field, e) ==
  \/ /\ inst' = [inst EXCEPT ![field] = Pushed(@, e)]
     /\ Succeeded(field, e) /\ Allocated
  \/ \* realloc fails
     /\ inst[field].count = Len(inst[field].slots)
     /\ NotAllocated /\ UNCHANGED <<inst, calls>>
  \/ /\ inst' = [inst EXCEPT ![field] = CopyFailed(@)]
     /\ NotAllocated /\ calls' = calls

instruction_add_refresh_initiator(origin) ==
  AddElement("allowed_refresh_initiators", origin)

instruction_add_credential(c) == AddElement("credentials", c)

scope_add_rule(rule) == AddElement("specification", rule)

instruction_free ==
  /\ inst' = instruction_init
  /\ calls' = <<>>
  /\ Allocated

-----------------------------------------------------------------------------
\* The elements as JSON objects: a member that is NULL is left out.
Elements(a) == SubSeq(a.slots, 1, a.count)

Json(id, url, continue, initiators, scope, credentials) ==
  [session_identifier |-> id, refresh_url |-> url, continue |-> continue,
   allowed_refresh_initiators |-> initiators, scope |-> scope,
   credentials |-> credentials]

scope_to_json(i) ==
  [origin |-> i.origin, include_site |-> i.include_site,
   scope_specification |-> Elements(i.specification)]

\* The JSON of an instruction, when no allocation fails.
instruction_to_json(i) ==
  IF i.has_continue /\ ~i.continue_session
  THEN Json(Nil, Nil, FALSE, Nil, Nil, Nil)
  ELSE Json(i.session_identifier, i.refresh_url,
            IF i.has_continue THEN TRUE ELSE Nil,
            IF i.allowed_refresh_initiators.count = 0 THEN Nil
            ELSE Elements(i.allowed_refresh_initiators),
            scope_to_json(i),
            Elements(i.credentials))

-----------------------------------------------------------------------------
BuildStep ==
  \/ /\ Len(calls) < MaxCalls
     /\ \/ \E v \in Texts \cup {Nil} :
             \/ instruction_set_session_identifier(v)
             \/ instruction_set_refresh_url(v)
             \/ scope_set_origin(v)
        \/ \E b \in BOOLEAN : instruction_set_continue(b)
        \/ \E b \in BOOLEAN : scope_set_include_site(b)
        \/ \E v \in Texts : instruction_add_refresh_initiator(v)
        \/ \E c \in Credentials : instruction_add_credential(c)
        \/ \E r \in Rules : scope_add_rule(r)
  \/ calls # <<>> /\ instruction_free

-----------------------------------------------------------------------------
Arrays == {"credentials", "specification", "allowed_refresh_initiators"}

\* Every counted element of an array was written, and fields hold what they
\* were set to.
InstructionTypeOK ==
  /\ \A f \in Arrays :
       /\ inst[f].count \in 0..Len(inst[f].slots)
       /\ Garbage \notin Range(Elements(inst[f]))
  /\ \A f \in {"session_identifier", "refresh_url", "origin"} :
       inst[f] \in Texts \cup {Nil}

\* The arguments of the calls op that succeeded.
ArgsOf(op) ==
  LET args[n \in 0..Len(calls)] ==
        IF n = 0 THEN <<>>
        ELSE IF calls[n].op = op THEN Append(args[n - 1], calls[n].arg)
        ELSE args[n - 1]
  IN args[Len(calls)]

LastArg(op, default) ==
  IF ArgsOf(op) = <<>> THEN default ELSE Last(ArgsOf(op))

\* The JSON says what the calls that reported success asked for and nothing
\* else: the last value of every field, every added element in order; a call
\* that found no memory at any point leaves no trace; an instruction to stop
\* says only that.
JsonMirrorsCalls ==
  LET go == LastArg("continue", Nil)
      initiators == ArgsOf("allowed_refresh_initiators")
  IN instruction_to_json(inst) =
       IF go = FALSE THEN Json(Nil, Nil, FALSE, Nil, Nil, Nil)
       ELSE Json(LastArg("session_identifier", Nil), LastArg("refresh_url", Nil), go,
                 IF initiators = <<>> THEN Nil ELSE initiators,
                 [origin |-> LastArg("origin", Nil),
                  include_site |-> LastArg("include_site", FALSE),
                  scope_specification |-> ArgsOf("specification")],
                 ArgsOf("credentials"))
=============================================================================
