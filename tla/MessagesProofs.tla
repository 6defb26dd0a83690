--------------------------- MODULE MessagesProofs ---------------------------
(***************************************************************************)
(* Proofs about a request's way through the wrapper: the parser's entries   *)
(* and the instruction's arrays stay inside their allocations, the event    *)
(* log shows what happened, both ways to read a quoted header agree, the    *)
(* parser of the skipped header takes the lists its header file describes   *)
(* and comes to an end, and what the serialisers write reads back unless a  *)
(* quote in it is bare, for texts, logs and instructions of every size.     *)
(***************************************************************************)
EXTENDS Messages, Induction

-----------------------------------------------------------------------------
(* Sequences whose elements may be anything.                                *)

IsSequence(s) == s \in Seq({s[i] : i \in DOMAIN s})

\* The length, the elements and an extension of such a sequence.
LEMMA SequenceFacts ==
  ASSUME NEW s, IsSequence(s), NEW e
  PROVE  /\ Len(s) \in Nat /\ DOMAIN s = 1..Len(s)
         /\ IsSequence(Append(s, e))
         /\ Len(Append(s, e)) = Len(s) + 1
         /\ Append(s, e)[Len(s) + 1] = e
         /\ \A i \in 1..Len(s) : Append(s, e)[i] = s[i]
<1> DEFINE S == {s[i] : i \in DOMAIN s}
           T == S \cup {e}
           a == Append(s, e)
<1>1. s \in Seq(S) BY DEF IsSequence
<1>2. Len(s) \in Nat /\ DOMAIN s = 1..Len(s) /\ \A i \in 1..Len(s) : s[i] \in S BY <1>1
<1> HIDE DEF S
<1>3. s \in Seq(T) BY <1>1, <1>2
<1>4. /\ a \in Seq(T) /\ Len(a) = Len(s) + 1 /\ a[Len(s) + 1] = e
      /\ \A i \in 1..Len(s) : a[i] = s[i]
  BY <1>3
<1> HIDE DEF a, T
<1>5. IsSequence(a)
  <2> DEFINE U == {a[i] : i \in DOMAIN a}
  <2>1. Len(a) \in Nat /\ DOMAIN a = 1..Len(a) /\ a \in [1..Len(a) -> T] BY <1>4
  <2>2. a \in [1..Len(a) -> U] BY <2>1
  <2> HIDE DEF U
  <2>3. a \in Seq(U) BY <2>1, <2>2
  <2> QED BY <2>3 DEF IsSequence, U
<1> QED BY <1>2, <1>4, <1>5 DEF a

\* The empty sequence is one.
LEMMA EmptySequence == IsSequence(<<>>) /\ Len(<<>>) = 0
BY DEF IsSequence

-----------------------------------------------------------------------------
(* The parser.                                                              *)

ScanFields ==
  {"pc", "p", "reason", "session_id", "entries", "capacity", "reported", "rc"}

\* The entries that were read are a sequence inside its allocation.
ScanOK ==
  /\ DOMAIN scan = ScanFields
  /\ scan.capacity \in Nat
  /\ IsSequence(scan.entries)
  /\ HeaderTypeOK

\* A parser that stops keeps nothing of what it read.
LEMMA FailedOK ==
  ASSUME ScanOK, scan' = Failed
  PROVE  ScanOK' /\ scan'.pc = "done"
<1>1. /\ DOMAIN scan' = ScanFields /\ scan'.pc = "done" /\ scan'.rc = -1
      /\ scan'.entries = <<>> /\ scan'.capacity = 0
  BY DEF ScanOK, ScanFields, Failed
<1>2. IsSequence(scan'.entries) /\ Len(scan'.entries) = 0 /\ DOMAIN scan'.entries = {}
  BY <1>1, EmptySequence
<1> QED BY <1>1, <1>2 DEF ScanOK, HeaderTypeOK

\* Steps that move through the text leave the entries alone.
LEMMA MovedOK ==
  ASSUME ScanOK, DOMAIN scan' = ScanFields,
         scan'.pc \in {"idle", "request", "item", "param", "report", "done"},
         scan'.rc \in {Nil, 0, -1},
         scan'.entries = scan.entries, scan'.capacity = scan.capacity
  PROVE  ScanOK'
BY DEF ScanOK, HeaderTypeOK

\* grow_array leaves room for one more.
LEMMA GrowRoom ==
  ASSUME NEW count \in Nat, NEW capacity \in Nat, count <= capacity
  PROVE  grow_array(count, capacity) \in Nat /\ count + 1 <= grow_array(count, capacity)
BY AllocationAssumption DEF grow_array

\* Every step of the parser keeps its entries in order.
LEMMA ParseOK ==
  ASSUME ScanOK, ParseStep
  PROVE  ScanOK' /\ scan.pc \in {"request", "item", "param"}
<1>1. CASE ReadHeader
  <2>1. scan.pc = "request" BY <1>1 DEF ReadHeader
  <2>2. \E to \in {"item", "done"} : scan' = [scan EXCEPT !.pc = to]
    BY <1>1 DEF ReadHeader
  <2>3. PICK to \in {"item", "done"} : scan' = [scan EXCEPT !.pc = to] BY <2>2
  <2>4. /\ DOMAIN scan' = ScanFields /\ scan'.pc = to /\ scan'.rc = scan.rc
        /\ scan'.entries = scan.entries /\ scan'.capacity = scan.capacity
    BY <2>3 DEF ScanOK, ScanFields
  <2> QED BY <2>1, <2>4, MovedOK DEF ScanOK, HeaderTypeOK
<1>2. CASE ParseItem
  <2> DEFINE p == Skip(scan.p, {"space", "comma"})
  <2>1. scan.pc = "item" BY <1>2 DEF ParseItem
  <2>2. \/ scan' = [scan EXCEPT !.pc = "report", !.p = p, !.rc = 0]
        \/ scan' = [scan EXCEPT !.pc = "param", !.p = p + 1,
                                !.reason = skipped[p].v, !.session_id = Nil]
        \/ scan' = Failed
    BY <1>2 DEF ParseItem
  <2> HIDE DEF p
  <2>3. CASE scan' = [scan EXCEPT !.pc = "report", !.p = p, !.rc = 0]
    <3>1. /\ DOMAIN scan' = ScanFields /\ scan'.pc = "report" /\ scan'.rc = 0
          /\ scan'.entries = scan.entries /\ scan'.capacity = scan.capacity
      BY <2>3 DEF ScanOK, ScanFields
    <3> QED BY <2>1, <3>1, MovedOK
  <2>4. CASE scan' = [scan EXCEPT !.pc = "param", !.p = p + 1,
                                  !.reason = skipped[p].v, !.session_id = Nil]
    <3>1. /\ DOMAIN scan' = ScanFields /\ scan'.pc = "param" /\ scan'.rc = scan.rc
          /\ scan'.entries = scan.entries /\ scan'.capacity = scan.capacity
      BY <2>4 DEF ScanOK, ScanFields
    <3> QED BY <2>1, <3>1, MovedOK DEF ScanOK, HeaderTypeOK
  <2> QED BY <2>1, <2>2, <2>3, <2>4, FailedOK
<1>3. CASE ParseParam
  <2>1. scan.pc = "param" BY <1>3 DEF ParseParam
  <2>2. \/ \E val : scan' = [scan EXCEPT !.p = val + 1]
        \/ \E val : scan' = [scan EXCEPT !.p = val + 1, !.session_id = skipped[val].v]
        \/ scan' = Failed
    BY <1>3, Zenon DEF ParseParam, ParseValue
  <2>3. ASSUME NEW val, scan' = [scan EXCEPT !.p = val + 1] PROVE ScanOK'
    <3>1. /\ DOMAIN scan' = ScanFields /\ scan'.pc = scan.pc /\ scan'.rc = scan.rc
          /\ scan'.entries = scan.entries /\ scan'.capacity = scan.capacity
      BY <2>3 DEF ScanOK, ScanFields
    <3> QED BY <3>1, MovedOK DEF ScanOK, HeaderTypeOK
  <2>4. ASSUME NEW val, scan' = [scan EXCEPT !.p = val + 1, !.session_id = skipped[val].v]
        PROVE  ScanOK'
    <3>1. /\ DOMAIN scan' = ScanFields /\ scan'.pc = scan.pc /\ scan'.rc = scan.rc
          /\ scan'.entries = scan.entries /\ scan'.capacity = scan.capacity
      BY <2>4 DEF ScanOK, ScanFields
    <3> QED BY <3>1, MovedOK DEF ScanOK, HeaderTypeOK
  <2> QED BY <2>1, <2>2, <2>3, <2>4, FailedOK
<1>4. CASE ParseItemEnd
  <2> DEFINE e == [reason |-> scan.reason, session_id |-> scan.session_id]
             room == grow_array(Len(scan.entries), scan.capacity)
  <2>1. scan.pc = "param" BY <1>4 DEF ParseItemEnd
  <2>2. \/ scan' = [scan EXCEPT !.pc = "item", !.session_id = Nil]
        \/ /\ Keepable
           /\ scan' = [scan EXCEPT !.pc = "item", !.session_id = Nil,
                                   !.entries = Append(scan.entries, e), !.capacity = room]
        \/ scan' = Failed
    BY <1>4 DEF ParseItemEnd
  <2>3. e.reason = scan.reason /\ e.session_id = scan.session_id OBVIOUS
  <2> HIDE DEF e, room
  <2>4. CASE scan' = [scan EXCEPT !.pc = "item", !.session_id = Nil]
    <3>1. /\ DOMAIN scan' = ScanFields /\ scan'.pc = "item" /\ scan'.rc = scan.rc
          /\ scan'.entries = scan.entries /\ scan'.capacity = scan.capacity
      BY <2>4 DEF ScanOK, ScanFields
    <3> QED BY <2>1, <3>1, MovedOK DEF ScanOK, HeaderTypeOK
  <2>5. CASE /\ Keepable
             /\ scan' = [scan EXCEPT !.pc = "item", !.session_id = Nil,
                                     !.entries = Append(scan.entries, e), !.capacity = room]
    <3> DEFINE new == Append(scan.entries, e)
               n == Len(scan.entries)
    <3>1. /\ DOMAIN scan' = ScanFields /\ scan'.pc = "item" /\ scan'.rc = scan.rc
          /\ scan'.entries = new /\ scan'.capacity = room
      BY <2>5 DEF ScanOK, ScanFields
    <3>2. IsSequence(scan.entries) /\ scan.rc \in {Nil, 0, -1} /\ scan.capacity \in Nat
          /\ n <= scan.capacity
          /\ \A i \in DOMAIN scan.entries :
               scan.entries[i].reason \in ValidReasons /\ scan.entries[i].session_id # Nil
      BY DEF ScanOK, HeaderTypeOK
    <3>3. /\ n \in Nat /\ DOMAIN scan.entries = 1..n /\ IsSequence(new)
          /\ Len(new) = n + 1 /\ new[n + 1] = e /\ \A i \in 1..n : new[i] = scan.entries[i]
      BY <3>2, SequenceFacts
    <3> HIDE DEF new, n
    <3>4. room \in Nat /\ n + 1 <= room BY <3>2, <3>3, GrowRoom DEF room, n
    <3>5. e.reason \in ValidReasons /\ e.session_id # Nil BY <2>3, <2>5 DEF Keepable
    <3>6. Len(new) \in Nat /\ DOMAIN new = 1..(n + 1) BY <3>3, SequenceFacts
    <3>7. \A i \in DOMAIN new : new[i].reason \in ValidReasons /\ new[i].session_id # Nil
      BY <3>2, <3>3, <3>5, <3>6
    <3> QED BY <2>1, <3>1, <3>2, <3>3, <3>4, <3>7 DEF ScanOK, HeaderTypeOK
  <2> QED BY <2>1, <2>2, <2>4, <2>5, FailedOK
<1> QED BY <1>1, <1>2, <1>3, <1>4 DEF ParseStep

-----------------------------------------------------------------------------
(* The event log.                                                           *)

\* The number of the event that slot i holds: once the array is full, slot 0
\* takes every new one.
Held(i) == IF i = 0 /\ Len(emitted) > MaxEvents THEN Len(emitted) ELSE i + 1

\* The answer of GET /api/events.
View ==
  [total |-> event_count, events |-> [i \in 0..(event_count - 1) |-> event_log[i]]]

LogOK ==
  /\ IsSequence(emitted)
  /\ \A n \in DOMAIN emitted : emitted[n].time = n
  /\ event_count = IF Len(emitted) <= MaxEvents THEN Len(emitted) ELSE MaxEvents
  /\ DOMAIN event_log = 0..(MaxEvents - 1)
  /\ \A i \in 0..(event_count - 1) : event_log[i] = emitted[Held(i)]

\* What was shown is still what the log holds: add_event only runs while the
\* header is reported, and that is over when the route answers.
ShownOK == shown # Nil => scan.pc = "done" /\ shown = View

\* The smaller of two numbers.
LEMMA MinOfTwo ==
  ASSUME NEW a \in Int, NEW b \in Int
  PROVE  Min({a, b}) = IF a <= b THEN a ELSE b
<1> DEFINE S == {a, b}
<1>1. \E x \in S : \A y \in S : x <= y OBVIOUS
<1>2. Min(S) \in S /\ \A y \in S : Min(S) <= y
  <2> HIDE DEF S
  <2> QED BY <1>1, Zenon DEF Min
<1> QED BY <1>2

\* add_event keeps the log.
LEMMA AddEventOK ==
  ASSUME LogOK, NEW type, NEW id, NEW detail, add_event(type, id, detail)
  PROVE  LogOK' /\ shown' = shown
<1> DEFINE n == Len(emitted)
           e == [time |-> n + 1, type |-> type, session |-> id, detail |-> detail]
<1>1. /\ event_log' = [event_log EXCEPT ![Slot] = e]
      /\ event_count' = Min({event_count + 1, MaxEvents})
      /\ emitted' = Append(emitted, e) /\ shown' = shown
  BY DEF add_event
<1>2. /\ n \in Nat /\ DOMAIN emitted = 1..n /\ IsSequence(emitted') /\ Len(emitted') = n + 1
      /\ emitted'[n + 1] = e /\ \A i \in 1..n : emitted'[i] = emitted[i]
  BY <1>1, SequenceFacts DEF LogOK
<1>3. MaxEvents \in Nat /\ MaxEvents >= 1 BY EventLogAssumption
<1>4. e.time = n + 1 OBVIOUS
<1> HIDE DEF n, e
<1>5. DOMAIN emitted' = 1..(n + 1) BY <1>2, SequenceFacts
<1>6. /\ event_count \in Nat /\ event_count <= MaxEvents
      /\ event_count = IF n <= MaxEvents THEN n ELSE MaxEvents
  BY <1>2, <1>3 DEF LogOK, n
<1>7. event_count' = IF n + 1 <= MaxEvents THEN n + 1 ELSE MaxEvents
  BY <1>1, <1>2, <1>3, <1>6, MinOfTwo
<1>8. Slot = IF n < MaxEvents THEN n ELSE 0
  <2>1. CASE n < MaxEvents BY <1>2, <1>3, <1>6, <2>1 DEF Slot
  <2>2. CASE ~(n < MaxEvents)
    <3>1. event_count = MaxEvents BY <1>2, <1>3, <1>6, <2>2
    <3>2. MaxEvents % MaxEvents = 0 BY <1>3
    <3> QED BY <2>2, <3>1, <3>2 DEF Slot
  <2> QED BY <2>1, <2>2
<1>9. \A k \in DOMAIN emitted' : emitted'[k].time = k
  BY <1>2, <1>4, <1>5 DEF LogOK
<1>10. /\ DOMAIN event_log = 0..(MaxEvents - 1)
       /\ \A i \in 0..(event_count - 1) :
            event_log[i] = emitted[IF i = 0 /\ n > MaxEvents THEN n ELSE i + 1]
  BY DEF LogOK, Held, n
<1>11. Slot \in 0..(MaxEvents - 1) BY <1>2, <1>3, <1>8
<1>12. /\ DOMAIN event_log' = 0..(MaxEvents - 1) /\ event_log'[Slot] = e
       /\ \A i \in 0..(MaxEvents - 1) : i # Slot => event_log'[i] = event_log[i]
  BY <1>1, <1>10, <1>11
<1>13. ASSUME NEW i \in 0..(event_count' - 1)
       PROVE  event_log'[i] = emitted'[IF i = 0 /\ n + 1 > MaxEvents THEN n + 1 ELSE i + 1]
  <2>1. i \in 0..(MaxEvents - 1) /\ i \in Nat BY <1>2, <1>3, <1>7
  <2>2. CASE i = Slot
    <3>1. (IF i = 0 /\ n + 1 > MaxEvents THEN n + 1 ELSE i + 1) = n + 1
      BY <1>2, <1>3, <1>8, <2>2
    <3> QED BY <1>2, <1>12, <2>2, <3>1
  <2>3. CASE i # Slot
    <3>1. i \in 0..(event_count - 1) /\ i + 1 \in 1..n
      BY <1>2, <1>3, <1>6, <1>7, <1>8, <2>1, <2>3
    <3>2. event_log'[i] = event_log[i] BY <1>12, <2>1, <2>3
    <3>3. ~(i = 0 /\ n + 1 > MaxEvents) /\ ~(i = 0 /\ n > MaxEvents)
      BY <1>2, <1>3, <1>8, <2>3
    <3>4. event_log[i] = emitted[i + 1] BY <1>10, <3>1, <3>3
    <3> QED BY <1>2, <3>1, <3>2, <3>3, <3>4
  <2> QED BY <2>2, <2>3
<1>14. LogOK'
  <2>1. \A i \in 0..(event_count' - 1) : event_log'[i] = emitted'[Held(i)']
    BY <1>2, <1>13 DEF Held
  <2> QED BY <1>2, <1>7, <1>9, <1>12, <2>1 DEF LogOK
<1> QED BY <1>1, <1>14

\* What the log holds is what LogKeepsNewest asks for.
LEMMA LogShows ==
  ASSUME LogOK, ShownOK
  PROVE  LogKeepsNewest
<1> SUFFICES ASSUME shown # Nil PROVE LogKeepsNewest
  BY DEF LogKeepsNewest
<1> DEFINE n == Len(emitted)
           c == event_count
<1>1. shown = View BY DEF ShownOK
<1>2. /\ shown.total = c /\ DOMAIN shown.events = 0..(c - 1)
      /\ \A i \in 0..(c - 1) : shown.events[i] = event_log[i]
  BY <1>1 DEF View
<1>3. n \in Nat /\ DOMAIN emitted = 1..n BY SequenceFacts DEF LogOK
<1>4. MaxEvents \in Nat /\ MaxEvents >= 1 BY EventLogAssumption
<1>5. c = IF n <= MaxEvents THEN n ELSE MaxEvents BY DEF LogOK
<1>6. \A k \in 1..n : emitted[k].time = k BY <1>3 DEF LogOK
<1>7. \A i \in 0..(c - 1) :
        event_log[i] = emitted[IF i = 0 /\ n > MaxEvents THEN n ELSE i + 1]
  BY DEF LogOK, Held
<1> HIDE DEF n, c
<1>8. ASSUME NEW i \in 0..(c - 1)
      PROVE  \E k \in 1..n : /\ k = IF i = 0 /\ n > MaxEvents THEN n ELSE i + 1
                             /\ shown.events[i] = emitted[k]
  BY <1>2, <1>3, <1>4, <1>5, <1>7
<1>9. \A i \in DOMAIN shown.events : \E k \in DOMAIN emitted : shown.events[i] = emitted[k]
  BY <1>2, <1>3, <1>8
<1>10. ASSUME n # 0 PROVE \E i \in DOMAIN shown.events : shown.events[i] = emitted[n]
  <2>1. CASE n > MaxEvents
    <3>1. 0 \in 0..(c - 1) BY <1>4, <1>5, <2>1, <1>3
    <3> QED BY <1>2, <1>8, <2>1, <3>1
  <2>2. CASE ~(n > MaxEvents)
    <3>1. n - 1 \in 0..(c - 1) /\ (n - 1) + 1 = n BY <1>3, <1>4, <1>5, <1>10, <2>2
    <3> QED BY <1>2, <1>8, <2>2, <3>1
  <2> QED BY <2>1, <2>2
<1>11. ASSUME NEW i \in DOMAIN shown.events, NEW j \in DOMAIN shown.events,
              shown.events[i] = shown.events[j]
       PROVE  i = j
  <2>1. PICK k \in 1..n : /\ k = IF i = 0 /\ n > MaxEvents THEN n ELSE i + 1
                          /\ shown.events[i] = emitted[k]
    BY <1>2, <1>8
  <2>2. PICK l \in 1..n : /\ l = IF j = 0 /\ n > MaxEvents THEN n ELSE j + 1
                          /\ shown.events[j] = emitted[l]
    BY <1>2, <1>8
  <2>3. k = l BY <1>6, <1>11, <2>1, <2>2
  <2>4. i \in 0..(c - 1) /\ j \in 0..(c - 1) BY <1>2
  <2> QED BY <1>3, <1>4, <1>5, <2>1, <2>2, <2>3, <2>4
<1>12. emitted # <<>> => n # 0 BY <1>3, SequenceFacts DEF n, LogOK, IsSequence
<1>13. n <= MaxEvents => shown.total = n BY <1>2, <1>5
<1> QED BY <1>9, <1>10, <1>11, <1>12, <1>13 DEF LogKeepsNewest, n

-----------------------------------------------------------------------------
(* The instruction's arrays.                                                *)

InstFields ==
  {"session_identifier", "refresh_url", "origin", "continue_session", "has_continue",
   "include_site", "credentials", "specification", "allowed_refresh_initiators"}

\* What a caller may add to an array.
Addable == Texts \cup Credentials \cup Rules

Array == [slots: Seq(Addable \cup {Nil, Garbage}), count: Nat]

\* An array whose counted elements were written.
ArrayOK(a) ==
  /\ a \in Array
  /\ a.count <= Len(a.slots)
  /\ \A n \in 1..a.count : a.slots[n] \in Addable

\* An array with one element more, and its elements.
LEMMA GrownOK ==
  ASSUME NEW a, ArrayOK(a)
  PROVE  /\ Grown(a).slots \in Seq(Addable \cup {Nil, Garbage}) /\ Grown(a).count = a.count
         /\ Grown(a) \in Array
         /\ a.count + 1 <= Len(Grown(a).slots)
         /\ \A n \in 1..a.count : Grown(a).slots[n] = a.slots[n]
<1> DEFINE E == Addable \cup {Nil, Garbage}
           room == grow_array(a.count, Len(a.slots))
           s == [i \in 1..room |-> IF i <= Len(a.slots) THEN a.slots[i] ELSE Garbage]
<1>1. a.slots \in Seq(E) /\ a.count \in Nat /\ Len(a.slots) \in Nat /\ a.count <= Len(a.slots)
  BY DEF ArrayOK, Array
<1>2. room \in Nat /\ a.count + 1 <= room BY <1>1, GrowRoom
<1> HIDE DEF room
<1>3. Garbage \in E OBVIOUS
<1> HIDE DEF E
<1>4. s \in [1..room -> E] BY <1>1, <1>3
<1>5. s \in Seq(E) /\ Len(s) = room BY <1>2, <1>4
<1>6. \A n \in 1..a.count : s[n] = a.slots[n] BY <1>1, <1>2
<1>7. Grown(a) = [a EXCEPT !.slots = s] BY DEF Grown, room
<1> HIDE DEF s
<1>8. a \in [slots: Seq(E), count: Nat] BY DEF ArrayOK, Array, E
<1>9. Grown(a).slots = s /\ Grown(a).count = a.count /\ Grown(a) \in [slots: Seq(E), count: Nat]
  BY <1>5, <1>7, <1>8
<1> QED BY <1>2, <1>5, <1>6, <1>9 DEF E, Array

\* An element is added.
LEMMA PushedOK ==
  ASSUME NEW a, ArrayOK(a), NEW e \in Addable
  PROVE  ArrayOK(Pushed(a, e)) /\ Elements(Pushed(a, e)) = Append(Elements(a), e)
<1> DEFINE E == Addable \cup {Nil, Garbage}
           g == Grown(a).slots
           s == [g EXCEPT ![a.count + 1] = e]
           b == Pushed(a, e)
<1>1. /\ g \in Seq(E) /\ a.count + 1 <= Len(g)
      /\ \A n \in 1..a.count : g[n] = a.slots[n]
  BY GrownOK
<1>2. a.count \in Nat /\ a.slots \in Seq(E) /\ a.count <= Len(a.slots) BY DEF ArrayOK, Array
<1>3. e \in E OBVIOUS
<1> HIDE DEF g, E
<1>4. s \in Seq(E) /\ Len(s) = Len(g) /\ Len(g) \in Nat BY <1>1, <1>2, <1>3
<1>5. s[a.count + 1] = e /\ \A n \in 1..a.count : s[n] = a.slots[n] BY <1>1, <1>2
<1>6. b = [slots |-> s, count |-> a.count + 1] BY DEF Pushed, g
<1> HIDE DEF s, b
<1>7. b.slots = s /\ b.count = a.count + 1 /\ b \in [slots: Seq(E), count: Nat]
  BY <1>2, <1>4, <1>6
<1>8. ArrayOK(b)
  <2>1. ASSUME NEW n \in 1..(a.count + 1) PROVE s[n] \in Addable
    <3>1. CASE n = a.count + 1 BY <1>5, <3>1
    <3>2. CASE n \in 1..a.count BY <1>5, <3>2 DEF ArrayOK
    <3> QED BY <1>2, <3>1, <3>2
  <2> QED BY <1>1, <1>4, <1>7, <2>1 DEF ArrayOK, Array, E
<1>9. Elements(b) = Append(Elements(a), e)
  <2> DEFINE k == a.count
             x == SubSeq(s, 1, k + 1)
             y == SubSeq(a.slots, 1, k)
  <2>1. x \in Seq(E) /\ Len(x) = k + 1 /\ \A n \in 1..(k + 1) : x[n] = s[n]
    BY <1>1, <1>2, <1>4
  <2>2. y \in Seq(E) /\ Len(y) = k /\ \A n \in 1..k : y[n] = a.slots[n] BY <1>2
  <2>3. Elements(b) = x /\ Elements(a) = y BY <1>7 DEF Elements
  <2> HIDE DEF x, y
  <2>4. /\ Append(y, e) \in Seq(E) /\ Len(Append(y, e)) = k + 1
        /\ Append(y, e)[k + 1] = e /\ \A n \in 1..k : Append(y, e)[n] = y[n]
    BY <1>2, <1>3, <2>2
  <2>5. \A n \in 1..(k + 1) : x[n] = Append(y, e)[n] BY <1>2, <1>5, <2>1, <2>2, <2>4
  <2>6. x = Append(y, e) BY <2>1, <2>4, <2>5
  <2> QED BY <2>3, <2>6
<1> QED BY <1>8, <1>9 DEF b

\* A copy that fails leaves the elements as they were.
LEMMA CopyFailedOK ==
  ASSUME NEW a, ArrayOK(a)
  PROVE  /\ ArrayOK(CopyFailed(a)) /\ Elements(CopyFailed(a)) = Elements(a)
         /\ CopyFailed(a).count = a.count
<1> DEFINE E == Addable \cup {Nil, Garbage}
           g == Grown(a).slots
           s == [g EXCEPT ![a.count + 1] = Nil]
           b == CopyFailed(a)
<1>1. /\ g \in Seq(E) /\ a.count + 1 <= Len(g) /\ Grown(a) \in [slots: Seq(E), count: Nat]
      /\ Grown(a).count = a.count
      /\ \A n \in 1..a.count : g[n] = a.slots[n]
  BY GrownOK DEF Array
<1>2. a.count \in Nat /\ a.slots \in Seq(E) /\ a.count <= Len(a.slots) BY DEF ArrayOK, Array
<1>3. Nil \in E OBVIOUS
<1>4. b = [Grown(a) EXCEPT !.slots = s] BY <1>1 DEF CopyFailed
<1> HIDE DEF g, E, b
<1>5. s \in Seq(E) /\ Len(s) = Len(g) /\ Len(g) \in Nat BY <1>1, <1>3
<1>6. \A n \in 1..a.count : s[n] = a.slots[n] BY <1>1, <1>2
<1> HIDE DEF s
<1>7. b.slots = s /\ b.count = a.count /\ b \in [slots: Seq(E), count: Nat]
  BY <1>1, <1>4, <1>5
<1>8. ArrayOK(b)
  <2>1. \A n \in 1..a.count : s[n] \in Addable BY <1>6 DEF ArrayOK
  <2> QED BY <1>1, <1>2, <1>5, <1>7, <2>1 DEF ArrayOK, Array, E
<1>9. Elements(b) = Elements(a)
  <2> DEFINE k == a.count
             x == SubSeq(s, 1, k)
             y == SubSeq(a.slots, 1, k)
  <2>1. x \in Seq(E) /\ Len(x) = k /\ \A n \in 1..k : x[n] = s[n]
    BY <1>1, <1>2, <1>5
  <2>2. y \in Seq(E) /\ Len(y) = k /\ \A n \in 1..k : y[n] = a.slots[n] BY <1>2
  <2>3. Elements(b) = x /\ Elements(a) = y BY <1>7 DEF Elements
  <2> HIDE DEF x, y
  <2>4. x = y BY <1>6, <2>1, <2>2
  <2> QED BY <2>3, <2>4
<1> QED BY <1>7, <1>8, <1>9 DEF b

-----------------------------------------------------------------------------
(* The calls that succeeded.                                                *)

\* What a call may be made with.
Args == Addable \cup {Nil} \cup BOOLEAN

Call == [op: InstFields \cup {"continue"}, arg: Args]

\* The arguments of the calls op in a history cs.
ArgsIn(cs, op) ==
  LET args[n \in 0..Len(cs)] ==
        IF n = 0 THEN <<>>
        ELSE IF cs[n].op = op THEN Append(args[n - 1], cs[n].arg)
        ELSE args[n - 1]
  IN args[Len(cs)]

\* The history is read from its first call to its last.
LEMMA ArgsRounds ==
  ASSUME NEW cs \in Seq(Call), NEW op
  PROVE  \E f \in [0..Len(cs) -> Seq(Args)] :
           /\ f[0] = <<>>
           /\ \A n \in 1..Len(cs) :
                f[n] = IF cs[n].op = op THEN Append(f[n - 1], cs[n].arg) ELSE f[n - 1]
           /\ ArgsIn(cs, op) = f[Len(cs)]
<1> DEFINE S == Seq(Args)
           Add(n, c) == IF cs[n].op = op THEN Append(c, cs[n].arg) ELSE c
           R == [p \in Nat \X S |-> IF p[1] \in DOMAIN cs THEN Add(p[1], p[2]) ELSE p[2]]
           N == Len(cs)
           Eq(g) == g = [n \in 0..N |-> IF n = 0 THEN <<>> ELSE Add(n, g[n - 1])]
           G == CHOOSE g : Eq(g)
<1>1. N \in Nat /\ DOMAIN cs = 1..N /\ <<>> \in S OBVIOUS
<1>2. ASSUME NEW n \in DOMAIN cs, NEW c \in S PROVE Add(n, c) \in S
  <2>1. cs[n] \in Call OBVIOUS
  <2>2. cs[n].arg \in Args BY <2>1 DEF Call
  <2> QED BY <2>2
<1>3. R \in [Nat \X S -> S] BY <1>2
<1>4. ASSUME NEW n \in 1..N, NEW c \in S PROVE R[<<n, c>>] = Add(n, c)
  <2>1. n \in Nat /\ n \in DOMAIN cs BY <1>1
  <2> QED BY <2>1
<1>5. ASSUME NEW n \in 1..N, NEW c \in S PROVE Add(n, c) \in S BY <1>1, <1>2
<1> HIDE DEF S, R, N, Add
<1>6. PICK g \in [0..N -> S] : g[0] = <<>> /\ \A n \in 1..N : g[n] = R[<<n, g[n - 1]>>]
  <2>1. PICK g : Iterates(g, S, R, <<>>, N) BY <1>1, <1>3, Iteration, Zenon
  <2> QED BY <2>1 DEF Iterates
<1>7. Eq(g)
  <2>1. ASSUME NEW n \in 0..N PROVE g[n] = IF n = 0 THEN <<>> ELSE Add(n, g[n - 1])
    <3>1. CASE n = 0 BY <1>6, <3>1
    <3>2. CASE n # 0
      <4>1. n \in 1..N /\ g[n - 1] \in S BY <1>1, <1>6, <3>2
      <4>2. g[n] = R[<<n, g[n - 1]>>] BY <1>6, <4>1
      <4>3. R[<<n, g[n - 1]>>] = Add(n, g[n - 1]) BY <1>4, <4>1
      <4> QED BY <3>2, <4>2, <4>3
    <3> QED BY <3>1, <3>2
  <2> QED BY <1>6, <2>1
<1>8. Eq(G) BY <1>7, Zenon
<1>9. ArgsIn(cs, op) = G[N] BY Zenon DEF ArgsIn, N, Add
<1> HIDE DEF G
<1>10. G[0] = <<>> /\ g[0] = <<>> BY <1>1, <1>6, <1>8
<1>11. ASSUME NEW n \in 1..N PROVE G[n] = Add(n, G[n - 1]) /\ g[n] = Add(n, g[n - 1])
  <2>1. n \in 0..N /\ n # 0 BY <1>1
  <2> QED BY <1>7, <1>8, <2>1
<1>12. Alike(N, G, g) BY <1>10, <1>11 DEF Alike
<1>13. G[N] = g[N]
  <2>1. \A n \in 0..N : G[n] = g[n] BY <1>1, <1>12, SameRounds
  <2> QED BY <1>1, <2>1
<1> QED BY <1>6, <1>9, <1>10, <1>11, <1>13 DEF Add, N, S

\* One call more.
LEMMA ArgsAppended ==
  ASSUME NEW cs \in Seq(Call), NEW c \in Call, NEW op
  PROVE  ArgsIn(Append(cs, c), op) =
           IF c.op = op THEN Append(ArgsIn(cs, op), c.arg) ELSE ArgsIn(cs, op)
<1> DEFINE N == Len(cs)
           ds == Append(cs, c)
<1>1. /\ N \in Nat /\ ds \in Seq(Call) /\ Len(ds) = N + 1 /\ ds[N + 1] = c
      /\ \A n \in 1..N : ds[n] = cs[n]
  OBVIOUS
<1>2. PICK f : /\ f[0] = <<>>
               /\ \A n \in 1..N :
                    f[n] = IF cs[n].op = op THEN Append(f[n - 1], cs[n].arg) ELSE f[n - 1]
               /\ ArgsIn(cs, op) = f[N]
  BY ArgsRounds
<1> HIDE DEF ds, N
<1>3. PICK g : /\ g[0] = <<>>
               /\ \A n \in 1..(N + 1) :
                    g[n] = IF ds[n].op = op THEN Append(g[n - 1], ds[n].arg) ELSE g[n - 1]
               /\ ArgsIn(ds, op) = g[N + 1]
  <2> DEFINE M == Len(ds)
  <2>1. \E g : /\ g[0] = <<>>
               /\ \A n \in 1..M :
                    g[n] = IF ds[n].op = op THEN Append(g[n - 1], ds[n].arg) ELSE g[n - 1]
               /\ ArgsIn(ds, op) = g[M]
    BY <1>1, ArgsRounds
  <2>2. M = N + 1 BY <1>1
  <2> HIDE DEF M
  <2> QED BY <2>1, <2>2
<1>4. ASSUME NEW n \in 1..N, f[n - 1] = g[n - 1] PROVE f[n] = g[n]
  <2>1. n \in 1..(N + 1) BY <1>1
  <2> QED BY <1>1, <1>2, <1>3, <1>4, <2>1
<1>5. Alike(N, f, g) BY <1>2, <1>3, <1>4 DEF Alike
<1>6. f[N] = g[N]
  <2>1. \A n \in 0..N : f[n] = g[n] BY <1>1, <1>5, SameRounds
  <2> QED BY <1>1, <2>1
<1>7. N + 1 \in 1..(N + 1) /\ (N + 1) - 1 = N BY <1>1
<1>8. g[N + 1] = IF c.op = op THEN Append(g[N], c.arg) ELSE g[N] BY <1>1, <1>3, <1>7
<1> QED BY <1>2, <1>3, <1>6, <1>8 DEF ds

\* No calls, no arguments.
LEMMA ArgsOfNone ==
  ASSUME NEW op
  PROVE  ArgsIn(<<>>, op) = <<>>
<1>1. PICK cs \in Seq(Call) : cs = <<>> /\ Len(cs) = 0
  <2>1. <<>> \in Seq(Call) /\ Len(<<>>) = 0 OBVIOUS
  <2> QED BY <2>1, Zenon
<1> DEFINE N == Len(cs)
<1>2. PICK f : f[0] = <<>> /\ ArgsIn(cs, op) = f[N] BY ArgsRounds
<1> QED BY <1>1, <1>2

\* The arguments of a history are a sequence.
LEMMA ArgsType ==
  ASSUME NEW cs \in Seq(Call), NEW op
  PROVE  ArgsIn(cs, op) \in Seq(Args)
<1> DEFINE N == Len(cs)
<1>1. PICK f \in [0..N -> Seq(Args)] : ArgsIn(cs, op) = f[N] BY ArgsRounds
<1>2. N \in 0..N OBVIOUS
<1> QED BY <1>1, <1>2

-----------------------------------------------------------------------------
(* The instruction says what the calls said.                                *)

TextFields == {"session_identifier", "refresh_url", "origin"}

ArrayMirrors(f) == ArrayOK(inst[f]) /\ Elements(inst[f]) = ArgsOf(f)

TextMirrors(f) == inst[f] \in Texts \cup {Nil} /\ inst[f] = LastArg(f, Nil)

SiteMirrors == inst.include_site = LastArg("include_site", FALSE)

ContinueMirrors ==
  /\ inst.has_continue \in BOOLEAN /\ inst.continue_session \in BOOLEAN
  /\ inst.has_continue <=> ArgsOf("continue") # <<>>
  /\ inst.has_continue => inst.continue_session = LastArg("continue", Nil)

InstOK ==
  /\ DOMAIN inst = InstFields
  /\ calls \in Seq(Call)
  /\ \A f \in Arrays : ArrayMirrors(f)
  /\ \A f \in TextFields : TextMirrors(f)
  /\ SiteMirrors
  /\ ContinueMirrors

\* What a call that succeeded adds to the history.
LEMMA SucceededArgs ==
  ASSUME calls \in Seq(Call), NEW op \in InstFields \cup {"continue"}, NEW v \in Args,
         Succeeded(op, v)
  PROVE  /\ calls' \in Seq(Call)
         /\ ArgsOf(op)' = Append(ArgsOf(op), v) /\ ArgsOf(op)' # <<>>
         /\ \A d : LastArg(op, d)' = v
         /\ \A o : o # op => ArgsOf(o)' = ArgsOf(o)
         /\ \A o, d : o # op => LastArg(o, d)' = LastArg(o, d)
<1> DEFINE c == [op |-> op, arg |-> v]
<1>1. c \in Call /\ c.op = op /\ c.arg = v BY DEF Call
<1>2. calls' = Append(calls, c) BY DEF Succeeded
<1> HIDE DEF c
<1>3. calls' \in Seq(Call) BY <1>1, <1>2
<1>4. ASSUME NEW o PROVE ArgsOf(o) = ArgsIn(calls, o) /\ ArgsOf(o)' = ArgsIn(calls', o)
  BY Zenon DEF ArgsOf, ArgsIn
<1>5. ASSUME NEW o
      PROVE  ArgsOf(o)' = IF op = o THEN Append(ArgsOf(o), v) ELSE ArgsOf(o)
  BY <1>1, <1>2, <1>4, ArgsAppended
<1>6. ArgsOf(op) \in Seq(Args) BY <1>4, ArgsType
<1>7. ArgsOf(op)' = Append(ArgsOf(op), v) BY <1>5
<1>8. ArgsOf(op)' # <<>> /\ Last(ArgsOf(op)') = v BY <1>6, <1>7 DEF Last
<1>9. ASSUME NEW d PROVE LastArg(op, d)' = v BY <1>8 DEF LastArg
<1>10. ASSUME NEW o, o # op PROVE ArgsOf(o)' = ArgsOf(o) BY <1>5, <1>10
<1>11. ASSUME NEW o, NEW d, o # op PROVE LastArg(o, d)' = LastArg(o, d)
  BY <1>10, <1>11 DEF LastArg
<1> QED BY <1>3, <1>7, <1>8, <1>9, <1>10, <1>11

\* A history that did not change.
LEMMA SameArgs ==
  ASSUME calls' = calls
  PROVE  /\ \A o : ArgsOf(o)' = ArgsOf(o)
         /\ \A o, d : LastArg(o, d)' = LastArg(o, d)
<1>1. ASSUME NEW o PROVE ArgsOf(o)' = ArgsOf(o)
  <2>1. ArgsOf(o) = ArgsIn(calls, o) /\ ArgsOf(o)' = ArgsIn(calls', o)
    BY Zenon DEF ArgsOf, ArgsIn
  <2> QED BY <2>1
<1>2. ASSUME NEW o, NEW d PROVE LastArg(o, d)' = LastArg(o, d) BY <1>1 DEF LastArg
<1> QED BY <1>1, <1>2

\* An empty history.
LEMMA NoArgs ==
  ASSUME calls = <<>>
  PROVE  \A o : ArgsOf(o) = <<>> /\ \A d : LastArg(o, d) = d
<1>1. ASSUME NEW o PROVE ArgsOf(o) = <<>>
  <2>1. ArgsOf(o) = ArgsIn(calls, o) BY Zenon DEF ArgsOf, ArgsIn
  <2> QED BY <2>1, ArgsOfNone
<1> QED BY <1>1 DEF LastArg

\* The fields of a new instruction.
LEMMA InitFields ==
  /\ DOMAIN instruction_init = InstFields
  /\ \A f \in TextFields : instruction_init[f] = Nil
  /\ \A f \in Arrays : instruction_init[f] = NoArray
  /\ instruction_init.continue_session = TRUE
  /\ instruction_init.has_continue = FALSE /\ instruction_init.include_site = FALSE
<1>1. PICK t \in {TRUE}, u \in {FALSE} :
        instruction_init =
          [session_identifier |-> Nil, refresh_url |-> Nil, origin |-> Nil,
           continue_session |-> t, has_continue |-> u, include_site |-> u,
           credentials |-> NoArray, specification |-> NoArray,
           allowed_refresh_initiators |-> NoArray]
  BY Zenon DEF instruction_init
<1> DEFINE i == instruction_init
<1> HIDE DEF i
<1>2. /\ DOMAIN i = InstFields
      /\ \A f \in TextFields : i[f] = Nil
      /\ \A f \in Arrays : i[f] = NoArray
      /\ i.continue_session = t /\ i.has_continue = u /\ i.include_site = u
  BY <1>1 DEF i, InstFields, TextFields, Arrays
<1>3. t = TRUE /\ u = FALSE BY Zenon
<1> QED BY <1>2, <1>3, Zenon DEF i

\* An empty array is in order.
LEMMA NoArrayOK == ArrayOK(NoArray) /\ Elements(NoArray) = <<>>
<1>1. NoArray \in Array /\ NoArray.slots = <<>> /\ NoArray.count = 0 BY DEF NoArray, Array
<1>2. Elements(NoArray) = <<>> BY <1>1 DEF Elements
<1> QED BY <1>1, <1>2 DEF ArrayOK

\* An instruction that was just initialised.
Fresh == inst = instruction_init /\ calls = <<>>

\* It has nothing to say, and no call said anything.
LEMMA FreshOK == Fresh => InstOK
<1> SUFFICES ASSUME inst = instruction_init, calls = <<>> PROVE InstOK
  BY DEF Fresh
<1>1. calls \in Seq(Call) OBVIOUS
<1>2. \A o : ArgsOf(o) = <<>> /\ \A d : LastArg(o, d) = d BY NoArgs
<1>3. \A f \in Arrays : ArrayMirrors(f) BY <1>2, InitFields, NoArrayOK DEF ArrayMirrors
<1>4. \A f \in TextFields : TextMirrors(f) BY <1>2, InitFields DEF TextMirrors
<1>5. SiteMirrors BY <1>2, InitFields, Zenon DEF SiteMirrors
<1>6. ContinueMirrors BY <1>2, InitFields, Zenon DEF ContinueMirrors
<1> QED BY <1>1, <1>3, <1>4, <1>5, <1>6, InitFields, Zenon DEF InstOK

\* The same after a step.
LEMMA FreshAgain == Fresh' => InstOK'
BY FreshOK, PTL

\* What a step does not touch still agrees.
LEMMA UntouchedMirrors ==
  ASSUME InstOK, DOMAIN inst' = InstFields
  PROVE  /\ \A f \in Arrays :
              inst'[f] = inst[f] /\ ArgsOf(f)' = ArgsOf(f) => ArrayMirrors(f)'
         /\ \A f \in TextFields :
              inst'[f] = inst[f] /\ LastArg(f, Nil)' = LastArg(f, Nil) => TextMirrors(f)'
         /\ (/\ inst'.include_site = inst.include_site
             /\ \A d : LastArg("include_site", d)' = LastArg("include_site", d)) => SiteMirrors'
         /\ (/\ inst'.has_continue = inst.has_continue
             /\ inst'.continue_session = inst.continue_session
             /\ ArgsOf("continue")' = ArgsOf("continue")
             /\ LastArg("continue", Nil)' = LastArg("continue", Nil)) => ContinueMirrors'
<1>1. \A f \in Arrays :
        inst'[f] = inst[f] /\ ArgsOf(f)' = ArgsOf(f) => ArrayMirrors(f)'
  BY DEF InstOK, ArrayMirrors
<1>2. \A f \in TextFields :
        inst'[f] = inst[f] /\ LastArg(f, Nil)' = LastArg(f, Nil) => TextMirrors(f)'
  BY DEF InstOK, TextMirrors
<1>3. ASSUME inst'.include_site = inst.include_site,
             \A d : LastArg("include_site", d)' = LastArg("include_site", d)
      PROVE  SiteMirrors'
  BY <1>3, Zenon DEF InstOK, SiteMirrors
<1>4. ASSUME inst'.has_continue = inst.has_continue,
             inst'.continue_session = inst.continue_session,
             ArgsOf("continue")' = ArgsOf("continue"),
             LastArg("continue", Nil)' = LastArg("continue", Nil)
      PROVE  ContinueMirrors'
  BY <1>4, Zenon DEF InstOK, ContinueMirrors
<1> QED BY <1>1, <1>2, <1>3, <1>4

\* The fields, one by one.
LEMMA FieldsApart ==
  /\ Arrays \subseteq InstFields /\ TextFields \subseteq InstFields
  /\ \A f \in Arrays : /\ f \notin TextFields /\ f # "include_site"
                       /\ f # "has_continue" /\ f # "continue_session" /\ f # "continue"
  /\ \A f \in TextFields : /\ f # "include_site" /\ f # "has_continue"
                           /\ f # "continue_session" /\ f # "continue"
  /\ {"include_site", "has_continue", "continue_session"} \subseteq InstFields
BY DEF Arrays, TextFields, InstFields

\* Neither the instruction nor its history changed.
LEMMA SameInst ==
  ASSUME InstOK, DOMAIN inst' = InstFields, \A f \in InstFields : inst'[f] = inst[f],
         calls' = calls
  PROVE  InstOK'
<1>1. calls' \in Seq(Call) BY DEF InstOK
<1>2. /\ \A o : ArgsOf(o)' = ArgsOf(o)
      /\ \A o, d : LastArg(o, d)' = LastArg(o, d)
  BY SameArgs
<1>3. \A f \in Arrays : ArrayMirrors(f)' BY <1>2, FieldsApart, UntouchedMirrors
<1>4. \A f \in TextFields : TextMirrors(f)' BY <1>2, FieldsApart, UntouchedMirrors
<1>5. SiteMirrors' BY <1>2, FieldsApart, UntouchedMirrors
<1>6. ContinueMirrors' BY <1>2, FieldsApart, UntouchedMirrors
<1> QED BY <1>1, <1>3, <1>4, <1>5, <1>6 DEF InstOK

\* A string field is set, or the copy fails.
LEMMA SetFieldOK ==
  ASSUME InstOK, NEW field \in TextFields, NEW v \in Texts \cup {Nil}, SetField(field, v)
  PROVE  InstOK'
<1>2. \/ inst' = [inst EXCEPT ![field] = v] /\ Succeeded(field, v)
      \/ inst' = [inst EXCEPT ![field] = inst[field]] /\ calls' = calls
  BY DEF SetField, set_string
<1>3. DOMAIN inst = InstFields /\ calls \in Seq(Call) BY DEF InstOK
<1>4. CASE inst' = [inst EXCEPT ![field] = v] /\ Succeeded(field, v)
  <2>1. /\ DOMAIN inst' = InstFields /\ inst'[field] = v
        /\ \A f \in InstFields : f # field => inst'[f] = inst[f]
    BY <1>3, <1>4, FieldsApart
  <2>2. v \in Args BY DEF Args, Addable
  <2>3. /\ calls' \in Seq(Call)
        /\ \A d : LastArg(field, d)' = v
        /\ \A o : o # field => ArgsOf(o)' = ArgsOf(o)
        /\ \A o, d : o # field => LastArg(o, d)' = LastArg(o, d)
    BY <1>3, <1>4, <2>2, FieldsApart, SucceededArgs
  <2>4. TextMirrors(field)' BY <2>1, <2>3 DEF TextMirrors
  <2>5. \A f \in TextFields : TextMirrors(f)'
    BY <2>1, <2>3, <2>4, FieldsApart, UntouchedMirrors
  <2>6. \A f \in Arrays : ArrayMirrors(f)' BY <2>1, <2>3, FieldsApart, UntouchedMirrors
  <2>7. SiteMirrors' BY <2>1, <2>3, FieldsApart, UntouchedMirrors
  <2>8. ContinueMirrors' BY <2>1, <2>3, FieldsApart, UntouchedMirrors
  <2> QED BY <2>1, <2>3, <2>5, <2>6, <2>7, <2>8 DEF InstOK
<1>5. CASE inst' = [inst EXCEPT ![field] = inst[field]] /\ calls' = calls
  <2>1. DOMAIN inst' = InstFields /\ \A f \in InstFields : inst'[f] = inst[f] BY <1>3, <1>5
  <2>2. InstOK' BY <1>5, <2>1, SameInst
  <2> QED BY <2>2
<1> QED BY <1>2, <1>4, <1>5

\* The continue flag is set.
LEMMA ContinueOK ==
  ASSUME InstOK, NEW b \in BOOLEAN, instruction_set_continue(b)
  PROVE  InstOK'
<1>1. Succeeded("continue", b) BY DEF instruction_set_continue
<1>2. PICK t \in {TRUE} : inst' = [inst EXCEPT !.continue_session = b, !.has_continue = t]
  BY Zenon DEF instruction_set_continue
<1>3. DOMAIN inst = InstFields /\ calls \in Seq(Call) BY DEF InstOK
<1>4. /\ DOMAIN inst' = InstFields /\ inst'.continue_session = b /\ inst'.has_continue = t
      /\ \A f \in InstFields :
           f \notin {"continue_session", "has_continue"} => inst'[f] = inst[f]
  BY <1>2, <1>3, FieldsApart
<1>5. b \in Args BY DEF Args
<1>6. /\ calls' \in Seq(Call) /\ ArgsOf("continue")' # <<>>
      /\ \A d : LastArg("continue", d)' = b
      /\ \A o : o # "continue" => ArgsOf(o)' = ArgsOf(o)
      /\ \A o, d : o # "continue" => LastArg(o, d)' = LastArg(o, d)
  BY <1>1, <1>3, <1>5, SucceededArgs
<1>7. ContinueMirrors'
  <2>1. t \in BOOLEAN /\ t BY Zenon
  <2>2. inst'.has_continue \in BOOLEAN /\ inst'.continue_session \in BOOLEAN /\ inst'.has_continue
    BY <1>4, <2>1, Zenon
  <2> QED BY <1>4, <1>6, <2>2, Zenon DEF ContinueMirrors
<1>8. \A f \in Arrays : ArrayMirrors(f)' BY <1>4, <1>6, FieldsApart, UntouchedMirrors
<1>9. \A f \in TextFields : TextMirrors(f)' BY <1>4, <1>6, FieldsApart, UntouchedMirrors
<1>10. SiteMirrors' BY <1>4, <1>6, FieldsApart, UntouchedMirrors
<1> QED BY <1>1, <1>4, <1>6, <1>7, <1>8, <1>9, <1>10 DEF InstOK

\* The include_site flag is set.
LEMMA IncludeSiteOK ==
  ASSUME InstOK, NEW b \in BOOLEAN, scope_set_include_site(b)
  PROVE  InstOK'
<1>1. /\ Succeeded("include_site", b)
      /\ inst' = [inst EXCEPT !.include_site = b]
  BY DEF scope_set_include_site
<1>2. DOMAIN inst = InstFields /\ calls \in Seq(Call) BY DEF InstOK
<1>3. /\ DOMAIN inst' = InstFields /\ inst'.include_site = b
      /\ \A f \in InstFields : f # "include_site" => inst'[f] = inst[f]
  BY <1>1, <1>2, FieldsApart
<1>4. b \in Args BY DEF Args
<1>5. /\ calls' \in Seq(Call)
      /\ \A d : LastArg("include_site", d)' = b
      /\ \A o : o # "include_site" => ArgsOf(o)' = ArgsOf(o)
      /\ \A o, d : o # "include_site" => LastArg(o, d)' = LastArg(o, d)
  BY <1>1, <1>2, <1>4, FieldsApart, SucceededArgs
<1>6. SiteMirrors' BY <1>3, <1>5, Zenon DEF SiteMirrors
<1>7. \A f \in Arrays : ArrayMirrors(f)' BY <1>3, <1>5, FieldsApart, UntouchedMirrors
<1>8. \A f \in TextFields : TextMirrors(f)' BY <1>3, <1>5, FieldsApart, UntouchedMirrors
<1>9. ContinueMirrors' BY <1>3, <1>5, FieldsApart, UntouchedMirrors
<1> QED BY <1>1, <1>3, <1>5, <1>6, <1>7, <1>8, <1>9 DEF InstOK

\* An element is added to an array, or memory runs out at any point of it.
LEMMA AddElementOK ==
  ASSUME InstOK, NEW field \in Arrays, NEW e \in Addable, AddElement(field, e)
  PROVE  InstOK'
<1>2. \/ inst' = [inst EXCEPT ![field] = Pushed(inst[field], e)] /\ Succeeded(field, e)
      \/ inst' = inst /\ calls' = calls
      \/ inst' = [inst EXCEPT ![field] = CopyFailed(inst[field])] /\ calls' = calls
  BY DEF AddElement
<1>3. /\ DOMAIN inst = InstFields /\ calls \in Seq(Call)
      /\ ArrayOK(inst[field]) /\ Elements(inst[field]) = ArgsOf(field)
  BY DEF InstOK, ArrayMirrors
<1>4. CASE inst' = [inst EXCEPT ![field] = Pushed(inst[field], e)] /\ Succeeded(field, e)
  <2>1. /\ DOMAIN inst' = InstFields /\ inst'[field] = Pushed(inst[field], e)
        /\ \A f \in InstFields : f # field => inst'[f] = inst[f]
    BY <1>3, <1>4, FieldsApart
  <2>2. e \in Args BY DEF Args
  <2>3. /\ calls' \in Seq(Call)
        /\ ArgsOf(field)' = Append(ArgsOf(field), e)
        /\ \A o : o # field => ArgsOf(o)' = ArgsOf(o)
        /\ \A o, d : o # field => LastArg(o, d)' = LastArg(o, d)
    BY <1>3, <1>4, <2>2, FieldsApart, SucceededArgs
  <2>4. /\ ArrayOK(Pushed(inst[field], e))
        /\ Elements(Pushed(inst[field], e)) = Append(Elements(inst[field]), e)
    BY <1>3, PushedOK
  <2>5. ArrayMirrors(field)' BY <1>3, <2>1, <2>3, <2>4 DEF ArrayMirrors
  <2>6. \A f \in Arrays : ArrayMirrors(f)' BY <2>1, <2>3, <2>5, FieldsApart, UntouchedMirrors
  <2>7. \A f \in TextFields : TextMirrors(f)' BY <2>1, <2>3, FieldsApart, UntouchedMirrors
  <2>8. SiteMirrors' BY <2>1, <2>3, FieldsApart, UntouchedMirrors
  <2>9. ContinueMirrors' BY <2>1, <2>3, FieldsApart, UntouchedMirrors
  <2> QED BY <2>1, <2>3, <2>6, <2>7, <2>8, <2>9 DEF InstOK
<1>5. CASE inst' = inst /\ calls' = calls
  <2>1. DOMAIN inst' = InstFields /\ \A f \in InstFields : inst'[f] = inst[f] BY <1>3, <1>5
  <2>2. InstOK' BY <1>5, <2>1, SameInst
  <2> QED BY <2>2
<1>6. CASE inst' = [inst EXCEPT ![field] = CopyFailed(inst[field])] /\ calls' = calls
  <2>1. /\ DOMAIN inst' = InstFields /\ inst'[field] = CopyFailed(inst[field])
        /\ \A f \in InstFields : f # field => inst'[f] = inst[f]
    BY <1>3, <1>6, FieldsApart
  <2>2. calls' \in Seq(Call) BY <1>3, <1>6
  <2>3. /\ \A o : ArgsOf(o)' = ArgsOf(o)
        /\ \A o, d : LastArg(o, d)' = LastArg(o, d)
    BY <1>6, SameArgs
  <2>4. /\ ArrayOK(CopyFailed(inst[field]))
        /\ Elements(CopyFailed(inst[field])) = Elements(inst[field])
    BY <1>3, CopyFailedOK
  <2>5. ArrayMirrors(field)' BY <1>3, <2>1, <2>3, <2>4 DEF ArrayMirrors
  <2>6. \A f \in Arrays : ArrayMirrors(f)' BY <2>1, <2>3, <2>5, FieldsApart, UntouchedMirrors
  <2>7. \A f \in TextFields : TextMirrors(f)' BY <2>1, <2>3, FieldsApart, UntouchedMirrors
  <2>8. SiteMirrors' BY <2>1, <2>3, FieldsApart, UntouchedMirrors
  <2>9. ContinueMirrors' BY <2>1, <2>3, FieldsApart, UntouchedMirrors
  <2> QED BY <2>1, <2>2, <2>6, <2>7, <2>8, <2>9 DEF InstOK
<1> QED BY <1>2, <1>4, <1>5, <1>6

\* Every call on an instruction keeps it.
LEMMA BuildOK ==
  ASSUME InstOK, BuildStep
  PROVE  InstOK'
<1>1. ASSUME NEW v \in Texts \cup {Nil},
             \/ instruction_set_session_identifier(v)
             \/ instruction_set_refresh_url(v)
             \/ scope_set_origin(v)
      PROVE  InstOK'
  BY <1>1, SetFieldOK DEF instruction_set_session_identifier, instruction_set_refresh_url,
     scope_set_origin, TextFields
<1>2. ASSUME NEW b \in BOOLEAN, instruction_set_continue(b) PROVE InstOK'
  BY <1>2, ContinueOK
<1>3. ASSUME NEW b \in BOOLEAN, scope_set_include_site(b) PROVE InstOK'
  BY <1>3, IncludeSiteOK
<1>4. ASSUME NEW v \in Texts, instruction_add_refresh_initiator(v) PROVE InstOK'
  BY <1>4, AddElementOK DEF instruction_add_refresh_initiator, Arrays, Addable
<1>5. ASSUME NEW c \in Credentials, instruction_add_credential(c) PROVE InstOK'
  BY <1>5, AddElementOK DEF instruction_add_credential, Arrays, Addable
<1>6. ASSUME NEW r \in Rules, scope_add_rule(r) PROVE InstOK'
  BY <1>6, AddElementOK DEF scope_add_rule, Arrays, Addable
<1>7. CASE instruction_free
  <2>1. Fresh' BY <1>7, Zenon DEF instruction_free, Fresh
  <2> QED BY <2>1, FreshAgain
<1> QED BY <1>1, <1>2, <1>3, <1>4, <1>5, <1>6, <1>7 DEF BuildStep

\* The elements of an array that is in order.
LEMMA ElementsOK ==
  ASSUME NEW a, ArrayOK(a)
  PROVE  /\ a.count \in 0..Len(a.slots)
         /\ Garbage \notin Range(Elements(a))
         /\ a.count = 0 <=> Elements(a) = <<>>
<1> DEFINE E == Addable \cup {Nil, Garbage}
           x == SubSeq(a.slots, 1, a.count)
<1>1. a.slots \in Seq(E) /\ a.count \in Nat /\ a.count <= Len(a.slots) BY DEF ArrayOK, Array
<1> HIDE DEF E
<1>2. x \in Seq(E) /\ Len(x) = a.count /\ \A n \in 1..a.count : x[n] = a.slots[n] BY <1>1
<1>3. Elements(a) = x BY DEF Elements
<1> HIDE DEF x
<1>4. DOMAIN x = 1..a.count BY <1>1, <1>2
<1>5. \A n \in DOMAIN x : x[n] \in Addable BY <1>2, <1>4 DEF ArrayOK
<1>6. Garbage \notin Addable BY InstructionAssumption DEF Addable
<1>7. Garbage \notin Range(x) BY <1>5, <1>6 DEF Range
<1>8. a.count = 0 <=> x = <<>> BY <1>1, <1>2
<1>9. a.count \in 0..Len(a.slots) BY <1>1
<1> QED BY <1>3, <1>7, <1>8, <1>9

\* The instruction's half of the type invariant.
LEMMA InstTypeOK ==
  ASSUME InstOK
  PROVE  InstructionTypeOK
<1>1. \A f \in Arrays : /\ inst[f].count \in 0..Len(inst[f].slots)
                        /\ Garbage \notin Range(Elements(inst[f]))
  BY ElementsOK DEF InstOK, ArrayMirrors
<1>2. \A f \in {"session_identifier", "refresh_url", "origin"} : inst[f] \in Texts \cup {Nil}
  BY DEF InstOK, TextMirrors, TextFields
<1> QED BY <1>1, <1>2 DEF InstructionTypeOK

\* The JSON of an instruction that says what the calls said.
LEMMA JsonShows ==
  ASSUME InstOK
  PROVE  JsonMirrorsCalls
<1> DEFINE go == LastArg("continue", Nil)
           initiators == ArgsOf("allowed_refresh_initiators")
           stopped == Json(Nil, Nil, FALSE, Nil, Nil, Nil)
           list == IF initiators = <<>> THEN Nil ELSE initiators
           scope == [origin |-> LastArg("origin", Nil),
                     include_site |-> LastArg("include_site", FALSE),
                     scope_specification |-> ArgsOf("specification")]
           Full(c) == Json(LastArg("session_identifier", Nil), LastArg("refresh_url", Nil), c,
                           list, scope, ArgsOf("credentials"))
<1>1. /\ inst.session_identifier = LastArg("session_identifier", Nil)
      /\ inst.refresh_url = LastArg("refresh_url", Nil)
      /\ inst.origin = LastArg("origin", Nil)
  BY DEF InstOK, TextMirrors, TextFields
<1>2. /\ Elements(inst.specification) = ArgsOf("specification")
      /\ Elements(inst.credentials) = ArgsOf("credentials")
      /\ Elements(inst.allowed_refresh_initiators) = initiators
      /\ ArrayOK(inst.allowed_refresh_initiators)
  BY DEF InstOK, ArrayMirrors, Arrays
<1>3. inst.allowed_refresh_initiators.count = 0 <=> initiators = <<>>
  BY <1>2, ElementsOK
<1>4. (IF inst.allowed_refresh_initiators.count = 0 THEN Nil
       ELSE Elements(inst.allowed_refresh_initiators)) = list
  BY <1>2, <1>3
<1>5. scope_to_json(inst) = scope
  <2>1. inst.include_site = LastArg("include_site", FALSE) BY Zenon DEF InstOK, SiteMirrors
  <2> QED BY <1>1, <1>2, <2>1, Zenon DEF scope_to_json
<1>6. ContinueMirrors BY DEF InstOK
<1>7. instruction_to_json(inst) =
        IF inst.has_continue /\ ~inst.continue_session THEN stopped
        ELSE Full(IF inst.has_continue THEN TRUE ELSE Nil)
  <2> DEFINE kept == IF inst.allowed_refresh_initiators.count = 0 THEN Nil
                     ELSE Elements(inst.allowed_refresh_initiators)
             c == IF inst.has_continue THEN TRUE ELSE Nil
  <2>1. instruction_to_json(inst) =
          IF inst.has_continue /\ ~inst.continue_session THEN stopped
          ELSE Json(inst.session_identifier, inst.refresh_url, c, kept, scope_to_json(inst),
                    Elements(inst.credentials))
    BY Zenon DEF instruction_to_json
  <2>2. kept = list BY <1>4
  <2> HIDE DEF kept, c, list, scope, stopped
  <2>3. Json(inst.session_identifier, inst.refresh_url, c, kept, scope_to_json(inst),
             Elements(inst.credentials)) = Full(c)
    BY <1>1, <1>2, <1>5, <2>2, Zenon
  <2> QED BY <2>1, <2>3, Zenon DEF c
<1> HIDE DEF stopped, Full, list, scope
<1>8. instruction_to_json(inst) = IF go = FALSE THEN stopped ELSE Full(go)
  <2>1. CASE ~inst.has_continue
    <3>1. ArgsOf("continue") = <<>> BY <1>6, <2>1, Zenon DEF ContinueMirrors
    <3>2. go = Nil BY <3>1, Zenon DEF LastArg
    <3>3. go # FALSE BY <3>2, AllocationAssumption, Zenon
    <3> QED BY <1>7, <2>1, <3>2, <3>3, Zenon
  <2>2. CASE inst.has_continue /\ ~inst.continue_session
    <3>1. go = FALSE BY <1>6, <2>2, Zenon DEF ContinueMirrors
    <3> QED BY <1>7, <2>2, <3>1, Zenon
  <2>3. CASE inst.has_continue /\ inst.continue_session
    <3>1. go = TRUE BY <1>6, <2>3, Zenon DEF ContinueMirrors
    <3>2. go # FALSE BY <3>1, Zenon
    <3> QED BY <1>7, <2>3, <3>1, <3>2, Zenon
  <2> QED BY <1>6, <2>1, <2>2, <2>3 DEF ContinueMirrors
<1> QED BY <1>8, Zenon DEF JsonMirrorsCalls, stopped, Full, list, scope

-----------------------------------------------------------------------------
(* Quoted strings.                                                          *)

\* The extremes of a set of integers between two bounds.
LEMMA Extremes ==
  ASSUME NEW a \in Int, NEW b \in Int, NEW S, S \subseteq a..b, S # {}
  PROVE  /\ Max(S) \in S /\ \A y \in S : y <= Max(S)
         /\ Min(S) \in S /\ \A y \in S : Min(S) <= y
<1> DEFINE T == {b - x : x \in S}
           U == {x - a : x \in S}
<1>1. T \subseteq Nat /\ T # {} /\ U \subseteq Nat /\ U # {}
  <2>1. \A x \in S : b - x \in Nat /\ x - a \in Nat OBVIOUS
  <2>2. PICK x \in S : TRUE OBVIOUS
  <2>3. b - x \in T /\ x - a \in U OBVIOUS
  <2> QED BY <2>1, <2>3
<1>2. \E x \in S : \A y \in S : x >= y
  <2>1. PICK m \in T : \A n \in T : ~(n < m)
    <3> HIDE DEF T
    <3> QED BY <1>1, LeastElement
  <2>2. PICK x \in S : m = b - x OBVIOUS
  <2>3. ASSUME NEW y \in S PROVE x >= y
    <3>1. b - y \in T OBVIOUS
    <3>2. ~(b - y < b - x) BY <2>1, <2>2, <3>1
    <3>3. x \in Int /\ y \in Int OBVIOUS
    <3> QED BY <3>2, <3>3
  <2> QED BY <2>3
<1>3. \E x \in S : \A y \in S : x <= y
  <2>1. PICK m \in U : \A n \in U : ~(n < m)
    <3> HIDE DEF U
    <3> QED BY <1>1, LeastElement
  <2>2. PICK x \in S : m = x - a OBVIOUS
  <2>3. ASSUME NEW y \in S PROVE x <= y
    <3>1. y - a \in U OBVIOUS
    <3>2. ~(y - a < x - a) BY <2>1, <2>2, <3>1
    <3>3. x \in Int /\ y \in Int OBVIOUS
    <3> QED BY <3>2, <3>3
  <2> QED BY <2>3
<1>4. Max(S) \in S /\ \A y \in S : Max(S) >= y BY <1>2, Zenon DEF Max
<1>5. Min(S) \in S /\ \A y \in S : Min(S) <= y BY <1>3, Zenon DEF Min
<1>6. \A y \in S : y <= Max(S)
  <2>1. \A y \in S : y \in Int OBVIOUS
  <2> QED BY <1>4, <2>1
<1> QED BY <1>4, <1>5, <1>6

\* k is the number of backslashes directly before position q, from p on.
IsRun(t, p, q, k) ==
  /\ k \in 0..(q - p)
  /\ \A m \in (q - k)..(q - 1) : t[m] = "backslash"
  /\ k = q - p \/ t[q - k - 1] # "backslash"

\* There is one such number, and at most one.
LEMMA RunExists ==
  ASSUME NEW t, NEW p \in Nat, NEW q \in Nat, p <= q
  PROVE  IsRun(t, p, q, q - 1 - Max({m \in p..(q - 1) : t[m] # "backslash"} \cup {p - 1}))
<1> DEFINE S == {m \in p..(q - 1) : t[m] # "backslash"} \cup {p - 1}
           x == Max(S)
<1>1. S \subseteq (p - 1)..(q - 1) /\ S # {} /\ p - 1 \in Int /\ q - 1 \in Int OBVIOUS
<1>2. x \in S /\ \A y \in S : y <= x
  <2> HIDE DEF S
  <2> QED BY <1>1, Extremes
<1> HIDE DEF x
<1>3. x \in Int /\ x >= p - 1 /\ x <= q - 1 BY <1>1, <1>2
<1>4. ASSUME NEW m \in (x + 1)..(q - 1) PROVE t[m] = "backslash"
  <2>1. m \in p..(q - 1) /\ ~(m <= x) BY <1>3
  <2> QED BY <1>2, <2>1
<1>5. x = p - 1 \/ t[x] # "backslash" BY <1>2
<1> DEFINE k == q - 1 - x
<1>6. /\ k \in 0..(q - p) /\ q - k = x + 1 /\ q - k - 1 = x /\ (x = p - 1 => k = q - p)
  BY <1>3
<1> HIDE DEF k
<1>7. IsRun(t, p, q, k) BY <1>4, <1>5, <1>6 DEF IsRun
<1> QED BY <1>7 DEF k, x

\* See RunExists.
LEMMA RunUnique ==
  ASSUME NEW t, NEW p \in Nat, NEW q \in Nat, NEW k, NEW l,
         IsRun(t, p, q, k), IsRun(t, p, q, l)
  PROVE  k = l
<1>1. k \in Nat /\ l \in Nat /\ k <= q - p /\ l <= q - p BY DEF IsRun
<1>2. ASSUME k < l PROVE FALSE
  <2>1. q - k - 1 \in (q - l)..(q - 1) BY <1>1, <1>2
  <2>2. t[q - k - 1] = "backslash" BY <2>1 DEF IsRun
  <2>3. k # q - p BY <1>1, <1>2
  <2> QED BY <2>2, <2>3 DEF IsRun
<1>3. ASSUME l < k PROVE FALSE
  <2>1. q - l - 1 \in (q - k)..(q - 1) BY <1>1, <1>3
  <2>2. t[q - l - 1] = "backslash" BY <2>1 DEF IsRun
  <2>3. l # q - p BY <1>1, <1>3
  <2> QED BY <2>2, <2>3 DEF IsRun
<1> QED BY <1>1, <1>2, <1>3

\* Whether position q is escaped in the text that starts at p.
OddRun(t, p, q) == \E k \in Nat : IsRun(t, p, q, k) /\ k % 2 = 1

\* How it depends on the start of the text.
LEMMA OddShift ==
  ASSUME NEW t, NEW p \in Nat, NEW q \in Nat, p <= q
  PROVE  /\ q = p => ~OddRun(t, p, q)
         /\ q = p + 1 /\ t[p] = "backslash" => OddRun(t, p, q)
         /\ q > p /\ t[p] # "backslash" => (OddRun(t, p, q) <=> OddRun(t, p + 1, q))
         /\ q > p + 1 /\ t[p] = "backslash" => (OddRun(t, p, q) <=> OddRun(t, p + 2, q))
<1>1. ASSUME q = p PROVE ~OddRun(t, p, q)
  <2>1. ASSUME NEW k \in Nat, IsRun(t, p, q, k) PROVE k % 2 # 1
    <3>1. k = 0 BY <1>1, <2>1 DEF IsRun
    <3> QED BY <3>1
  <2> QED BY <2>1 DEF OddRun
<1>2. ASSUME q = p + 1, t[p] = "backslash" PROVE OddRun(t, p, q)
  <2>1. q - p = 1 /\ (q - 1)..(q - 1) = {p} BY <1>2
  <2>2. IsRun(t, p, q, 1) BY <1>2, <2>1 DEF IsRun
  <2> QED BY <2>2 DEF OddRun
<1>3. ASSUME q > p, t[p] # "backslash" PROVE OddRun(t, p, q) <=> OddRun(t, p + 1, q)
  <2>1. PICK k \in Nat : IsRun(t, p + 1, q, k)
    <3>1. PICK k : IsRun(t, p + 1, q, k)
      <4>1. p + 1 \in Nat /\ p + 1 <= q BY <1>3
      <4> QED BY <4>1, RunExists
    <3> QED BY <3>1 DEF IsRun
  <2>2. k <= q - p - 1 /\ q - (p + 1) = q - p - 1 BY <2>1 DEF IsRun
  <2>3. k \in 0..(q - p) BY <2>2
  <2>4. k = q - p \/ t[q - k - 1] # "backslash"
    <3>1. CASE k = q - p - 1
      <4>1. q - k - 1 = p BY <3>1
      <4> QED BY <1>3, <4>1
    <3>2. CASE k # q - p - 1 BY <2>1, <2>2, <3>2 DEF IsRun
    <3> QED BY <3>1, <3>2
  <2>5. IsRun(t, p, q, k) BY <2>1, <2>3, <2>4 DEF IsRun
  <2> QED BY <2>1, <2>5, RunUnique DEF OddRun
<1>4. ASSUME q > p + 1, t[p] = "backslash" PROVE OddRun(t, p, q) <=> OddRun(t, p + 2, q)
  <2>1. PICK k \in Nat : IsRun(t, p + 2, q, k)
    <3>1. PICK k : IsRun(t, p + 2, q, k)
      <4>1. p + 2 \in Nat /\ p + 2 <= q BY <1>4
      <4> QED BY <4>1, RunExists
    <3> QED BY <3>1 DEF IsRun
  <2>2. /\ k <= q - p - 2 /\ \A m \in (q - k)..(q - 1) : t[m] = "backslash"
        /\ k = q - p - 2 \/ t[q - k - 1] # "backslash"
    <3>1. q - (p + 2) = q - p - 2 OBVIOUS
    <3> QED BY <2>1, <3>1 DEF IsRun
  <2>3. \E l \in Nat : IsRun(t, p, q, l) /\ l % 2 = k % 2
    <3>1. CASE t[q - k - 1] # "backslash"
      <4>1. k \in 0..(q - p) BY <2>2
      <4> QED BY <2>2, <3>1, <4>1 DEF IsRun
    <3>2. CASE t[q - k - 1] = "backslash"
      <4>1. k = q - p - 2 /\ q - k - 1 = p + 1 BY <2>2, <3>2
      <4> DEFINE l == k + 2
      <4>2. l \in Nat /\ l = q - p /\ l \in 0..(q - p) /\ l % 2 = k % 2 BY <4>1
      <4>3. ASSUME NEW m \in (q - l)..(q - 1) PROVE t[m] = "backslash"
        <5>1. m = p \/ m = p + 1 \/ m \in (q - k)..(q - 1) BY <4>1, <4>2
        <5> QED BY <1>4, <2>2, <3>2, <4>1, <5>1
      <4> HIDE DEF l
      <4>4. IsRun(t, p, q, l) BY <4>2, <4>3 DEF IsRun
      <4> QED BY <4>2, <4>4
    <3> QED BY <3>1, <3>2
  <2>4. PICK l \in Nat : IsRun(t, p, q, l) /\ l % 2 = k % 2 BY <2>3
  <2>5. OddRun(t, p, q) <=> l % 2 = 1 BY <2>4, RunUnique DEF OddRun
  <2>6. OddRun(t, p + 2, q) <=> k % 2 = 1
    <3>1. p + 2 \in Nat OBVIOUS
    <3> QED BY <2>1, <3>1, RunUnique DEF OddRun
  <2> QED BY <2>4, <2>5, <2>6
<1> QED BY <1>1, <1>2, <1>3, <1>4

\* Where the scanner of a text t goes from position p, with the results a and b
\* of the next two positions.
Scanned(t, p, a, b) ==
  IF p > Len(t) THEN 0
  ELSE IF t[p] = "quote" THEN p
  ELSE IF t[p] = "backslash" /\ p < Len(t) THEN b
  ELSE a

\* The scanner's recursion has the solution that ClosingQuote names.
LEMMA ClosingScans ==
  ASSUME NEW t \in Seq(Char), NEW p \in 1..(Len(t) + 2)
  PROVE  ClosingQuote(t, p) = Scanned(t, p, ClosingQuote(t, p + 1), ClosingQuote(t, p + 2))
<1> DEFINE L == Len(t)
           D == 1..(L + 2)
           S == Nat \X Nat
           R == [x \in Nat \X S |->
                   IF x[1] \in 1..(L + 1)
                   THEN <<Scanned(t, L + 2 - x[1], x[2][1], x[2][2]), x[2][1]>> ELSE x[2]]
           N == L + 1
           Eq(f) == f = [i \in D |-> Scanned(t, i, f[i + 1], f[i + 2])]
           G == CHOOSE f : Eq(f)
<1>1. L \in Nat /\ N \in Nat /\ <<0, 0>> \in S OBVIOUS
<1>2. ASSUME NEW n \in 1..N, NEW a \in Nat, NEW b \in Nat
      PROVE  Scanned(t, L + 2 - n, a, b) \in Nat
  BY <1>1 DEF Scanned
<1> HIDE DEF L
<1>3. R \in [Nat \X S -> S]
  <2>1. ASSUME NEW x \in Nat \X S
        PROVE  (IF x[1] \in 1..(L + 1)
                THEN <<Scanned(t, L + 2 - x[1], x[2][1], x[2][2]), x[2][1]>> ELSE x[2]) \in S
    <3>1. x[2] \in S /\ x[2][1] \in Nat /\ x[2][2] \in Nat OBVIOUS
    <3>2. x[1] \in 1..(L + 1) => Scanned(t, L + 2 - x[1], x[2][1], x[2][2]) \in Nat
      BY <1>2, <3>1
    <3> QED BY <3>1, <3>2
  <2> QED BY <2>1
<1>4. ASSUME NEW n \in 1..N, NEW y \in S
      PROVE  R[<<n, y>>] = <<Scanned(t, L + 2 - n, y[1], y[2]), y[1]>>
  <2>1. n \in Nat /\ <<n, y>> \in Nat \X S OBVIOUS
  <2> QED BY <2>1
<1> HIDE DEF R
<1>5. PICK g \in [0..N -> S] : g[0] = <<0, 0>> /\ \A n \in 1..N : g[n] = R[<<n, g[n - 1]>>]
  <2> HIDE DEF S, N
  <2>1. PICK g : Iterates(g, S, R, <<0, 0>>, N) BY <1>1, <1>3, Iteration, Zenon
  <2> QED BY <2>1 DEF Iterates
<1>6. ASSUME NEW n \in 1..N
      PROVE  /\ g[n][1] = Scanned(t, L + 2 - n, g[n - 1][1], g[n - 1][2])
             /\ g[n][2] = g[n - 1][1]
  <2>1. n - 1 \in 0..N BY <1>1
  <2>2. g[n - 1] \in S BY <1>5, <2>1
  <2>3. g[n] = <<Scanned(t, L + 2 - n, g[n - 1][1], g[n - 1][2]), g[n - 1][1]>>
    BY <1>4, <1>5, <2>2
  <2> QED BY <2>3
<1> DEFINE f == [i \in D |-> g[L + 2 - i][1]]
<1>7. ASSUME NEW i \in D PROVE f[i] = Scanned(t, i, f[i + 1], f[i + 2])
  <2>1. f[i] = g[L + 2 - i][1] OBVIOUS
  <2>2. CASE i = L + 2
    <3>1. L + 2 - i = 0 /\ i > Len(t) BY <1>1, <2>2 DEF L
    <3>2. g[L + 2 - i][1] = 0 BY <1>5, <3>1
    <3> QED BY <2>1, <3>1, <3>2 DEF Scanned
  <2>3. CASE i # L + 2
    <3> DEFINE n == L + 2 - i
    <3>1. n \in 1..N /\ L + 2 - n = i /\ i + 1 \in D /\ L + 2 - (i + 1) = n - 1
      BY <1>1, <2>3
    <3>2. f[i + 1] = g[n - 1][1] BY <3>1
    <3> HIDE DEF f
    <3>3. f[i] = Scanned(t, i, f[i + 1], g[n - 1][2]) BY <1>6, <2>1, <3>1, <3>2
    <3>4. CASE i < L
      <4>1. n - 1 \in 1..N /\ i + 2 \in D /\ L + 2 - (i + 2) = n - 2 /\ (n - 1) - 1 = n - 2
        BY <1>1, <3>4
      <4>2. g[n - 1][2] = g[n - 2][1] BY <1>6, <4>1
      <4>3. f[i + 2] = g[n - 2][1] BY <4>1 DEF f
      <4> QED BY <3>3, <4>2, <4>3
    <3>5. CASE ~(i < L) BY <3>3, <3>5 DEF Scanned, L
    <3> QED BY <3>4, <3>5
  <2> QED BY <2>2, <2>3
<1>8. Eq(f) BY <1>7
<1> HIDE DEF f
<1>9. Eq(G) BY <1>8, Zenon
<1>10. ASSUME NEW i PROVE ClosingQuote(t, i) = G[i]
  BY Zenon DEF ClosingQuote, Scanned, D, L
<1> HIDE DEF G
<1>11. G[p] = Scanned(t, p, G[p + 1], G[p + 2])
  <2>1. p \in D BY DEF L
  <2> QED BY <1>9, <2>1
<1> QED BY <1>10, <1>11

\* The first quote from p on that is not escaped, or 0.
FirstPlain(t, p, c) ==
  /\ c \in 0..Len(t)
  /\ c # 0 => c >= p /\ t[c] = "quote" /\ ~OddRun(t, p, c)
  /\ \A q \in p..Len(t) : t[q] = "quote" /\ (c = 0 \/ q < c) => OddRun(t, p, q)

\* One step of the scanner.
LEMMA FirstPlainStep ==
  ASSUME NEW t \in Seq(Char), NEW p \in 1..Len(t), NEW a, NEW b,
         FirstPlain(t, p + 1, a), p < Len(t) => FirstPlain(t, p + 2, b)
  PROVE  FirstPlain(t, p, Scanned(t, p, a, b))
<1> DEFINE L == Len(t)
           c == Scanned(t, p, a, b)
<1>1. L \in Nat /\ p \in Nat /\ p >= 1 /\ p <= L OBVIOUS
<1>2. CASE t[p] = "quote"
  <2>1. c = p BY <1>1, <1>2 DEF Scanned
  <2>2. ~OddRun(t, p, p) BY <1>1, OddShift
  <2> QED BY <1>1, <1>2, <2>1, <2>2 DEF FirstPlain
<1>3. CASE t[p] # "quote" /\ t[p] # "backslash"
  <2>1. c = a BY <1>1, <1>3 DEF Scanned
  <2>2. \A q \in (p + 1)..L : OddRun(t, p, q) <=> OddRun(t, p + 1, q)
    <3>1. ASSUME NEW q \in (p + 1)..L PROVE OddRun(t, p, q) <=> OddRun(t, p + 1, q)
      <4>1. q \in Nat /\ p <= q /\ q > p BY <1>1
      <4> QED BY <1>1, <1>3, <4>1, OddShift
    <3> QED BY <3>1
  <2>3. a \in 0..L /\ (a # 0 => a \in (p + 1)..L /\ t[a] = "quote" /\ ~OddRun(t, p, a))
    BY <1>1, <2>2 DEF FirstPlain
  <2>4. ASSUME NEW q \in p..L, t[q] = "quote", a = 0 \/ q < a PROVE OddRun(t, p, q)
    <3>1. q \in (p + 1)..L BY <1>1, <1>3, <2>4
    <3> QED BY <2>2, <2>4, <3>1 DEF FirstPlain
  <2> HIDE DEF c
  <2> QED BY <1>1, <2>1, <2>3, <2>4 DEF FirstPlain, c
<1>4. CASE t[p] = "backslash" /\ p < L
  <2>1. c = b BY <1>1, <1>4 DEF Scanned
  <2>2. \A q \in (p + 2)..L : OddRun(t, p, q) <=> OddRun(t, p + 2, q)
    <3>1. ASSUME NEW q \in (p + 2)..L PROVE OddRun(t, p, q) <=> OddRun(t, p + 2, q)
      <4>1. q \in Nat /\ p <= q /\ q > p + 1 BY <1>1
      <4> QED BY <1>1, <1>4, <4>1, OddShift
    <3> QED BY <3>1
  <2>3. OddRun(t, p, p + 1) BY <1>1, <1>4, OddShift
  <2>4. b \in 0..L /\ (b # 0 => b \in (p + 2)..L /\ t[b] = "quote" /\ ~OddRun(t, p, b))
    BY <1>1, <1>4, <2>2 DEF FirstPlain
  <2>5. ASSUME NEW q \in p..L, t[q] = "quote", b = 0 \/ q < b PROVE OddRun(t, p, q)
    <3>1. q = p + 1 \/ q \in (p + 2)..L BY <1>1, <1>4, <2>5
    <3> QED BY <1>4, <2>2, <2>3, <2>5, <3>1 DEF FirstPlain
  <2> HIDE DEF c
  <2> QED BY <1>1, <2>1, <2>4, <2>5 DEF FirstPlain, c
<1>5. CASE t[p] = "backslash" /\ p = L
  <2>1. c = a BY <1>1, <1>5 DEF Scanned
  <2>2. a = 0 BY <1>1, <1>5 DEF FirstPlain
  <2>3. \A q \in p..L : t[q] # "quote" BY <1>1, <1>5
  <2> QED BY <1>1, <2>1, <2>2, <2>3 DEF FirstPlain
<1> QED BY <1>1, <1>2, <1>3, <1>4, <1>5

\* What ClosingQuote returns.
LEMMA ClosingIsFirst ==
  ASSUME NEW t \in Seq(Char), NEW p \in 1..(Len(t) + 1)
  PROVE  FirstPlain(t, p, ClosingQuote(t, p))
<1> DEFINE L == Len(t)
           C(i) == ClosingQuote(t, i)
           N == L + 1
           T == {n \in 0..N : FirstPlain(t, L + 2 - n, C(L + 2 - n))
                              /\ (n > 0 => FirstPlain(t, L + 3 - n, C(L + 3 - n)))}
<1>1. L \in Nat OBVIOUS
<1>2. \A i \in {L + 1, L + 2} : FirstPlain(t, i, C(i))
  <2>1. ASSUME NEW i \in {L + 1, L + 2} PROVE FirstPlain(t, i, C(i))
    <3>1. i \in 1..(L + 2) /\ i > L BY <1>1
    <3>2. C(i) = 0 BY <3>1, ClosingScans DEF Scanned
    <3>3. i..L = {} BY <3>1, <1>1
    <3> QED BY <1>1, <3>2, <3>3 DEF FirstPlain
  <2> QED BY <2>1
<1> HIDE DEF C
<1>3. 0 \in T
  <2>1. L + 2 - 0 = L + 2 /\ 0 \in 0..N BY <1>1
  <2> QED BY <1>2, <2>1
<1>4. ASSUME NEW n \in T, n < N PROVE n + 1 \in T
  <2> DEFINE i == L + 1 - n
  <2>1. /\ n + 1 \in 0..N /\ n \in Nat /\ L + 2 - (n + 1) = i /\ L + 3 - (n + 1) = i + 1
        /\ L + 2 - n = i + 1 /\ L + 3 - n = i + 2 /\ i \in 1..(L + 1)
    BY <1>1, <1>4
  <2>2. FirstPlain(t, i + 1, C(i + 1)) BY <2>1
  <2>3. FirstPlain(t, i, C(i))
    <3>1. CASE i = L + 1 BY <1>2, <3>1
    <3>2. CASE i # L + 1
      <4>1. i \in 1..L /\ n > 0 /\ i \in 1..(L + 2) BY <1>1, <2>1, <3>2
      <4>2. FirstPlain(t, i + 2, C(i + 2)) BY <2>1, <4>1
      <4>3. C(i) = Scanned(t, i, C(i + 1), C(i + 2)) BY <4>1, ClosingScans DEF C
      <4> HIDE DEF i
      <4> QED BY <2>2, <4>1, <4>2, <4>3, FirstPlainStep
    <3> QED BY <3>1, <3>2
  <2> HIDE DEF i
  <2> QED BY <2>1, <2>2, <2>3
<1>5. T = 0..N
  <2>1. T \subseteq 0..N /\ N \in Nat BY <1>1
  <2> HIDE DEF T, N
  <2> QED BY <1>3, <1>4, <2>1, BoundedInduction
<1>6. L + 2 - p \in 0..N /\ L + 2 - (L + 2 - p) = p BY <1>1
<1>7. L + 2 - p \in T BY <1>5, <1>6
<1>8. FirstPlain(t, p, C(p)) BY <1>6, <1>7
<1> QED BY <1>8 DEF C

\* There is only one such quote.
LEMMA FirstPlainUnique ==
  ASSUME NEW t \in Seq(Char), NEW p \in Nat, NEW c, NEW d,
         FirstPlain(t, p, c), FirstPlain(t, p, d)
  PROVE  c = d
<1>1. c \in Nat /\ d \in Nat /\ c <= Len(t) /\ d <= Len(t) BY DEF FirstPlain
<1>2. ASSUME c # 0, d = 0 \/ c < d PROVE FALSE BY <1>1, <1>2 DEF FirstPlain
<1>3. ASSUME d # 0, c = 0 \/ d < c PROVE FALSE BY <1>1, <1>3 DEF FirstPlain
<1> QED BY <1>1, <1>2, <1>3

\* What AfterSpace returns.
LEMMA AfterSpaceIs ==
  ASSUME NEW t \in Seq(Char), NEW i \in 1..(Len(t) + 1)
  PROVE  /\ AfterSpace(t, i) \in i..(Len(t) + 1)
         /\ \A m \in i..Len(t) : m < AfterSpace(t, i) => t[m] = "space"
         /\ AfterSpace(t, i) <= Len(t) => t[AfterSpace(t, i)] # "space"
<1> DEFINE L == Len(t)
           S == {p \in i..L : t[p] # "space"} \cup {L + 1}
           a == AfterSpace(t, i)
<1>1. L \in Nat /\ i \in Nat /\ i <= L + 1 OBVIOUS
<1>2. S \subseteq i..(L + 1) /\ S # {} BY <1>1
<1>3. a \in S /\ \A y \in S : a <= y
  <2>1. a = Min(S) BY DEF AfterSpace
  <2>2. i \in Int /\ L + 1 \in Int BY <1>1
  <2> HIDE DEF S, a, L
  <2>3. Min(S) \in S /\ \A y \in S : Min(S) <= y BY <1>2, <2>2, Extremes
  <2> QED BY <2>1, <2>3
<1> HIDE DEF a
<1>4. a \in i..(L + 1) BY <1>2, <1>3
<1>5. ASSUME NEW m \in i..L, m < a PROVE t[m] = "space"
  <2>1. ~(a <= m) BY <1>1, <1>4, <1>5
  <2> QED BY <1>3, <2>1
<1>6. a <= L => t[a] # "space" BY <1>1, <1>3
<1> QED BY <1>4, <1>5, <1>6 DEF a

\* Escaped, in the terms used here.
LEMMA EscapedIs ==
  ASSUME NEW s, NEW k \in Nat, k >= 1
  PROVE  Escaped(s, k) <=> OddRun(s, 1, k)
<1> DEFINE M == {p \in 1..(k - 1) : s[p] # "backslash"} \cup {0}
           b == k - 1 - Max(M)
<1>1. IsRun(s, 1, k, b)
  <2>1. 1 - 1 = 0 OBVIOUS
  <2> QED BY <2>1, RunExists
<1>2. BackslashesBefore(s, k) = b BY DEF BackslashesBefore
<1> HIDE DEF b
<1>3. b \in Nat BY <1>1 DEF IsRun
<1>4. OddRun(s, 1, k) <=> b % 2 = 1 BY <1>1, <1>3, RunUnique DEF OddRun
<1> QED BY <1>2, <1>4 DEF Escaped

\* The same stretch of text at another place.
LEMMA OddMoves ==
  ASSUME NEW s, NEW t, NEW i \in Nat, NEW n \in Nat, \A m \in 1..n : s[m] = t[i + m],
         NEW k \in 1..(n + 1)
  PROVE  OddRun(s, 1, k) <=> OddRun(t, i + 1, i + k)
<1>1. ASSUME NEW r \in Nat PROVE IsRun(s, 1, k, r) <=> IsRun(t, i + 1, i + k, r)
  <2>1. k - 1 = (i + k) - (i + 1) OBVIOUS
  <2>2. CASE r \in 0..(k - 1)
    <3>1. (\A m \in (k - r)..(k - 1) : s[m] = "backslash") <=>
          (\A m \in ((i + k) - r)..((i + k) - 1) : t[m] = "backslash")
      <4>1. ASSUME NEW m \in (k - r)..(k - 1)
            PROVE  /\ i + m \in ((i + k) - r)..((i + k) - 1) /\ s[m] = t[i + m]
        BY <2>2
      <4>2. ASSUME NEW m \in ((i + k) - r)..((i + k) - 1)
            PROVE  /\ m - i \in (k - r)..(k - 1) /\ i + (m - i) = m
        BY <2>2
      <4> QED BY <4>1, <4>2
    <3>2. r # k - 1 => s[k - r - 1] = t[(i + k) - r - 1]
      <4>1. r # k - 1 => k - r - 1 \in 1..n /\ i + (k - r - 1) = (i + k) - r - 1 BY <2>2
      <4> QED BY <4>1
    <3> QED BY <2>1, <2>2, <3>1, <3>2 DEF IsRun
  <2>3. CASE r \notin 0..(k - 1) BY <2>1, <2>3 DEF IsRun
  <2> QED BY <2>2, <2>3
<1> QED BY <1>1 DEF OddRun

\* The text between i and j is enclosed in quotes, with white space around.
Enclosed(t, i, j) ==
  /\ t[i] = "quote" /\ t[j] = "quote"
  /\ \A p \in 1..Len(t) : p < i \/ p > j => t[p] = "space"
  /\ LET s == SubSeq(t, i + 1, j)
     IN \A p \in DOMAIN s : s[p] = "quote" => (Escaped(s, p) <=> p < Len(s))

\* The closing quote is the first that is not escaped.
LEMMA EnclosedIs ==
  ASSUME NEW t \in Seq(Char), NEW i \in 1..Len(t), NEW j \in (i + 1)..Len(t)
  PROVE  Enclosed(t, i, j) <=>
           /\ t[i] = "quote" /\ t[j] = "quote"
           /\ \A p \in 1..Len(t) : p < i \/ p > j => t[p] = "space"
           /\ FirstPlain(t, i + 1, j)
<1> DEFINE L == Len(t)
           s == SubSeq(t, i + 1, j)
           n == j - i
<1>1. L \in Nat /\ i \in Nat /\ j \in Nat /\ n \in Nat /\ n >= 1 /\ i >= 1 /\ j <= L OBVIOUS
<1>2. s \in Seq(Char) /\ Len(s) = n /\ \A m \in 1..n : s[m] = t[i + m] BY <1>1
<1>3. DOMAIN s = 1..n BY <1>2
<1> HIDE DEF s
<1>4. ASSUME NEW p \in 1..n PROVE Escaped(s, p) <=> OddRun(t, i + 1, i + p)
  <2>1. p \in Nat /\ p >= 1 /\ p \in 1..(n + 1) BY <1>1
  <2> QED BY <1>1, <1>2, <2>1, EscapedIs, OddMoves
<1> DEFINE A == \A p \in 1..n : s[p] = "quote" => (Escaped(s, p) <=> p < n)
<1>5. ASSUME t[j] = "quote", A PROVE FirstPlain(t, i + 1, j)
  <2>1. n \in 1..n /\ i + n = j /\ s[n] = "quote" BY <1>1, <1>2, <1>5
  <2>2. ~OddRun(t, i + 1, j) BY <1>1, <1>4, <1>5, <2>1
  <2>3. ASSUME NEW q \in (i + 1)..L, t[q] = "quote", q < j PROVE OddRun(t, i + 1, q)
    <3>1. q - i \in 1..n /\ q - i < n /\ i + (q - i) = q BY <1>1, <2>3
    <3>2. s[q - i] = "quote" BY <1>2, <2>3, <3>1
    <3> QED BY <1>4, <1>5, <3>1, <3>2
  <2>4. j # 0 /\ j \in 0..L /\ j >= i + 1 BY <1>1
  <2> QED BY <1>5, <2>2, <2>3, <2>4 DEF FirstPlain
<1>6. ASSUME FirstPlain(t, i + 1, j) PROVE A
  <2>1. ASSUME NEW p \in 1..n, s[p] = "quote" PROVE Escaped(s, p) <=> p < n
    <3>1. i + p \in (i + 1)..L /\ t[i + p] = "quote" /\ j # 0 BY <1>1, <1>2, <2>1
    <3>2. CASE p < n
      <4>1. i + p < j BY <1>1, <3>2
      <4>2. OddRun(t, i + 1, i + p) BY <1>6, <3>1, <4>1 DEF FirstPlain
      <4> QED BY <1>4, <3>2, <4>2
    <3>3. CASE p = n
      <4>1. i + p = j BY <1>1, <3>3
      <4>2. ~OddRun(t, i + 1, i + p) BY <1>6, <3>1, <4>1 DEF FirstPlain
      <4> QED BY <1>1, <1>4, <3>3, <4>2
    <3> QED BY <1>1, <3>2, <3>3
  <2> QED BY <2>1
<1>7. (\A p \in DOMAIN s : s[p] = "quote" => (Escaped(s, p) <=> p < Len(s))) <=> A
  BY <1>2, <1>3
<1> HIDE DEF A
<1> QED BY <1>5, <1>6, <1>7 DEF Enclosed, s

\* unquote returns what is enclosed.
LEMMA UnquoteIs ==
  ASSUME NEW t \in Seq(Char)
  PROVE  /\ \A i \in 1..Len(t) : \A j \in (i + 1)..Len(t) :
              Enclosed(t, i, j) => unquote(t) = SubSeq(t, i + 1, j - 1)
         /\ (~\E i \in 1..Len(t) : \E j \in (i + 1)..Len(t) : Enclosed(t, i, j))
              => unquote(t) = Nil
<1> DEFINE L == Len(t)
           open == AfterSpace(t, 1)
           close == ClosingQuote(t, open + 1)
           Good == /\ open <= L /\ t[open] = "quote"
                   /\ close # 0
                   /\ AfterSpace(t, close + 1) > L
<1>1. L \in Nat /\ 1 \in 1..(L + 1) OBVIOUS
<1>2. /\ open \in 1..(L + 1)
      /\ \A m \in 1..L : m < open => t[m] = "space"
      /\ open <= L => t[open] # "space"
  BY <1>1, AfterSpaceIs
<1>3. unquote(t) = IF Good THEN SubSeq(t, open + 1, close - 1) ELSE Nil BY DEF unquote
<1> HIDE DEF open
<1>4. open <= L => FirstPlain(t, open + 1, close)
  <2>1. open <= L => open + 1 \in 1..(L + 1) BY <1>1, <1>2
  <2> QED BY <2>1, ClosingIsFirst
<1> HIDE DEF close
<1>5. close # 0 /\ open <= L => close \in (open + 1)..L BY <1>1, <1>2, <1>4 DEF FirstPlain
<1>6. ASSUME NEW c \in 1..L
      PROVE  AfterSpace(t, c + 1) > L <=> \A m \in 1..L : m > c => t[m] = "space"
  <2>1. c + 1 \in 1..(L + 1) BY <1>1
  <2> DEFINE a == AfterSpace(t, c + 1)
  <2>2. /\ a \in (c + 1)..(L + 1)
        /\ \A m \in (c + 1)..L : m < a => t[m] = "space"
        /\ a <= L => t[a] # "space"
    BY <2>1, AfterSpaceIs
  <2> HIDE DEF a
  <2>3. ASSUME a > L, NEW m \in 1..L, m > c PROVE t[m] = "space"
    <3>1. m \in (c + 1)..L /\ m < a BY <1>1, <2>2, <2>3
    <3> QED BY <2>2, <3>1
  <2>4. ASSUME ~(a > L) PROVE a \in 1..L /\ a > c /\ t[a] # "space" BY <1>1, <2>2, <2>4
  <2> QED BY <2>3, <2>4 DEF a
<1>7. ASSUME NEW i \in 1..L, NEW j \in (i + 1)..L, Enclosed(t, i, j)
      PROVE  unquote(t) = SubSeq(t, i + 1, j - 1)
  <2>1. /\ t[i] = "quote" /\ t[j] = "quote"
        /\ \A p \in 1..L : p < i \/ p > j => t[p] = "space"
        /\ FirstPlain(t, i + 1, j)
    BY <1>7, EnclosedIs
  <2>2. open = i
    <3>1. ~(i < open) BY <1>2, <2>1
    <3>2. ~(open < i)
      <4>1. ASSUME open < i PROVE FALSE
        <5>1. open \in 1..L BY <1>1, <1>2, <4>1
        <5> QED BY <1>2, <2>1, <4>1, <5>1
      <4> QED BY <4>1
    <3> QED BY <1>1, <1>2, <3>1, <3>2
  <2>3. open <= L /\ i \in Nat /\ i + 1 \in Nat /\ j \in 1..L /\ j # 0 BY <1>1, <2>2
  <2>4. close = j BY <1>4, <2>1, <2>2, <2>3, FirstPlainUnique
  <2>5. AfterSpace(t, close + 1) > L
    <3>1. \A m \in 1..L : m > j => t[m] = "space" BY <2>1
    <3> QED BY <1>6, <2>3, <2>4, <3>1
  <2>6. Good BY <2>1, <2>2, <2>3, <2>4, <2>5
  <2> QED BY <1>3, <2>2, <2>4, <2>6
<1>8. ASSUME Good PROVE \E i \in 1..L : \E j \in (i + 1)..L : Enclosed(t, i, j)
  <2>1. open \in 1..L /\ close \in (open + 1)..L /\ close \in 1..L BY <1>1, <1>2, <1>5, <1>8
  <2>2. FirstPlain(t, open + 1, close) /\ t[close] = "quote"
    BY <1>4, <1>8 DEF FirstPlain
  <2>3. \A m \in 1..L : m > close => t[m] = "space" BY <1>6, <1>8, <2>1
  <2>4. \A p \in 1..L : p < open \/ p > close => t[p] = "space" BY <1>2, <2>3
  <2>5. Enclosed(t, open, close) BY <1>8, <2>1, <2>2, <2>4, EnclosedIs
  <2> QED BY <2>1, <2>5
<1> HIDE DEF Good
<1> QED BY <1>3, <1>7, <1>8

Joins(S, a, b) ==
  /\ a \o b \in Seq(S) /\ Len(a \o b) = Len(a) + Len(b)
  /\ \A m \in 1..Len(a) : (a \o b)[m] = a[m]
  /\ \A m \in 1..Len(b) : (a \o b)[Len(a) + m] = b[m]

\* Two sequences, one after the other.
LEMMA Joined ==
  ASSUME NEW S, NEW a \in Seq(S), NEW b \in Seq(S)
  PROVE  Joins(S, a, b)
BY DEF Joins

\* A text with a quote before it and one after it.
LEMMA QuotedText ==
  ASSUME NEW t \in Seq(Char)
  PROVE  /\ quote(t) \in Seq(Char) /\ Len(quote(t)) = Len(t) + 2
         /\ quote(t)[1] = "quote" /\ quote(t)[Len(t) + 2] = "quote"
         /\ \A m \in 1..Len(t) : t[m] = quote(t)[1 + m]
<1> DEFINE q == <<"quote">>
           a == q \o t
           L == Len(t)
<1>1. q \in Seq(Char) /\ Len(q) = 1 /\ q[1] = "quote" BY DEF Char
<1>2. L \in Nat OBVIOUS
<1> HIDE DEF q
<1>3. a \in Seq(Char) /\ Len(a) = L + 1 /\ a[1] = "quote" /\ \A m \in 1..L : a[1 + m] = t[m]
  <2>1. /\ a \in Seq(Char) /\ Len(a) = Len(q) + L
        /\ \A m \in 1..Len(q) : a[m] = q[m]
        /\ \A m \in 1..L : a[Len(q) + m] = t[m]
    <3>1. Joins(Char, q, t) BY <1>1, Joined
    <3> QED BY <3>1, Zenon DEF Joins
  <2> HIDE DEF a, L
  <2> QED BY <1>1, <1>2, <2>1
<1> HIDE DEF a, L
<1> DEFINE u == a \o q
<1>4. /\ u \in Seq(Char) /\ Len(u) = Len(a) + Len(q)
      /\ \A m \in 1..Len(a) : u[m] = a[m]
      /\ \A m \in 1..Len(q) : u[Len(a) + m] = q[m]
  <2>1. Joins(Char, a, q) BY <1>1, <1>3, Joined
  <2> QED BY <2>1, Zenon DEF Joins
<1> HIDE DEF u
<1>5. Len(u) = L + 2 /\ \A m \in 1..(L + 1) : u[m] = a[m] BY <1>1, <1>2, <1>3, <1>4
<1>6. u[L + 2] = "quote"
  <2>1. 1 \in 1..Len(q) /\ Len(a) + 1 = L + 2 BY <1>1, <1>2, <1>3
  <2>2. u[Len(a) + 1] = q[1] BY <1>4, <2>1
  <2> QED BY <1>1, <2>1, <2>2
<1>7. u = quote(t) BY DEF quote, a, q, u
<1>8. u[1] = "quote" /\ \A m \in 1..L : t[m] = u[1 + m]
  <2>1. 1 \in 1..(L + 1) /\ \A m \in 1..L : 1 + m \in 1..(L + 1) BY <1>2
  <2> QED BY <1>3, <1>5, <2>1
<1> QED BY <1>4, <1>5, <1>6, <1>7, <1>8 DEF L

\* unquote undoes quote for every text without a bare quote.
LEMMA UnquoteUndoes ==
  ASSUME NEW t \in Seq(Char)
  PROVE  unquote(quote(t)) = t <=>
           ~(\/ \E p \in DOMAIN t : t[p] = "quote" /\ ~Escaped(t, p)
             \/ Escaped(t, Len(t) + 1))
<1> DEFINE L == Len(t)
           u == quote(t)
           Torn == \/ \E p \in DOMAIN t : t[p] = "quote" /\ ~Escaped(t, p)
                   \/ Escaped(t, L + 1)
<1>1. /\ u \in Seq(Char) /\ Len(u) = L + 2 /\ u[1] = "quote" /\ u[L + 2] = "quote"
      /\ \A m \in 1..L : t[m] = u[1 + m]
  BY QuotedText
<1>2. L \in Nat /\ DOMAIN t = 1..L OBVIOUS
<1> HIDE DEF u
<1>3. ASSUME NEW k \in 1..(L + 1) PROVE Escaped(t, k) <=> OddRun(u, 2, k + 1)
  <2>1. k \in Nat /\ k >= 1 /\ 1 + 1 = 2 /\ 1 + k = k + 1 BY <1>2
  <2>2. OddRun(t, 1, k) <=> OddRun(u, 1 + 1, 1 + k)
    <3> HIDE DEF L
    <3> QED BY <1>1, <1>2, OddMoves
  <2>3. Escaped(t, k) <=> OddRun(t, 1, k) BY <2>1, EscapedIs
  <2> QED BY <2>1, <2>2, <2>3
<1> HIDE DEF L
<1>4. FirstPlain(u, 2, L + 2) <=> ~Torn
  <2>1. ASSUME FirstPlain(u, 2, L + 2), NEW p \in 1..L, t[p] = "quote" PROVE Escaped(t, p)
    <3>1. p + 1 \in 2..Len(u) /\ p + 1 < L + 2 /\ p \in 1..(L + 1) /\ u[p + 1] = "quote"
      BY <1>1, <1>2, <2>1
    <3>2. OddRun(u, 2, p + 1) BY <2>1, <3>1 DEF FirstPlain
    <3> QED BY <1>3, <3>1, <3>2
  <2>2. ASSUME FirstPlain(u, 2, L + 2) PROVE ~Escaped(t, L + 1)
    <3>1. L + 1 \in 1..(L + 1) /\ (L + 1) + 1 = L + 2 /\ L + 2 # 0 BY <1>2
    <3>2. ~OddRun(u, 2, L + 2) BY <2>2, <3>1 DEF FirstPlain
    <3> QED BY <1>3, <3>1, <3>2
  <2>3. ASSUME ~Torn PROVE FirstPlain(u, 2, L + 2)
    <3>1. ~OddRun(u, 2, L + 2)
      <4>1. L + 1 \in 1..(L + 1) /\ (L + 1) + 1 = L + 2 BY <1>2
      <4> QED BY <1>3, <2>3, <4>1
    <3>2. ASSUME NEW q \in 2..(L + 2), u[q] = "quote", q < L + 2 PROVE OddRun(u, 2, q)
      <4>1. q - 1 \in 1..L /\ q - 1 \in 1..(L + 1) /\ (q - 1) + 1 = q /\ 1 + (q - 1) = q
        BY <1>2, <3>2
      <4>2. t[q - 1] = "quote" BY <1>1, <3>2, <4>1
      <4>3. Escaped(t, q - 1) BY <1>2, <2>3, <4>1, <4>2
      <4> QED BY <1>3, <4>1, <4>3
    <3>3. L + 2 \in 0..(L + 2) /\ L + 2 >= 2 /\ L + 2 # 0 BY <1>2
    <3> QED BY <1>1, <3>1, <3>2, <3>3 DEF FirstPlain
  <2> QED BY <1>2, <2>1, <2>2, <2>3
<1> HIDE DEF Torn
<1>5. Enclosed(u, 1, L + 2) <=> FirstPlain(u, 2, L + 2)
  <2>1. 1 \in 1..Len(u) /\ L + 2 \in (1 + 1)..Len(u) /\ 1 + 1 = 2 BY <1>1, <1>2
  <2>2. \A p \in 1..Len(u) : ~(p < 1 \/ p > L + 2) BY <1>1, <1>2
  <2> QED BY <1>1, <2>1, <2>2, EnclosedIs
<1>6. ASSUME ~Torn PROVE unquote(u) = t
  <2>1. 1 \in 1..Len(u) /\ L + 2 \in (1 + 1)..Len(u) BY <1>1, <1>2
  <2>2. unquote(u) = SubSeq(u, 1 + 1, (L + 2) - 1) BY <1>1, <1>4, <1>5, <1>6, <2>1, UnquoteIs
  <2>3. 1 + 1 = 2 /\ (L + 2) - 1 = L + 1 BY <1>2
  <2> DEFINE s == SubSeq(u, 2, L + 1)
  <2>4. s \in Seq(Char) /\ Len(s) = L /\ \A m \in 1..L : s[m] = u[1 + m] BY <1>1, <1>2
  <2> HIDE DEF s
  <2>5. \A m \in 1..L : s[m] = t[m] BY <1>1, <2>4
  <2>6. s = t BY <2>4, <2>5 DEF L
  <2> QED BY <2>2, <2>3, <2>6 DEF s
<1>7. ASSUME unquote(u) = t PROVE ~Torn
  <2>1. unquote(u) # Nil BY <1>7, HeaderAssumption
  <2>2. PICK i \in 1..Len(u) : \E j \in (i + 1)..Len(u) : Enclosed(u, i, j)
    BY <1>1, <2>1, UnquoteIs
  <2>3. PICK j \in (i + 1)..Len(u) : Enclosed(u, i, j) BY <2>2
  <2>4. \A p \in 1..Len(u) : p < i \/ p > j => u[p] = "space"
    BY <2>3 DEF Enclosed
  <2>5. i = 1
    <3>1. 1 \in 1..Len(u) /\ i \in Nat /\ i >= 1 BY <1>1, <1>2
    <3> QED BY <1>1, <2>4, <3>1
  <2>6. j = L + 2
    <3>1. L + 2 \in 1..Len(u) /\ j \in Nat /\ j <= L + 2 BY <1>1, <1>2
    <3> QED BY <1>1, <1>2, <2>4, <3>1
  <2> QED BY <1>4, <1>5, <2>3, <2>5, <2>6
<1> QED BY <1>6, <1>7 DEF Torn, L, u

\* What a request brings in Secure-Session-Response.
QuotedOK == quoted \in QuotedValues \cup {Nil}

\* unquote is exact on it.
LEMMA QuotedExact ==
  ASSUME QuotedOK
  PROVE  UnquoteExact
<1> SUFFICES ASSUME quoted # Nil PROVE UnquoteExact
  BY DEF UnquoteExact
<1> DEFINE t == quoted
           Some == \E i \in DOMAIN t : \E j \in (i + 1)..Len(t) : Enclosed(t, i, j)
<1>1. t \in Seq(Char) BY HeaderAssumption DEF QuotedOK
<1>2. DOMAIN t = 1..Len(t) BY <1>1
<1>3. Some => \E i \in DOMAIN t : \E j \in (i + 1)..Len(t) :
                Enclosed(t, i, j) /\ unquote(t) = SubSeq(t, i + 1, j - 1)
  BY <1>1, <1>2, UnquoteIs
<1>4. ~Some => unquote(t) = Nil BY <1>1, <1>2, UnquoteIs
<1>5. unquote(quote(t)) = t <=>
        ~(\/ \E p \in DOMAIN t : t[p] = "quote" /\ ~Escaped(t, p)
          \/ Escaped(t, Len(t) + 1))
  BY <1>1, UnquoteUndoes
<1> QED BY <1>3, <1>4, <1>5, Zenon DEF UnquoteExact, Enclosed

\* The wrapper's strip_quotes agrees with it.
LEMMA StripAgrees ==
  ASSUME QuotedOK
  PROVE  StripAgreesWithUnquote
<1> SUFFICES ASSUME quoted # Nil, unquote(quoted) # Nil,
                    quoted[1] # "space", quoted[Len(quoted)] # "space"
             PROVE  strip_quotes(quoted) = unquote(quoted)
  BY DEF StripAgreesWithUnquote
<1>1. PICK t \in Seq(Char) : t = quoted BY HeaderAssumption DEF QuotedOK
<1> DEFINE L == Len(t)
<1>2. L \in Nat OBVIOUS
<1>3. PICK i \in 1..L : \E j \in (i + 1)..L : Enclosed(t, i, j) BY <1>1, UnquoteIs
<1>4. PICK j \in (i + 1)..L : Enclosed(t, i, j) BY <1>3
<1>5. /\ t[i] = "quote" /\ t[j] = "quote"
      /\ \A p \in 1..L : p < i \/ p > j => t[p] = "space"
  BY <1>4 DEF Enclosed
<1>6. i = 1
  <2>1. 1 \in 1..L /\ i \in Nat /\ i >= 1 BY <1>2
  <2> QED BY <1>1, <1>5, <2>1
<1>7. j = L
  <2>1. L \in 1..L /\ j \in Nat /\ j <= L BY <1>2
  <2> QED BY <1>1, <1>5, <2>1
<1>8. unquote(t) = SubSeq(t, 2, L - 1)
  <2>1. unquote(t) = SubSeq(t, i + 1, j - 1) BY <1>3, <1>4, UnquoteIs
  <2> QED BY <1>6, <1>7, <2>1
<1>9. L >= 2 BY <1>2, <1>6, <1>7
<1>10. strip_quotes(t) = SubSeq(t, 2, L - 1) BY <1>5, <1>6, <1>7, <1>9 DEF strip_quotes
<1> QED BY <1>1, <1>8, <1>10

-----------------------------------------------------------------------------
(* The whole request.                                                       *)

MessagesInv == ScanOK /\ LogOK /\ ShownOK /\ InstOK /\ QuotedOK

\* A parser that has read nothing yet.
LEMMA IdleScanOK ==
  ASSUME scan = [NewScan EXCEPT !.pc = "idle"]
  PROVE  ScanOK
<1>1. /\ DOMAIN scan = ScanFields /\ scan.pc = "idle" /\ scan.rc = Nil
      /\ scan.entries = <<>> /\ scan.capacity = 0
  BY DEF NewScan, ScanFields
<1>2. IsSequence(scan.entries) /\ Len(scan.entries) = 0 /\ DOMAIN scan.entries = {}
  BY <1>1, EmptySequence
<1> QED BY <1>1, <1>2 DEF ScanOK, HeaderTypeOK

\* Nothing has happened: no header, no event, no call.
LEMMA MessagesInit == Init => MessagesInv
<1> SUFFICES ASSUME Init PROVE MessagesInv
  OBVIOUS
<1>1. HeaderInit /\ LogInit /\ InstInit BY DEF Init
<1>2. ScanOK BY <1>1, IdleScanOK DEF HeaderInit
<1>3. LogOK
  <2>1. /\ event_log = [i \in 0..(MaxEvents - 1) |-> Nil] /\ event_count = 0 /\ emitted = <<>>
    BY <1>1 DEF LogInit
  <2>2. IsSequence(emitted) /\ Len(emitted) = 0 /\ DOMAIN emitted = {}
    BY <2>1, EmptySequence
  <2>3. MaxEvents \in Nat BY EventLogAssumption
  <2> QED BY <2>1, <2>2, <2>3 DEF LogOK
<1>4. ShownOK BY <1>1 DEF LogInit, ShownOK
<1>5. Fresh BY <1>1, Zenon DEF InstInit, Fresh
<1>6. InstOK BY <1>5, FreshOK
<1>8. QuotedOK BY <1>1 DEF HeaderInit, QuotedOK
<1> QED BY <1>2, <1>3, <1>4, <1>6, <1>8 DEF MessagesInv

\* A log that did not change.
LEMMA SameLog ==
  ASSUME LogOK, UNCHANGED logVars
  PROVE  LogOK' /\ View' = View /\ shown' = shown
BY DEF LogOK, Held, View, logVars

\* An instruction that did not change.
LEMMA SameInstruction ==
  ASSUME InstOK, UNCHANGED instVars
  PROVE  InstOK'
<1>1. inst' = inst /\ calls' = calls BY DEF instVars
<1> QED BY <1>1, SameInst DEF InstOK

\* A parser that did not change.
LEMMA SameScan ==
  ASSUME ScanOK, scan' = scan
  PROVE  ScanOK'
BY DEF ScanOK, HeaderTypeOK

\* Every step keeps the invariant.
LEMMA MessagesStep == MessagesInv /\ [Next]_vars => MessagesInv'
<1> SUFFICES ASSUME ScanOK, LogOK, ShownOK, InstOK, QuotedOK, [Next]_vars
             PROVE  MessagesInv'
  BY DEF MessagesInv
<1>q. QuotedOK'
  <2>1. quoted' = quoted \/ quoted' \in QuotedValues
    BY DEF Next, Receive, ReceiveRequest, HandleSessionSkipped, Parse, ParseStep, ReadHeader,
       ParseItem, ParseParam, ParseItemEnd, ReportEntry, ReportEnd, ShowEvents, Build, vars,
       headerVars
  <2> QED BY <2>1 DEF QuotedOK
<1>1. CASE Receive
  <2>1. scan.pc = "idle" /\ scan' = NewScan /\ UNCHANGED logVars /\ UNCHANGED instVars
    BY <1>1 DEF Receive, ReceiveRequest
  <2>2. ScanOK'
    <3>1. /\ DOMAIN scan' = ScanFields /\ scan'.pc = "request" /\ scan'.rc = Nil
          /\ scan'.entries = <<>> /\ scan'.capacity = 0
      BY <2>1 DEF NewScan, ScanFields
    <3>2. IsSequence(scan'.entries) /\ Len(scan'.entries) = 0 /\ DOMAIN scan'.entries = {}
      BY <3>1, EmptySequence
    <3> QED BY <3>1, <3>2 DEF ScanOK, HeaderTypeOK
  <2>3. LogOK' /\ shown' = shown BY <2>1, SameLog
  <2>4. shown = Nil BY <2>1 DEF ShownOK
  <2>5. ShownOK' BY <2>3, <2>4 DEF ShownOK
  <2>6. InstOK' BY <2>1, SameInstruction
  <2> QED BY <1>q, <2>2, <2>3, <2>5, <2>6 DEF MessagesInv
<1>2. CASE Parse
  <2>1. ParseStep /\ UNCHANGED logVars /\ UNCHANGED instVars BY <1>2 DEF Parse
  <2>2. ScanOK' /\ scan.pc \in {"request", "item", "param"} BY <2>1, ParseOK
  <2>3. LogOK' /\ shown' = shown BY <2>1, SameLog
  <2>4. shown = Nil BY <2>2 DEF ShownOK
  <2>5. ShownOK' BY <2>3, <2>4 DEF ShownOK
  <2>6. InstOK' BY <2>1, SameInstruction
  <2> QED BY <1>q, <2>2, <2>3, <2>5, <2>6 DEF MessagesInv
<1>3. CASE ReportEntry
  <2> DEFINE e == scan.entries[scan.reported + 1]
  <2>1. /\ scan.pc = "report" /\ add_event("SESSION_SKIPPED", e.session_id, e.reason)
        /\ scan' = [scan EXCEPT !.reported = scan.reported + 1] /\ UNCHANGED instVars
    BY <1>3 DEF ReportEntry
  <2> HIDE DEF e
  <2>2. /\ DOMAIN scan' = ScanFields /\ scan'.pc = scan.pc /\ scan'.rc = scan.rc
        /\ scan'.entries = scan.entries /\ scan'.capacity = scan.capacity
    BY <2>1 DEF ScanOK, ScanFields
  <2>3. ScanOK' BY <2>2, MovedOK DEF ScanOK, HeaderTypeOK
  <2>4. LogOK' /\ shown' = shown BY <2>1, AddEventOK
  <2>5. shown = Nil BY <2>1 DEF ShownOK
  <2>6. ShownOK' BY <2>4, <2>5 DEF ShownOK
  <2>7. InstOK' BY <2>1, SameInstruction
  <2> QED BY <1>q, <2>3, <2>4, <2>6, <2>7 DEF MessagesInv
<1>4. CASE ReportEnd
  <2>1. /\ scan.pc = "report" /\ scan' = [scan EXCEPT !.pc = "done"]
        /\ UNCHANGED logVars /\ UNCHANGED instVars
    BY <1>4 DEF ReportEnd
  <2>2. /\ DOMAIN scan' = ScanFields /\ scan'.pc = "done" /\ scan'.rc = scan.rc
        /\ scan'.entries = scan.entries /\ scan'.capacity = scan.capacity
    BY <2>1 DEF ScanOK, ScanFields
  <2>3. ScanOK' BY <2>2, MovedOK DEF ScanOK, HeaderTypeOK
  <2>4. LogOK' /\ shown' = shown BY <2>1, SameLog
  <2>5. shown = Nil BY <2>1 DEF ShownOK
  <2>6. ShownOK' BY <2>4, <2>5 DEF ShownOK
  <2>7. InstOK' BY <2>1, SameInstruction
  <2> QED BY <1>q, <2>3, <2>4, <2>6, <2>7 DEF MessagesInv
<1>5. CASE ShowEvents
  <2>1. scan.pc = "done" /\ api_events /\ scan' = scan /\ UNCHANGED instVars
    BY <1>5 DEF ShowEvents, headerVars
  <2>2. /\ event_log' = event_log /\ event_count' = event_count /\ emitted' = emitted
        /\ shown' = View \/ shown' = Nil
    BY <2>1 DEF api_events, View
  <2>3. LogOK' /\ View' = View BY <2>2 DEF LogOK, Held, View
  <2>4. ShownOK' BY <2>1, <2>2, <2>3 DEF ShownOK
  <2>5. ScanOK' BY <2>1, SameScan
  <2>6. InstOK' BY <2>1, SameInstruction
  <2> QED BY <1>q, <2>3, <2>4, <2>5, <2>6 DEF MessagesInv
<1>6. CASE Build
  <2>1. BuildStep /\ scan' = scan /\ UNCHANGED logVars BY <1>6 DEF Build, headerVars
  <2>2. InstOK' BY <2>1, BuildOK
  <2>3. LogOK' /\ View' = View /\ shown' = shown BY <2>1, SameLog
  <2>4. ShownOK' BY <2>1, <2>3 DEF ShownOK
  <2>5. ScanOK' BY <2>1, SameScan
  <2> QED BY <1>q, <2>2, <2>3, <2>4, <2>5 DEF MessagesInv
<1>7. CASE UNCHANGED vars
  <2>1. scan' = scan /\ UNCHANGED logVars /\ UNCHANGED instVars BY <1>7 DEF vars, headerVars
  <2>2. InstOK' BY <2>1, SameInstruction
  <2>3. LogOK' /\ View' = View /\ shown' = shown BY <2>1, SameLog
  <2>4. ShownOK' BY <2>1, <2>3 DEF ShownOK
  <2>5. ScanOK' BY <2>1, SameScan
  <2> QED BY <1>q, <2>2, <2>3, <2>4, <2>5 DEF MessagesInv
<1> QED BY <1>1, <1>2, <1>3, <1>4, <1>5, <1>6, <1>7 DEF Next, HandleSessionSkipped

\* The invariant holds of every request.
LEMMA MessagesInvariant == Spec => []MessagesInv
BY MessagesInit, MessagesStep, PTL DEF Spec

\* parse_session_skipped counts no entry past its array and keeps none with a
\* reason outside the specification or without an identifier, and no array of
\* an instruction counts a slot that was not written, whichever allocations
\* fail and however long the header and the history of calls are.
THEOREM MessagesTypeCorrect == Spec => []MessagesTypeOK
<1>1. MessagesInv => MessagesTypeOK
  BY InstTypeOK DEF MessagesInv, ScanOK, MessagesTypeOK
<1> QED BY <1>1, MessagesInvariant, PTL

\* GET /api/events shows the newest event, only events that happened and none
\* of them twice, for an event log of any size that wraps any number of times.
THEOREM LogShowsNewest == Spec => []LogKeepsNewest
<1>1. MessagesInv => LogKeepsNewest BY LogShows DEF MessagesInv
<1> QED BY <1>1, MessagesInvariant, PTL

\* instruction_to_json says what the calls that returned 0 asked for, for every
\* sequence of calls and every failure of an allocation in them.
THEOREM JsonSaysWhatWasCalled == Spec => []JsonMirrorsCalls
<1>1. MessagesInv => JsonMirrorsCalls BY JsonShows DEF MessagesInv
<1> QED BY <1>1, MessagesInvariant, PTL

\* unquote returns exactly what two quotes enclose, escapes taken into account,
\* and undoes the serialisers, for header values of any length.
THEOREM UnquoteCorrect == Spec => []UnquoteExact
<1>1. MessagesInv => UnquoteExact BY QuotedExact DEF MessagesInv
<1> QED BY <1>1, MessagesInvariant, PTL

\* The wrapper's strip_quotes reads what the library's unquote reads, for every
\* value unquote accepts that has no white space around it.
THEOREM StripCorrect == Spec => []StripAgreesWithUnquote
<1>1. MessagesInv => StripAgreesWithUnquote BY StripAgrees DEF MessagesInv
<1> QED BY <1>1, MessagesInvariant, PTL

-----------------------------------------------------------------------------
(* Texts, lexeme by lexeme.                                                 *)

\* A text has a length and lexemes.
LEMMA TextFacts ==
  ASSUME NEW v, IsText(v)
  PROVE  /\ Len(v) \in Nat /\ DOMAIN v = 1..Len(v)
         /\ \A i \in 1..Len(v) : v[i].k \in Kinds /\ (v[i].k = "str" => v[i].v # Nil)
<1>1. v \in Seq(Range(v)) BY DEF IsText
<1>2. Len(v) \in Nat /\ DOMAIN v = 1..Len(v) BY <1>1
<1> QED BY <1>2 DEF IsText

\* b is the last position before i that holds no white space, or 0.
LastBefore(v, i, b) ==
  /\ b \in 0..(i - 1)
  /\ b # 0 => v[b].k # "space"
  /\ \A j \in 1..(i - 1) : b < j => v[j].k = "space"

\* Before is that position, and no other is.
LEMMA BeforeIs ==
  ASSUME NEW v, NEW i \in Nat, i >= 1
  PROVE  LastBefore(v, i, Before(v, i)) /\ \A b : LastBefore(v, i, b) => b = Before(v, i)
<1> DEFINE S == {p \in 1..(i - 1) : v[p].k # "space"} \cup {0}
           m == Before(v, i)
<1>1. S \subseteq 0..(i - 1) /\ S # {} /\ 0 \in S OBVIOUS
<1>2. m \in S /\ \A y \in S : y <= m
  <2>1. m = Max(S) BY DEF Before
  <2>2. 0 \in Int /\ i - 1 \in Int OBVIOUS
  <2> HIDE DEF S, m
  <2> QED BY <1>1, <2>1, <2>2, Extremes
<1> HIDE DEF m
<1>3. m \in 0..(i - 1) /\ (m # 0 => v[m].k # "space") BY <1>2
<1>4. ASSUME NEW j \in 1..(i - 1), m < j PROVE v[j].k = "space"
  <2>1. ~(j <= m) BY <1>3, <1>4
  <2> QED BY <1>2, <2>1
<1>5. LastBefore(v, i, m) BY <1>3, <1>4 DEF LastBefore
<1>6. ASSUME NEW b, LastBefore(v, i, b) PROVE b = m
  <2>1. b \in 0..(i - 1) /\ m \in 0..(i - 1) BY <1>3, <1>6 DEF LastBefore
  <2>2. ~(b < m)
    <3> SUFFICES ASSUME b < m PROVE FALSE
      OBVIOUS
    <3>1. m \in 1..(i - 1) /\ m # 0 BY <2>1
    <3> QED BY <1>3, <1>6, <3>1 DEF LastBefore
  <2>3. ~(m < b)
    <3> SUFFICES ASSUME m < b PROVE FALSE
      OBVIOUS
    <3>1. b \in 1..(i - 1) /\ b # 0 BY <2>1
    <3> QED BY <1>4, <1>6, <3>1 DEF LastBefore
  <2> QED BY <2>1, <2>2, <2>3
<1> QED BY <1>5, <1>6 DEF m

\* Only white space from p up to i.
Blank(v, p, i) == \A j \in p..(i - 1) : v[j].k = "space"

\* The last lexeme before i, if only white space follows it.
LEMMA BeforeAt ==
  ASSUME NEW v, NEW p \in Nat, NEW i \in Nat, 1 <= p, p < i, v[p].k # "space",
         Blank(v, p + 1, i)
  PROVE  Before(v, i) = p /\ KindBefore(v, i) = v[p].k
<1>1. LastBefore(v, i, p) BY DEF LastBefore, Blank
<1>2. Before(v, i) = p BY <1>1, BeforeIs
<1> QED BY <1>2 DEF KindBefore

\* White space does not change what comes before.
LEMMA BeforeBlank ==
  ASSUME NEW v, NEW p \in Nat, NEW i \in Nat, 1 <= p, p <= i, Blank(v, p, i)
  PROVE  Before(v, i) = Before(v, p) /\ KindBefore(v, i) = KindBefore(v, p)
<1> DEFINE b == Before(v, p)
<1>1. LastBefore(v, p, b) BY BeforeIs
<1> HIDE DEF b
<1>2. LastBefore(v, i, b)
  <2>1. b \in 0..(i - 1) /\ (b # 0 => v[b].k # "space") BY <1>1 DEF LastBefore
  <2>2. ASSUME NEW j \in 1..(i - 1), b < j PROVE v[j].k = "space"
    <3>1. CASE j < p BY <1>1, <2>2, <3>1 DEF LastBefore
    <3>2. CASE ~(j < p) BY <2>2, <3>2 DEF Blank
    <3> QED BY <3>1, <3>2
  <2> QED BY <2>1, <2>2 DEF LastBefore
<1>3. Before(v, i) = b BY <1>2, BeforeIs
<1> QED BY <1>3 DEF KindBefore, b

\* Nothing comes before the first position.
LEMMA BeforeFirst ==
  ASSUME NEW v
  PROVE  Before(v, 1) = 0 /\ KindBefore(v, 1) = "start"
<1>1. LastBefore(v, 1, 0) BY DEF LastBefore
<1>2. Before(v, 1) = 0 BY <1>1, BeforeIs
<1> QED BY <1>2 DEF KindBefore

\* Skip stops at the first lexeme of another kind.
LEMMA SkipIs ==
  ASSUME IsText(skipped), NEW i \in 1..End, NEW kinds
  PROVE  /\ Skip(i, kinds) \in i..End
         /\ \A m \in i..(Skip(i, kinds) - 1) : skipped[m].k \in kinds
         /\ Skip(i, kinds) < End => skipped[Skip(i, kinds)].k \notin kinds
<1> DEFINE L == Len(skipped)
           S == {p \in i..L : skipped[p].k \notin kinds} \cup {L + 1}
           a == Skip(i, kinds)
<1>1. L \in Nat /\ End = L + 1 /\ i \in Nat /\ 1 <= i /\ i <= L + 1 BY TextFacts DEF End
<1>2. S \subseteq i..(L + 1) /\ S # {} BY <1>1
<1>3. a \in S /\ \A y \in S : a <= y
  <2>1. a = Min(S) BY DEF Skip, End
  <2>2. i \in Int /\ L + 1 \in Int BY <1>1
  <2> HIDE DEF S, a, L
  <2> QED BY <1>2, <2>1, <2>2, Extremes
<1> HIDE DEF a
<1>4. a \in i..(L + 1) BY <1>2, <1>3
<1>5. ASSUME NEW m \in i..(a - 1) PROVE skipped[m].k \in kinds
  <2>1. m \in i..L /\ ~(a <= m) BY <1>1, <1>4
  <2> QED BY <1>3, <2>1
<1>6. a < L + 1 => skipped[a].k \notin kinds BY <1>1, <1>3
<1> QED BY <1>1, <1>4, <1>5, <1>6 DEF a

\* What Accepted asks of the lexeme at position i.
Placed(v, i) ==
  /\ v[i].k \notin {"open", "bad"}
  /\ IsReason(v, i) \/ v[i].k = "comma" => ItemComplete(v, i)
  /\ v[i].k = "semi" => /\ i > 1
                        /\ v[i - 1].k \in {"tok", "str"}
                        /\ v[i - 1].k = "tok" => IsReason(v, i - 1)
  /\ v[i].k = "equal" => \/ KindBefore(v, i) = "semi"
                         \/ Before(v, i) # 0 /\ IsKey(v, Before(v, i))
  /\ v[i].k = "str" => KindBefore(v, i) = "equal"

\* Accepted is Placed at every position, and a complete item at the end.
LEMMA AcceptedIs ==
  ASSUME NEW v
  PROVE  Accepted(v) <=> ItemComplete(v, Len(v) + 1) /\ \A i \in DOMAIN v : Placed(v, i)
BY DEF Accepted, Placed

\* The text before position p is as Accepted asks.
ReadTo(v, p) == p \in 1..(Len(v) + 1) /\ \A i \in 1..(p - 1) : Placed(v, i)

\* Between two items, or before the first.
AtItem(v, p) ==
  /\ ReadTo(v, p) /\ ItemComplete(v, p)
  /\ p = 1 \/ p > Len(v) \/ v[p].k # "semi"

\* After a part of the item that starts at s.
InItem(v, p, s) ==
  /\ ReadTo(v, p) /\ s \in 1..(p - 1) /\ IsReason(v, s)
  /\ \A r \in (s + 1)..(p - 1) : ~IsReason(v, r)
  /\ v[p - 1].k \in {"tok", "str"} /\ (v[p - 1].k = "tok" => IsReason(v, p - 1))

\* Separators.
Separates(v, p, q) == \A j \in p..(q - 1) : v[j].k \in {"space", "comma"}

\* Separators leave an item complete.
LEMMA SeparatorsKeep ==
  ASSUME NEW v, NEW p \in Nat, NEW q \in Nat, 1 <= p, p <= q, Separates(v, p, q),
         ItemComplete(v, p)
  PROVE  ItemComplete(v, q)
<1> DEFINE b == Before(v, q)
<1>1. LastBefore(v, q, b) BY BeforeIs
<1> HIDE DEF b
<1>2. CASE b < p
  <2>1. LastBefore(v, p, b) BY <1>1, <1>2 DEF LastBefore
  <2>2. Before(v, p) = b BY <2>1, BeforeIs
  <2> QED BY <2>2 DEF ItemComplete, KindBefore, b
<1>3. CASE ~(b < p)
  <2>1. b \in p..(q - 1) /\ b # 0 BY <1>1, <1>3 DEF LastBefore
  <2>2. v[b].k = "comma" BY <1>1, <2>1 DEF LastBefore, Separates
  <2>3. KindBefore(v, q) = "comma" BY <2>1, <2>2 DEF KindBefore, b
  <2> QED BY <2>3 DEF ItemComplete
<1> QED BY <1>2, <1>3

\* Between items the text can be read past separators.
LEMMA SeparatorsRead ==
  ASSUME NEW v, IsText(v), NEW p, AtItem(v, p), NEW q \in p..(Len(v) + 1), Separates(v, p, q)
  PROVE  ReadTo(v, q) /\ ItemComplete(v, q) /\ \A r \in p..(q - 1) : ~IsReason(v, r)
<1>1. Len(v) \in Nat /\ p \in Nat /\ 1 <= p /\ q \in Nat /\ p <= q /\ q <= Len(v) + 1
  BY TextFacts DEF AtItem, ReadTo
<1>2. ASSUME NEW j \in p..q PROVE ItemComplete(v, j)
  <2>1. Separates(v, p, j) BY <1>1 DEF Separates
  <2> QED BY <1>1, <2>1, SeparatorsKeep DEF AtItem
<1>3. ASSUME NEW j \in p..(q - 1) PROVE Placed(v, j) /\ ~IsReason(v, j)
  <2>1. v[j].k \in {"space", "comma"} BY DEF Separates
  <2>2. ItemComplete(v, j) BY <1>1, <1>2
  <2> QED BY <2>1, <2>2 DEF Placed, IsReason
<1>4. ASSUME NEW i \in 1..(q - 1) PROVE Placed(v, i)
  <2>1. CASE i < p BY <1>1, <2>1 DEF AtItem, ReadTo
  <2>2. CASE ~(i < p) BY <1>1, <1>3, <2>2
  <2> QED BY <2>1, <2>2
<1> QED BY <1>1, <1>2, <1>3, <1>4 DEF ReadTo

\* Where the parser looks for an item, Accepted allows a token or the end.
LEMMA ItemFault ==
  ASSUME NEW v, IsText(v), NEW p, AtItem(v, p), NEW q \in p..Len(v), Separates(v, p, q),
         v[q].k \notin {"space", "comma", "tok"}
  PROVE  ~Accepted(v)
<1>1. Len(v) \in Nat /\ DOMAIN v = 1..Len(v) /\ p \in Nat /\ 1 <= p BY TextFacts DEF AtItem, ReadTo
<1>2. q \in 1..Len(v) /\ q \in p..(Len(v) + 1) /\ q \in Nat /\ p <= q BY <1>1
<1>3. v[q].k \in {"semi", "equal", "open", "bad", "str"} BY <1>2, TextFacts DEF Kinds
<1>4. ItemComplete(v, q) BY <1>2, SeparatorsRead
<1>5. ~Placed(v, q)
  <2>1. CASE v[q].k = "semi"
    <3>1. CASE q = 1 BY <2>1, <3>1 DEF Placed
    <3>2. CASE q # 1
      <4>1. p # q BY <2>1, <3>2, <1>2 DEF AtItem
      <4>2. q - 1 \in p..(q - 1) BY <1>1, <1>2, <4>1
      <4>3. v[q - 1].k \in {"space", "comma"} BY <4>2 DEF Separates
      <4> QED BY <2>1, <4>3 DEF Placed
    <3> QED BY <3>1, <3>2
  <2>2. CASE v[q].k = "equal"
    <3>1. KindBefore(v, q) # "semi" BY <1>4 DEF ItemComplete
    <3>2. SUFFICES ASSUME Before(v, q) # 0, IsKey(v, Before(v, q)) PROVE FALSE
      BY <2>2, <3>1 DEF Placed
    <3>3. KindBefore(v, q) = "tok" BY <3>2 DEF KindBefore, IsKey
    <3>4. IsReason(v, Before(v, q)) BY <1>4, <3>3 DEF ItemComplete
    <3> QED BY <3>2, <3>4 DEF IsKey, IsReason
  <2>3. CASE v[q].k = "str" BY <1>4, <2>3 DEF ItemComplete, Placed
  <2>4. CASE v[q].k \in {"open", "bad"} BY <2>4 DEF Placed
  <2> QED BY <1>3, <2>1, <2>2, <2>3, <2>4
<1> QED BY <1>1, <1>2, <1>5, AcceptedIs

\* A token between items starts one.
LEMMA ItemStarts ==
  ASSUME NEW v, IsText(v), NEW p, AtItem(v, p), NEW q \in p..Len(v), Separates(v, p, q),
         v[q].k = "tok"
  PROVE  InItem(v, q + 1, q) /\ \A r \in p..(q - 1) : ~IsReason(v, r)
<1>1. Len(v) \in Nat /\ DOMAIN v = 1..Len(v) /\ p \in Nat /\ 1 <= p BY TextFacts DEF AtItem, ReadTo
<1>2. q \in 1..Len(v) /\ q \in p..(Len(v) + 1) /\ q \in Nat /\ p <= q BY <1>1
<1>3. ReadTo(v, q) /\ ItemComplete(v, q) /\ \A r \in p..(q - 1) : ~IsReason(v, r)
  BY <1>2, SeparatorsRead
<1>4. IsReason(v, q) BY <1>3 DEF ItemComplete, IsReason
<1>5. Placed(v, q) BY <1>3, <1>4 DEF Placed
<1>6. ReadTo(v, q + 1) BY <1>1, <1>2, <1>3, <1>5 DEF ReadTo
<1>7. (q + 1) - 1 = q /\ q \in 1..((q + 1) - 1) /\ (q + 1)..((q + 1) - 1) = {} BY <1>2
<1> QED BY <1>3, <1>4, <1>6, <1>7 DEF InItem

\* Separators up to the end make the text well-formed.
LEMMA ItemsEnd ==
  ASSUME NEW v, IsText(v), NEW p, AtItem(v, p), Separates(v, p, Len(v) + 1)
  PROVE  Accepted(v)
<1>1. Len(v) \in Nat /\ DOMAIN v = 1..Len(v) /\ p \in Nat /\ 1 <= p /\ p <= Len(v) + 1
  BY TextFacts DEF AtItem, ReadTo
<1> DEFINE q == Len(v) + 1
<1>2. q \in p..(Len(v) + 1) /\ Separates(v, p, q) /\ q - 1 = Len(v) BY <1>1
<1>3. ReadTo(v, q) /\ ItemComplete(v, q) BY <1>2, SeparatorsRead
<1> QED BY <1>1, <1>2, <1>3, AcceptedIs DEF ReadTo

\* An item without further parameters is complete.
LEMMA ItemEnds ==
  ASSUME NEW v, IsText(v), NEW p, NEW s, InItem(v, p, s), p > Len(v) \/ v[p].k # "semi"
  PROVE  AtItem(v, p)
<1>1. Len(v) \in Nat /\ p \in Nat /\ 1 < p /\ p <= Len(v) + 1 /\ p - 1 \in Nat /\ 1 <= p - 1
  BY TextFacts DEF InItem, ReadTo
<1>2. v[p - 1].k # "space" /\ Blank(v, (p - 1) + 1, p) BY <1>1 DEF InItem, Blank
<1>3. Before(v, p) = p - 1 /\ KindBefore(v, p) = v[p - 1].k BY <1>1, <1>2, BeforeAt
<1>4. ItemComplete(v, p) BY <1>3 DEF ItemComplete, InItem
<1> QED BY <1>4 DEF AtItem, InItem

\* A parameter from the semicolon at p on: its name, if it has one, is at key,
\* and eq is the first position after it that is not white space.
ParamAt(v, p, key, eq) ==
  /\ key \in (p + 1)..(Len(v) + 1) /\ Blank(v, p + 1, key)
  /\ key <= Len(v) => v[key].k # "space"
  /\ eq \in key..(Len(v) + 1) /\ (eq <= Len(v) => v[eq].k # "space")
  /\ IF key <= Len(v) /\ v[key].k = "tok" THEN key < eq /\ Blank(v, key + 1, eq)
     ELSE eq = key

\* Up to the equals sign a parameter is as Accepted asks, and incomplete.
ParamOpen(v, p, key, eq) ==
  /\ ReadTo(v, eq)
  /\ \A r \in p..(eq - 1) : ~IsReason(v, r) /\ v[r].k # "str"
  /\ ~ItemComplete(v, eq) /\ KindBefore(v, eq) \in {"semi", "tok"}
  /\ v[eq - 1].k \notin {"tok", "str"} \/ (v[eq - 1].k = "tok" /\ ~IsReason(v, eq - 1))
  /\ KindBefore(v, eq) = "semi" \/ (Before(v, eq) # 0 /\ IsKey(v, Before(v, eq)))
  /\ IF key <= Len(v) /\ v[key].k = "tok" THEN Before(v, eq) = key
     ELSE v[Before(v, eq)].k = "semi" /\ (eq <= Len(v) => v[eq].k # "tok")

\* The name of a parameter is read as Accepted asks.
LEMMA ParamName ==
  ASSUME NEW v, IsText(v), NEW p, NEW s, InItem(v, p, s), p <= Len(v), v[p].k = "semi",
         NEW key, NEW eq, ParamAt(v, p, key, eq)
  PROVE  ParamOpen(v, p, key, eq)
<1>1. /\ Len(v) \in Nat /\ p \in Nat /\ 1 < p /\ p - 1 \in Nat /\ s \in 1..(p - 1)
      /\ key \in Nat /\ p < key /\ key <= Len(v) + 1 /\ eq \in Nat /\ key <= eq /\ eq <= Len(v) + 1
  BY TextFacts DEF InItem, ReadTo, ParamAt
<1>2. Placed(v, p) /\ ~IsReason(v, p) BY <1>1 DEF InItem, Placed, IsReason
<1>3. Before(v, key) = p /\ KindBefore(v, key) = "semi" BY <1>1, BeforeAt DEF ParamAt
<1>4. ASSUME NEW j \in Nat, v[j].k = "space" PROVE Placed(v, j) /\ ~IsReason(v, j)
  BY <1>4 DEF Placed, IsReason
<1>5. CASE key <= Len(v) /\ v[key].k = "tok"
  <2>1. key < eq /\ Blank(v, key + 1, eq) BY <1>5 DEF ParamAt
  <2>2. Before(v, eq) = key /\ KindBefore(v, eq) = "tok" BY <1>1, <1>5, <2>1, BeforeAt
  <2>3. IsKey(v, key) /\ ~IsReason(v, key) BY <1>3, <1>5 DEF IsKey, IsReason
  <2>4. Placed(v, key) BY <1>5, <2>3 DEF Placed
  <2>5. ASSUME NEW r \in p..(eq - 1) PROVE Placed(v, r) /\ ~IsReason(v, r) /\ v[r].k # "str"
    <3>1. CASE r = p BY <1>2, <3>1
    <3>2. CASE r = key BY <1>5, <2>3, <2>4, <3>2
    <3>3. CASE r # p /\ r # key
      <4>1. v[r].k = "space" BY <1>1, <2>1, <2>5, <3>3 DEF ParamAt, Blank
      <4> QED BY <1>1, <1>4, <4>1
    <3> QED BY <3>1, <3>2, <3>3
  <2>6. ReadTo(v, eq)
    <3>1. ASSUME NEW i \in 1..(eq - 1) PROVE Placed(v, i)
      <4>1. CASE i < p BY <1>1, <4>1 DEF InItem, ReadTo
      <4>2. CASE ~(i < p) BY <1>1, <2>5, <4>2
      <4> QED BY <4>1, <4>2
    <3> QED BY <1>1, <3>1 DEF ReadTo
  <2>7. ~ItemComplete(v, eq) BY <2>2, <2>3 DEF ItemComplete
  <2>8. v[eq - 1].k = "space" \/ eq - 1 = key BY <1>1, <2>1 DEF Blank
  <2>9. v[eq - 1].k \notin {"tok", "str"} \/ (v[eq - 1].k = "tok" /\ ~IsReason(v, eq - 1))
    BY <1>5, <2>3, <2>8
  <2>10. key # 0 BY <1>1
  <2> QED BY <1>5, <2>2, <2>3, <2>5, <2>6, <2>7, <2>9, <2>10 DEF ParamOpen
<1>6. CASE ~(key <= Len(v) /\ v[key].k = "tok")
  <2>1. eq = key BY <1>6 DEF ParamAt
  <2>5. ASSUME NEW r \in p..(eq - 1) PROVE Placed(v, r) /\ ~IsReason(v, r) /\ v[r].k # "str"
    <3>1. CASE r = p BY <1>2, <3>1
    <3>3. CASE r # p
      <4>1. v[r].k = "space" BY <1>1, <2>1, <2>5, <3>3 DEF ParamAt, Blank
      <4> QED BY <1>1, <1>4, <4>1
    <3> QED BY <3>1, <3>3
  <2>6. ReadTo(v, eq)
    <3>1. ASSUME NEW i \in 1..(eq - 1) PROVE Placed(v, i)
      <4>1. CASE i < p BY <1>1, <4>1 DEF InItem, ReadTo
      <4>2. CASE ~(i < p) BY <1>1, <2>5, <4>2
      <4> QED BY <4>1, <4>2
    <3> QED BY <1>1, <3>1 DEF ReadTo
  <2>7. ~ItemComplete(v, eq) BY <1>3, <2>1 DEF ItemComplete
  <2>8. v[eq - 1].k = "space" \/ eq - 1 = p BY <1>1, <2>1 DEF Blank, ParamAt
  <2>9. v[eq - 1].k \notin {"tok", "str"} BY <2>8
  <2>10. eq <= Len(v) => v[eq].k # "tok" BY <1>6, <2>1
  <2> QED BY <1>3, <1>6, <2>1, <2>5, <2>6, <2>7, <2>9, <2>10 DEF ParamOpen
<1> QED BY <1>5, <1>6

\* A parameter without its equals sign is malformed.
LEMMA ParamNameFault ==
  ASSUME NEW v, IsText(v), NEW p, NEW s, InItem(v, p, s), p <= Len(v), v[p].k = "semi",
         NEW key, NEW eq, ParamAt(v, p, key, eq), eq > Len(v) \/ v[eq].k # "equal"
  PROVE  ~Accepted(v)
<1>1. ParamOpen(v, p, key, eq) BY ParamName
<1>2. Len(v) \in Nat /\ DOMAIN v = 1..Len(v) /\ eq \in Nat /\ 1 <= eq /\ eq <= Len(v) + 1
  BY <1>1, TextFacts DEF ParamOpen, ReadTo
<1>3. CASE eq > Len(v)
  <2>1. eq = Len(v) + 1 BY <1>2, <1>3
  <2> QED BY <1>1, <2>1, AcceptedIs DEF ParamOpen
<1>4. CASE eq <= Len(v)
  <2>1. v[eq].k \in Kinds /\ v[eq].k \notin {"equal", "space"} BY <1>2, <1>4, TextFacts DEF ParamAt
  <2>2. ~Placed(v, eq)
    <3>1. CASE v[eq].k = "comma" BY <1>1, <3>1 DEF ParamOpen, Placed
    <3>2. CASE v[eq].k = "semi" BY <1>1, <3>2 DEF ParamOpen, Placed
    <3>3. CASE v[eq].k = "tok"
      <4>1. key <= Len(v) /\ v[key].k = "tok" BY <1>1, <1>4, <3>3 DEF ParamOpen
      <4>2. Before(v, eq) = key /\ key # 0 BY <1>1, <4>1, TextFacts DEF ParamOpen, ParamAt, InItem, ReadTo
      <4>3. KindBefore(v, eq) = "tok" BY <4>1, <4>2 DEF KindBefore
      <4>4. IsReason(v, eq) BY <3>3, <4>3 DEF IsReason
      <4> QED BY <1>1, <4>4 DEF Placed, ParamOpen
    <3>4. CASE v[eq].k = "str" BY <1>1, <3>4 DEF ParamOpen, Placed
    <3>5. CASE v[eq].k \in {"open", "bad"} BY <3>5 DEF Placed
    <3> QED BY <2>1, <3>1, <3>2, <3>3, <3>4, <3>5 DEF Kinds
  <2> QED BY <1>2, <1>4, <2>2, AcceptedIs
<1> QED BY <1>2, <1>3, <1>4

\* val is the first position after the equals sign at eq that is not white space.
ValueAt(v, eq, val) ==
  /\ eq <= Len(v) /\ v[eq].k = "equal"
  /\ val \in (eq + 1)..(Len(v) + 1) /\ Blank(v, eq + 1, val)
  /\ val <= Len(v) => v[val].k # "space"

\* Up to its value a parameter is as Accepted asks.
LEMMA ParamEquals ==
  ASSUME NEW v, IsText(v), NEW p, NEW s, InItem(v, p, s), p <= Len(v), v[p].k = "semi",
         NEW key, NEW eq, ParamAt(v, p, key, eq), NEW val, ValueAt(v, eq, val)
  PROVE  /\ ReadTo(v, val) /\ Before(v, val) = eq /\ KindBefore(v, val) = "equal"
         /\ \A r \in p..(val - 1) : ~IsReason(v, r) /\ v[r].k # "str"
<1>1. ParamOpen(v, p, key, eq) BY ParamName
<1>2. /\ Len(v) \in Nat /\ eq \in Nat /\ 1 <= eq /\ eq <= Len(v) /\ val \in Nat /\ eq < val
      /\ val <= Len(v) + 1
  BY <1>1, TextFacts DEF ParamOpen, ReadTo, ValueAt
<1>3. Before(v, val) = eq /\ KindBefore(v, val) = "equal" BY <1>2, BeforeAt DEF ValueAt
<1>4. Placed(v, eq) /\ ~IsReason(v, eq) /\ v[eq].k # "str"
  BY <1>1 DEF ParamOpen, ValueAt, Placed, IsReason
<1>5. ASSUME NEW r \in eq..(val - 1) PROVE Placed(v, r) /\ ~IsReason(v, r) /\ v[r].k # "str"
  <2>1. CASE r = eq BY <1>4, <2>1
  <2>2. CASE r # eq
    <3>1. v[r].k = "space" BY <1>2, <1>5, <2>2 DEF ValueAt, Blank
    <3> QED BY <3>1 DEF Placed, IsReason
  <2> QED BY <2>1, <2>2
<1>6. ASSUME NEW i \in 1..(val - 1) PROVE Placed(v, i)
  <2>1. CASE i < eq BY <1>1, <1>2, <2>1 DEF ParamOpen, ReadTo
  <2>2. CASE ~(i < eq) BY <1>2, <1>5, <2>2
  <2> QED BY <2>1, <2>2
<1>7. ASSUME NEW r \in p..(val - 1) PROVE ~IsReason(v, r) /\ v[r].k # "str"
  <2>0. p \in Nat BY DEF InItem, ReadTo
  <2>1. CASE r < eq BY <1>1, <1>2, <2>0, <2>1 DEF ParamOpen
  <2>2. CASE ~(r < eq) BY <1>2, <1>5, <2>0, <2>2
  <2> QED BY <2>1, <2>2
<1> QED BY <1>2, <1>3, <1>6, <1>7 DEF ReadTo

\* A parameter without a closed string as its value is malformed.
LEMMA ParamValueFault ==
  ASSUME NEW v, IsText(v), NEW p, NEW s, InItem(v, p, s), p <= Len(v), v[p].k = "semi",
         NEW key, NEW eq, ParamAt(v, p, key, eq), NEW val, ValueAt(v, eq, val),
         val > Len(v) \/ v[val].k # "str"
  PROVE  ~Accepted(v)
<1>1. Before(v, val) = eq /\ KindBefore(v, val) = "equal" BY ParamEquals
<1>2. ~ItemComplete(v, val) BY <1>1 DEF ItemComplete
<1>3. ParamOpen(v, p, key, eq) BY ParamName
<1>4. /\ Len(v) \in Nat /\ DOMAIN v = 1..Len(v) /\ eq \in Nat /\ 1 <= eq /\ val \in Nat /\ eq < val
      /\ val <= Len(v) + 1
  BY <1>3, TextFacts DEF ParamOpen, ReadTo, ValueAt
<1>5. CASE val > Len(v)
  <2>1. val = Len(v) + 1 BY <1>4, <1>5
  <2> QED BY <1>2, <2>1, AcceptedIs
<1>6. CASE val <= Len(v)
  <2>1. v[val].k \in Kinds /\ v[val].k \notin {"str", "space"} BY <1>4, <1>6, TextFacts DEF ValueAt
  <2>2. ~Placed(v, val)
    <3>1. CASE v[val].k = "comma" BY <1>2, <3>1 DEF Placed
    <3>2. CASE v[val].k = "semi"
      <4>1. val - 1 = eq \/ v[val - 1].k = "space" BY <1>4 DEF ValueAt, Blank
      <4> QED BY <3>2, <4>1 DEF Placed, ValueAt
    <3>3. CASE v[val].k = "tok"
      <4>1. IsReason(v, val) BY <1>1, <3>3 DEF IsReason
      <4> QED BY <1>2, <4>1 DEF Placed
    <3>4. CASE v[val].k = "equal"
      <4>1. ~IsKey(v, eq) BY DEF IsKey, ValueAt
      <4> QED BY <1>1, <3>4, <4>1 DEF Placed
    <3>5. CASE v[val].k \in {"open", "bad"} BY <3>5 DEF Placed
    <3> QED BY <2>1, <3>1, <3>2, <3>3, <3>4, <3>5 DEF Kinds
  <2> QED BY <1>4, <1>6, <2>2, AcceptedIs
<1> QED BY <1>4, <1>5, <1>6

\* The name a parameter is read with.
ParamKey(v, key) == IF key <= Len(v) /\ v[key].k = "tok" THEN v[key].v ELSE ""

\* The identifiers of the item that starts at s which lie before p.
IdsBelow(v, s, p) == {j \in IdentifiersAt(v, s) : j < p}

\* A parameter that is read continues its item, and its value is an identifier
\* of the item if its name says so.
LEMMA ParamReads ==
  ASSUME NEW v, IsText(v), NEW p, NEW s, InItem(v, p, s), p <= Len(v), v[p].k = "semi",
         NEW key, NEW eq, ParamAt(v, p, key, eq), NEW val, ValueAt(v, eq, val),
         val <= Len(v), v[val].k = "str"
  PROVE  /\ InItem(v, val + 1, s)
         /\ IdsBelow(v, s, val + 1) =
              IdsBelow(v, s, p) \cup (IF ParamKey(v, key) = "session_identifier" THEN {val} ELSE {})
<1>1. /\ ReadTo(v, val) /\ Before(v, val) = eq /\ KindBefore(v, val) = "equal"
      /\ \A r \in p..(val - 1) : ~IsReason(v, r) /\ v[r].k # "str"
  BY ParamEquals
<1>2. ParamOpen(v, p, key, eq) BY ParamName
<1>3. /\ Len(v) \in Nat /\ p \in Nat /\ eq \in Nat /\ 1 <= eq /\ val \in Nat /\ eq < val
      /\ val <= Len(v) /\ s \in Nat /\ 1 <= s /\ s < p /\ p < eq /\ p - 1 \in Nat
  <2>1. Len(v) \in Nat /\ p \in Nat /\ 1 <= p /\ s \in 1..(p - 1) BY TextFacts DEF InItem, ReadTo
  <2>2. key \in Nat /\ p < key /\ eq \in Nat /\ key <= eq BY <2>1 DEF ParamAt
  <2>3. val \in Nat /\ eq < val BY <2>1, <2>2 DEF ValueAt
  <2> QED BY <2>1, <2>2, <2>3
<1>4. Placed(v, val) /\ ~IsReason(v, val) BY <1>1 DEF Placed, IsReason
<1>5. ReadTo(v, val + 1) BY <1>1, <1>3, <1>4 DEF ReadTo
<1>6. ASSUME NEW r \in (s + 1)..val PROVE ~IsReason(v, r)
  <2>1. CASE r < p BY <1>3, <2>1 DEF InItem
  <2>2. CASE r = val BY <1>4, <2>2
  <2>3. CASE ~(r < p) /\ r # val BY <1>1, <1>3, <2>3
  <2> QED BY <2>1, <2>2, <2>3
<1>7. (val + 1) - 1 = val /\ s \in 1..val BY <1>3
<1>8. InItem(v, val + 1, s) BY <1>5, <1>6, <1>7 DEF InItem
<1>9. KeyOf(v, val) = ParamKey(v, key)
  <2>1. CASE key <= Len(v) /\ v[key].k = "tok"
    <3>1. Before(v, eq) = key BY <1>2, <2>1 DEF ParamOpen
    <3> QED BY <1>1, <2>1, <3>1 DEF KeyOf, ParamKey
  <2>2. CASE ~(key <= Len(v) /\ v[key].k = "tok")
    <3>1. v[Before(v, eq)].k = "semi" BY <1>2, <2>2 DEF ParamOpen
    <3> QED BY <1>1, <2>2, <3>1 DEF KeyOf, ParamKey
  <2> QED BY <2>1, <2>2
<1>10. ASSUME NEW j PROVE j \in IdsBelow(v, s, val + 1) <=>
         j \in IdsBelow(v, s, p) \cup (IF ParamKey(v, key) = "session_identifier" THEN {val} ELSE {})
  <2>1. CASE j = val
    <3>1. val \in (s + 1)..Len(v) /\ val < val + 1 /\ ~(val < p) BY <1>3
    <3>2. val \in IdentifiersAt(v, s) <=> KeyOf(v, val) = "session_identifier"
      BY <1>6, <3>1 DEF IdentifiersAt
    <3> QED BY <1>9, <2>1, <3>1, <3>2 DEF IdsBelow
  <2>2. CASE j # val
    <3>1. SUFFICES ASSUME j \in IdentifiersAt(v, s) PROVE j < val + 1 <=> j < p
      BY <2>2 DEF IdsBelow
    <3>2. j \in (s + 1)..Len(v) /\ v[j].k = "str" BY <3>1 DEF IdentifiersAt
    <3>3. ~(j \in p..(val - 1)) BY <1>1, <3>2
    <3> QED BY <1>3, <2>2, <3>2, <3>3
  <2> QED BY <2>1, <2>2
<1> QED BY <1>8, <1>10

-----------------------------------------------------------------------------
(* The entries of a text.                                                   *)

\* What the lexeme at position n adds to the entries before it.
EntryStep(v, n, es) ==
  IF IsReason(v, n) /\ v[n].v \in ValidReasons /\ IdentifiersAt(v, n) # {}
  THEN Append(es, [reason |-> v[n].v, session_id |-> v[Max(IdentifiersAt(v, n))].v])
  ELSE es

EntryRounds(v, f) ==
  /\ f[0] = <<>>
  /\ \A n \in 1..Len(v) : f[n] = EntryStep(v, n, f[n - 1])

\* The entries of the items that start in the first n positions.
EntriesUpTo(v, n) == (CHOOSE f : EntryRounds(v, f))[n]

\* The identifiers of an item are positions of the text.
LEMMA IdentifiersFacts ==
  ASSUME NEW v, IsText(v), NEW i \in 1..Len(v), NEW I, I \subseteq IdentifiersAt(v, i), I # {}
  PROVE  Max(I) \in I /\ (\A y \in I : y <= Max(I)) /\ Max(I) \in 1..Len(v)
<1>1. Len(v) \in Nat BY TextFacts
<1>2. I \subseteq 1..Len(v) BY <1>1 DEF IdentifiersAt
<1>3. 1 \in Int /\ Len(v) \in Int BY <1>1
<1>4. Max(I) \in I /\ \A y \in I : y <= Max(I) BY <1>2, <1>3, Extremes
<1> QED BY <1>2, <1>4

\* EntriesOf goes through the text from its first position to its last.
LEMMA EntriesRounds ==
  ASSUME NEW v, IsText(v)
  PROVE  /\ EntriesUpTo(v, 0) = <<>>
         /\ \A n \in 1..Len(v) : EntriesUpTo(v, n) = EntryStep(v, n, EntriesUpTo(v, n - 1))
         /\ EntriesOf(v) = EntriesUpTo(v, Len(v))
<1> DEFINE E == [reason: {v[i].v : i \in 1..Len(v)}, session_id: {v[i].v : i \in 1..Len(v)}]
           S == Seq(E)
           N == Len(v)
           R == [p \in Nat \X S |-> IF p[1] \in 1..N THEN EntryStep(v, p[1], p[2]) ELSE p[2]]
           Eq(g) == g = [n \in 0..N |-> IF n = 0 THEN <<>> ELSE EntryStep(v, n, g[n - 1])]
           G == CHOOSE g : Eq(g)
<1>1. N \in Nat /\ <<>> \in S BY TextFacts
<1>2. ASSUME NEW n \in 1..N, NEW c \in S PROVE EntryStep(v, n, c) \in S
  <2> DEFINE m == Max(IdentifiersAt(v, n))
             e == [reason |-> v[n].v, session_id |-> v[m].v]
  <2>1. CASE IdentifiersAt(v, n) # {}
    <3>1. m \in 1..N BY <2>1, IdentifiersFacts
    <3> HIDE DEF m
    <3>2. e \in E BY <3>1
    <3> HIDE DEF e, E
    <3>3. Append(c, e) \in S BY <3>2
    <3>4. EntryStep(v, n, c) = Append(c, e) \/ EntryStep(v, n, c) = c BY DEF EntryStep, e, m
    <3> QED BY <3>3, <3>4
  <2>2. CASE IdentifiersAt(v, n) = {} BY <2>2 DEF EntryStep
  <2> QED BY <2>1, <2>2
<1> HIDE DEF E, S
<1>3. R \in [Nat \X S -> S] BY <1>2
<1>4. ASSUME NEW n \in 1..N, NEW c \in S PROVE R[<<n, c>>] = EntryStep(v, n, c)
  <2>1. n \in Nat BY <1>1
  <2> QED BY <2>1
<1> HIDE DEF R, N
<1>6. PICK g \in [0..N -> S] : g[0] = <<>> /\ \A n \in 1..N : g[n] = R[<<n, g[n - 1]>>]
  <2>1. PICK g : Iterates(g, S, R, <<>>, N) BY <1>1, <1>3, Iteration, Zenon
  <2> QED BY <2>1 DEF Iterates
<1>7. Eq(g)
  <2>1. ASSUME NEW n \in 0..N PROVE g[n] = IF n = 0 THEN <<>> ELSE EntryStep(v, n, g[n - 1])
    <3>1. CASE n = 0 BY <1>6, <3>1
    <3>2. CASE n # 0
      <4>1. n \in 1..N /\ g[n - 1] \in S BY <1>1, <1>6, <3>2
      <4>2. g[n] = R[<<n, g[n - 1]>>] BY <1>6, <4>1
      <4>3. R[<<n, g[n - 1]>>] = EntryStep(v, n, g[n - 1]) BY <1>4, <4>1
      <4> QED BY <3>2, <4>2, <4>3
    <3> QED BY <3>1, <3>2
  <2> QED BY <1>6, <2>1
<1>8. Eq(G) BY <1>7, Zenon
<1>9. EntriesOf(v) = G[N] BY Zenon DEF EntriesOf, N, EntryStep
<1> HIDE DEF G
<1>10. ASSUME NEW h, Eq(h) PROVE EntryRounds(v, h)
  <2>1. h[0] = <<>> BY <1>1, <1>10
  <2>2. ASSUME NEW n \in 1..N PROVE h[n] = EntryStep(v, n, h[n - 1])
    <3>1. n \in 0..N /\ n # 0 BY <1>1
    <3> QED BY <1>10, <3>1
  <2> QED BY <2>1, <2>2 DEF EntryRounds, N
<1> DEFINE F == CHOOSE f : EntryRounds(v, f)
<1>11. EntryRounds(v, F) /\ EntryRounds(v, G)
  <2>1. EntryRounds(v, G) BY <1>8, <1>10
  <2> QED BY <2>1, Zenon
<1>12. \A n : EntriesUpTo(v, n) = F[n] BY DEF EntriesUpTo
<1> HIDE DEF F
<1>13. Alike(N, F, G) BY <1>11 DEF Alike, EntryRounds, N
<1>14. F[N] = G[N]
  <2>1. \A n \in 0..N : F[n] = G[n] BY <1>1, <1>13, SameRounds
  <2> QED BY <1>1, <2>1
<1> QED BY <1>9, <1>11, <1>12, <1>14 DEF EntryRounds, N

\* Where no item starts there is no new entry.
LEMMA NoReasonSame ==
  ASSUME NEW v, IsText(v), NEW a \in 0..Len(v), NEW b \in a..Len(v),
         \A r \in (a + 1)..b : ~IsReason(v, r)
  PROVE  EntriesUpTo(v, b) = EntriesUpTo(v, a)
<1>1. Len(v) \in Nat /\ a \in Nat /\ b \in Nat /\ a <= b /\ b <= Len(v) BY TextFacts
<1> DEFINE T == {n \in 0..(b - a) : EntriesUpTo(v, a + n) = EntriesUpTo(v, a)}
<1>2. T \subseteq 0..(b - a) /\ 0 \in T /\ b - a \in Nat BY <1>1
<1>3. ASSUME NEW n \in T, n < b - a PROVE n + 1 \in T
  <2>1. n \in Nat /\ a + n + 1 \in 1..Len(v) /\ (a + n + 1) - 1 = a + n /\ a + n + 1 \in (a + 1)..b
        /\ n + 1 \in 0..(b - a) /\ a + (n + 1) = a + n + 1
    BY <1>1, <1>3
  <2>2. ~IsReason(v, a + n + 1) BY <2>1
  <2>3. EntriesUpTo(v, a + n + 1) = EntryStep(v, a + n + 1, EntriesUpTo(v, a + n))
    BY <2>1, EntriesRounds
  <2>4. EntriesUpTo(v, a + n + 1) = EntriesUpTo(v, a + n) BY <2>2, <2>3 DEF EntryStep
  <2> QED BY <2>1, <2>4
<1> HIDE DEF T
<1>4. T = 0..(b - a) BY <1>2, <1>3, BoundedInduction
<1>5. b - a \in T BY <1>2, <1>4
<1>6. a + (b - a) = b BY <1>1
<1> QED BY <1>5, <1>6 DEF T

\* The entries once the item that starts at s was read up to p.
EntriesTo(v, p, s) ==
  IF v[s].v \in ValidReasons /\ IdsBelow(v, s, p) # {}
  THEN Append(EntriesUpTo(v, s - 1),
              [reason |-> v[s].v, session_id |-> v[Max(IdsBelow(v, s, p))].v])
  ELSE EntriesUpTo(v, s - 1)

\* es are the entries of the complete items before p.
HasRead(v, p, es) ==
  \/ es = <<>> /\ \A r \in 1..(p - 1) : ~IsReason(v, r)
  \/ \E s \in 1..(p - 1) : /\ IsReason(v, s) /\ (\A r \in (s + 1)..(p - 1) : ~IsReason(v, r))
                           /\ es = EntriesTo(v, p, s)

\* The entries read so far are those of the items that start before q, where
\* the next item or the end is.
LEMMA ItemsClosed ==
  ASSUME NEW v, IsText(v), NEW p, AtItem(v, p), NEW q \in p..(Len(v) + 1), Separates(v, p, q),
         q > Len(v) \/ IsReason(v, q), NEW es, HasRead(v, p, es)
  PROVE  es = EntriesUpTo(v, q - 1)
<1>1. Len(v) \in Nat /\ p \in Nat /\ 1 <= p /\ q \in Nat /\ p <= q /\ q <= Len(v) + 1
  BY TextFacts DEF AtItem, ReadTo
<1>2. \A r \in p..(q - 1) : ~IsReason(v, r) BY SeparatorsRead
<1>3. CASE es = <<>> /\ \A r \in 1..(p - 1) : ~IsReason(v, r)
  <2>1. \A r \in (0 + 1)..(q - 1) : ~IsReason(v, r) BY <1>1, <1>2, <1>3
  <2>2. 0 \in 0..Len(v) /\ q - 1 \in 0..Len(v) BY <1>1
  <2>3. EntriesUpTo(v, q - 1) = EntriesUpTo(v, 0) BY <2>1, <2>2, NoReasonSame
  <2> QED BY <1>3, <2>3, EntriesRounds
<1>4. ASSUME NEW s \in 1..(p - 1), IsReason(v, s), \A r \in (s + 1)..(p - 1) : ~IsReason(v, r),
             es = EntriesTo(v, p, s)
      PROVE  es = EntriesUpTo(v, q - 1)
  <2>1. s \in Nat /\ 1 <= s /\ s < p /\ s \in 1..Len(v) /\ s \in 0..Len(v) /\ q - 1 \in s..Len(v)
    BY <1>1
  <2>2. \A r \in (s + 1)..(q - 1) : ~IsReason(v, r) BY <1>1, <1>2, <1>4, <2>1
  <2>3. EntriesUpTo(v, q - 1) = EntriesUpTo(v, s) BY <2>1, <2>2, NoReasonSame
  <2>4. EntriesUpTo(v, s) = EntryStep(v, s, EntriesUpTo(v, s - 1)) BY <2>1, EntriesRounds
  <2>5. IdentifiersAt(v, s) = IdsBelow(v, s, p)
    <3>1. SUFFICES ASSUME NEW j \in IdentifiersAt(v, s) PROVE j < p
      BY DEF IdsBelow
    <3>2. j \in (s + 1)..Len(v) /\ v[j].k = "str" /\ ~\E r \in (s + 1)..j : IsReason(v, r)
      BY DEF IdentifiersAt
    <3>3. ~(j \in p..(q - 1)) BY <3>2 DEF Separates
    <3>4. ~(q <= j)
      <4> SUFFICES ASSUME q <= j PROVE FALSE
        OBVIOUS
      <4>1. q \in (s + 1)..j /\ q <= Len(v) BY <1>1, <2>1, <3>2
      <4> QED BY <1>1, <3>2, <4>1
    <3> QED BY <1>1, <2>1, <3>2, <3>3, <3>4
  <2> QED BY <1>4, <2>3, <2>4, <2>5 DEF EntryStep, EntriesTo
<1> QED BY <1>3, <1>4 DEF HasRead

-----------------------------------------------------------------------------
(* Texts put together from parts.                                           *)

\* w is made of the sequences in ss, the n-th of which ends at off[n].
MadeOf(w, ss, off) ==
  /\ off \in [0..Len(ss) -> Nat] /\ off[0] = 0 /\ Len(w) = off[Len(ss)]
  /\ \A n \in 1..Len(ss) : /\ off[n] = off[n - 1] + Len(ss[n])
                           /\ \A i \in 1..Len(ss[n]) : w[off[n - 1] + i] = ss[n][i]

\* FlattenSeq puts the parts together one after the other.
LEMMA FlattenRounds ==
  ASSUME NEW A, NEW ss \in Seq(Seq(A))
  PROVE  \E f \in [0..Len(ss) -> Seq(A)] :
           /\ f[0] = <<>> /\ FlattenSeq(ss) = f[Len(ss)]
           /\ \A n \in 1..Len(ss) : f[n] = f[n - 1] \o ss[n]
<1> DEFINE S == Seq(A)
           N == Len(ss)
           R == [p \in Nat \X S |-> IF p[1] \in 1..N THEN p[2] \o ss[p[1]] ELSE p[2]]
           Eq(g) == g = [i \in 1..N |-> IF i = 1 THEN ss[i] ELSE g[i - 1] \o ss[i]]
           G == CHOOSE g : Eq(g)
<1>1. N \in Nat /\ <<>> \in S /\ \A n \in 1..N : ss[n] \in S OBVIOUS
<1>2. ASSUME NEW n \in 1..N, NEW c \in S PROVE c \o ss[n] \in S BY <1>1
<1>3. ASSUME NEW c \in S PROVE <<>> \o c = c OBVIOUS
<1>0. N = 0 => ss = <<>> OBVIOUS
<1>f. FlattenSeq(ss) = IF N = 0 THEN ss ELSE G[N] BY Zenon DEF FlattenSeq
<1> HIDE DEF S
<1>4. R \in [Nat \X S -> S] BY <1>2
<1>5. ASSUME NEW n \in 1..N, NEW c \in S PROVE R[<<n, c>>] = c \o ss[n]
  <2>1. n \in Nat BY <1>1
  <2> QED BY <2>1
<1> HIDE DEF R, N
<1>6. PICK f \in [0..N -> S] : f[0] = <<>> /\ \A n \in 1..N : f[n] = R[<<n, f[n - 1]>>]
  <2>1. PICK g : Iterates(g, S, R, <<>>, N) BY <1>1, <1>4, Iteration, Zenon
  <2> QED BY <2>1 DEF Iterates
<1>7. ASSUME NEW n \in 1..N PROVE f[n] = f[n - 1] \o ss[n]
  <2>1. f[n - 1] \in S BY <1>1, <1>6
  <2> QED BY <1>5, <1>6, <2>1
<1> DEFINE g == [i \in 1..N |-> f[i]]
<1>8. Eq(g)
  <2>1. ASSUME NEW i \in 1..N PROVE f[i] = IF i = 1 THEN ss[i] ELSE g[i - 1] \o ss[i]
    <3>1. CASE i = 1 BY <1>1, <1>3, <1>6, <1>7, <3>1
    <3>2. CASE i # 1
      <4>1. i - 1 \in 1..N BY <1>1, <3>2
      <4>2. g[i - 1] = f[i - 1] BY <4>1
      <4> QED BY <1>7, <3>2, <4>2
    <3> QED BY <3>1, <3>2
  <2> QED BY <2>1
<1>9. Eq(G)
  <2> HIDE DEF g
  <2> QED BY <1>8, Zenon
<1> HIDE DEF G, g
<1> DEFINE H == [n \in 0..N |-> IF n = 0 THEN <<>> ELSE G[n]]
<1>10. Alike(N, H, f)
  <2>1. H[0] = f[0] BY <1>1, <1>6
  <2>2. ASSUME NEW n \in 1..N, H[n - 1] = f[n - 1] PROVE H[n] = f[n]
    <3>1. n \in 0..N /\ n - 1 \in 0..N /\ n # 0 BY <1>1
    <3>2. H[n] = G[n] /\ G[n] = IF n = 1 THEN ss[n] ELSE G[n - 1] \o ss[n] BY <1>9, <3>1
    <3>3. CASE n = 1
      <4>0. 1 - 1 = 0 /\ 1 \in 1..N BY <3>3
      <4>1. f[1] = f[1 - 1] \o ss[1] BY <1>7, <4>0
      <4>4. H[1] = ss[1]
        <5> HIDE DEF H
        <5> QED BY <3>2, <3>3
      <4>2. ss[1] \in S BY <1>1, <3>3
      <4>3. <<>> \o ss[1] = ss[1] BY <1>3, <4>2
      <4>5. f[1] = ss[1] BY <1>6, <4>0, <4>1, <4>3
      <4> HIDE DEF H
      <4> QED BY <3>3, <4>4, <4>5
    <3>4. CASE n # 1
      <4>1. H[n - 1] = G[n - 1] BY <1>1, <3>1, <3>4
      <4> QED BY <1>7, <2>2, <3>2, <3>4, <4>1
    <3> QED BY <3>3, <3>4
  <2> HIDE DEF H
  <2> QED BY <2>1, <2>2 DEF Alike
<1>11. H[N] = f[N]
  <2> HIDE DEF H
  <2>1. \A n \in 0..N : H[n] = f[n] BY <1>1, <1>10, SameRounds
  <2> QED BY <1>1, <2>1
<1>12. FlattenSeq(ss) = f[N]
  <2>1. CASE N = 0 BY <1>0, <1>6, <1>f, <2>1
  <2>2. CASE N # 0 BY <1>1, <1>11, <1>f, <2>2
  <2> QED BY <2>1, <2>2
<1> QED BY <1>6, <1>7, <1>12 DEF N, S

\* Where the parts are.
LEMMA FlattenIs ==
  ASSUME NEW A, NEW ss \in Seq(Seq(A))
  PROVE  FlattenSeq(ss) \in Seq(A) /\ \E off : MadeOf(FlattenSeq(ss), ss, off)
<1> DEFINE N == Len(ss)
<1>1. PICK f \in [0..N -> Seq(A)] : /\ f[0] = <<>> /\ FlattenSeq(ss) = f[N]
                                    /\ \A n \in 1..N : f[n] = f[n - 1] \o ss[n]
  BY FlattenRounds
<1>2. N \in Nat /\ \A n \in 1..N : ss[n] \in Seq(A) OBVIOUS
<1> DEFINE off == [n \in 0..N |-> Len(f[n])]
<1> HIDE DEF N
<1>3. off \in [0..N -> Nat] /\ \A n \in 0..N : off[n] = Len(f[n]) BY <1>1
<1>4. off[0] = 0 BY <1>1, <1>2, <1>3
<1> HIDE DEF off
<1>5. ASSUME NEW n \in 1..N PROVE off[n] = off[n - 1] + Len(ss[n])
  <2>1. n \in 0..N /\ n - 1 \in 0..N BY <1>2
  <2>2. f[n - 1] \in Seq(A) /\ ss[n] \in Seq(A) BY <1>1, <1>2, <2>1
  <2>3. Len(f[n - 1] \o ss[n]) = Len(f[n - 1]) + Len(ss[n]) BY <2>2, Joined DEF Joins
  <2> QED BY <1>1, <1>3, <2>1, <2>3
<1> DEFINE In(m) == \A n \in 1..m : /\ off[n] <= off[m]
                                    /\ \A i \in 1..Len(ss[n]) : f[m][off[n - 1] + i] = ss[n][i]
           T == {m \in 0..N : In(m)}
<1>6. T \subseteq 0..N /\ 0 \in T BY <1>2
<1>7. ASSUME NEW m \in T, m < N PROVE m + 1 \in T
  <2>1. m \in Nat /\ m \in 0..N /\ m + 1 \in 1..N /\ m + 1 \in 0..N /\ (m + 1) - 1 = m BY <1>2, <1>7
  <2>2. /\ f[m + 1] = f[m] \o ss[m + 1] /\ off[m] \in Nat /\ Len(ss[m + 1]) \in Nat
        /\ off[m + 1] = off[m] + Len(ss[m + 1])
    <3>1. f[m + 1] = f[(m + 1) - 1] \o ss[m + 1] BY <1>1, <2>1
    <3>2. off[m + 1] = off[(m + 1) - 1] + Len(ss[m + 1]) BY <1>5, <2>1
    <3>3. off[m] \in Nat BY <1>3, <2>1
    <3>4. ss[m + 1] \in Seq(A) BY <1>2, <2>1
    <3>5. Len(ss[m + 1]) \in Nat BY <3>4
    <3> QED BY <2>1, <3>1, <3>2, <3>3, <3>5
  <2>3. /\ \A i \in 1..off[m] : f[m + 1][i] = f[m][i]
        /\ \A i \in 1..Len(ss[m + 1]) : f[m + 1][off[m] + i] = ss[m + 1][i]
    <3>1. f[m] \in Seq(A) /\ ss[m + 1] \in Seq(A) /\ Len(f[m]) = off[m] BY <1>1, <1>2, <1>3, <2>1
    <3>2. Joins(A, f[m], ss[m + 1]) BY <3>1, Joined
    <3> QED BY <2>2, <3>1, <3>2 DEF Joins
  <2>4. ASSUME NEW n \in 1..(m + 1)
        PROVE  /\ off[n] <= off[m + 1]
               /\ \A i \in 1..Len(ss[n]) : f[m + 1][off[n - 1] + i] = ss[n][i]
    <3>1. CASE n = m + 1
      <4>1. n - 1 = m /\ off[m + 1] <= off[m + 1] BY <2>1, <2>2, <3>1
      <4> QED BY <2>3, <3>1, <4>1
    <3>2. CASE n # m + 1
      <4>1. n \in 1..m /\ n \in 1..N /\ n - 1 \in 0..N /\ n \in 0..N BY <1>2, <2>1, <3>2
      <4>2. off[n] \in Nat /\ off[n - 1] \in Nat /\ off[n] = off[n - 1] + Len(ss[n]) /\ Len(ss[n]) \in Nat
        BY <1>2, <1>3, <1>5, <4>1
      <4>3. off[n] <= off[m] /\ \A i \in 1..Len(ss[n]) : f[m][off[n - 1] + i] = ss[n][i]
        BY <4>1
      <4>4. ASSUME NEW i \in 1..Len(ss[n]) PROVE f[m + 1][off[n - 1] + i] = ss[n][i]
        <5>1. off[n - 1] + i \in 1..off[m]
          <6>1. off[n] <= off[m] /\ i \in Nat /\ 1 <= i /\ i <= Len(ss[n]) BY <4>2, <4>3
          <6>2. off[m] \in Nat BY <2>2
          <6> DEFINE x == off[n - 1]
                     y == off[n]
                     z == off[m]
                     l == Len(ss[n])
          <6>3. x \in Nat /\ z \in Nat /\ l \in Nat /\ y = x + l /\ y <= z /\ i <= l /\ 1 <= i
            BY <4>2, <6>1, <6>2
          <6> HIDE DEF x, y, z, l
          <6>4. x + i \in 1..z BY <6>3
          <6> QED BY <6>4 DEF x, z
        <5> QED BY <2>3, <4>3, <5>1
      <4>5. off[n] <= off[m] BY <4>3
      <4>6. off[n] <= off[m + 1]
        <5> DEFINE x == off[n]
                   y == off[m]
                   z == off[m + 1]
                   l == Len(ss[m + 1])
        <5>1. x \in Nat /\ y \in Nat /\ l \in Nat /\ z = y + l /\ x <= y BY <2>2, <4>2, <4>5
        <5> HIDE DEF x, y, z, l
        <5>2. x <= z BY <5>1
        <5> QED BY <5>2 DEF x, z
      <4> QED BY <4>4, <4>6
    <3> QED BY <3>1, <3>2
  <2> QED BY <2>1, <2>4
<1>8. N \in T
  <2> HIDE DEF T
  <2>1. T = 0..N BY <1>2, <1>6, <1>7, BoundedInduction
  <2> QED BY <1>2, <2>1
<1>9. f[N] \in Seq(A) /\ off[N] = Len(f[N]) BY <1>1, <1>2, <1>3
<1>10. In(N) BY <1>8
<1>11. MadeOf(FlattenSeq(ss), ss, off) BY <1>1, <1>3, <1>4, <1>5, <1>9, <1>10 DEF MadeOf, N
<1> QED BY <1>1, <1>9, <1>11

\* No part ends past the whole.
LEMMA PartsInside ==
  ASSUME NEW N \in Nat, NEW off \in [0..N -> Nat], \A n \in 1..N : off[n - 1] <= off[n]
  PROVE  \A n \in 0..N : off[n] <= off[N]
<1> DEFINE T == {k \in 0..N : off[N - k] <= off[N]}
<1>1. T \subseteq 0..N /\ 0 \in T
  <2>1. off[N] \in Nat /\ N - 0 = N OBVIOUS
  <2> QED BY <2>1
<1>2. ASSUME NEW k \in T, k < N PROVE k + 1 \in T
  <2>1. k \in Nat /\ N - k \in 1..N /\ (N - k) - 1 = N - (k + 1) /\ N - (k + 1) \in 0..N /\ k + 1 \in 0..N
    BY <1>2
  <2>2. off[N - (k + 1)] <= off[N - k] BY <2>1
  <2>3. off[N - k] <= off[N] /\ off[N - k] \in Nat /\ off[N] \in Nat /\ off[N - (k + 1)] \in Nat BY <2>1
  <2> QED BY <2>1, <2>2, <2>3
<1>3. T = 0..N
  <2> HIDE DEF T
  <2> QED BY <1>1, <1>2, BoundedInduction
<1>4. ASSUME NEW n \in 0..N PROVE off[n] <= off[N]
  <2>1. N - n \in 0..N /\ N - (N - n) = n OBVIOUS
  <2>2. N - n \in T BY <1>3, <2>1
  <2>3. off[N - (N - n)] <= off[N] BY <2>2
  <2> QED BY <2>1, <2>3
<1> QED BY <1>4

-----------------------------------------------------------------------------
(* What the serialisers write.                                              *)

\* A sequence of lexemes with a kind and a value is a text.
LEMMA TextOf ==
  ASSUME NEW A, \A l \in A : l.k \in Kinds /\ (l.k = "str" => l.v # Nil), NEW w \in Seq(A)
  PROVE  IsText(w)
<1>1. Len(w) \in Nat /\ DOMAIN w = 1..Len(w) /\ \A i \in 1..Len(w) : w[i] \in A OBVIOUS
<1>2. w \in [1..Len(w) -> Range(w)]
  <2>1. w = [i \in 1..Len(w) |-> w[i]] OBVIOUS
  <2>2. \A i \in 1..Len(w) : w[i] \in Range(w) BY <1>1 DEF Range
  <2> QED BY <2>1, <2>2
<1>3. w \in Seq(Range(w)) BY <1>1, <1>2
<1> QED BY <1>1, <1>3 DEF IsText

\* A lexeme of what the serialisers write: no string in it has a bare quote.
WholeLexeme(l) ==
  l.k \in Kinds /\ (l.k = "str" => l.v # Nil /\ l.v \notin DOMAIN TornStrings)

\* The kinds of the lexemes.
LEMMA LexemeKinds ==
  /\ Comma.k = "comma" /\ Space.k = "space" /\ Semi.k = "semi" /\ Equal.k = "equal"
  /\ \A x : Tok(x).k = "tok" /\ Tok(x).v = x /\ Str(x).k = "str" /\ Str(x).v = x
<1>1. \A k, x : Lexeme(k, x).k = k /\ Lexeme(k, x).v = x BY DEF Lexeme
<1> QED BY <1>1, Zenon DEF Comma, Space, Semi, Equal, Tok, Str

\* What a value is written as, quoted or bare.
LEMMA ValueText ==
  /\ \A x : Given(x) => /\ Quoted(x) \in Seq(Range(Quoted(x)))
                        /\ \A l \in Range(Quoted(x)) : WholeLexeme(l)
  /\ \A x : /\ Bare(x) \in Seq(Range(Bare(x)))
            /\ \A l \in Range(Bare(x)) : WholeLexeme(l)
<1>1. ASSUME NEW w, IsTorn(w)
      PROVE  w \in Seq(Range(w)) /\ \A l \in Range(w) : WholeLexeme(l)
  BY <1>1 DEF IsTorn, IsText, Range, WholeLexeme
<1>2. ASSUME NEW l
      PROVE  <<l>> \in Seq(Range(<<l>>)) /\ \A m \in Range(<<l>>) : m = l
  BY DEF Range
<1>3. ASSUME NEW x, Given(x)
      PROVE  /\ Quoted(x) \in Seq(Range(Quoted(x)))
             /\ \A l \in Range(Quoted(x)) : WholeLexeme(l)
  <2>1. CASE x \in DOMAIN TornStrings
    <3>1. Quoted(x) = TornStrings[x] BY <2>1 DEF Quoted
    <3>2. IsTorn(TornStrings[x]) BY <2>1, HeaderAssumption
    <3> QED BY <1>1, <3>1, <3>2
  <2>2. CASE x \notin DOMAIN TornStrings
    <3> DEFINE u == Str(x)
    <3>1. Quoted(x) = <<u>> BY <2>2 DEF Quoted
    <3>2. x # Nil BY <1>3, Zenon DEF Given
    <3>3. WholeLexeme(u) BY <2>2, <3>2, LexemeKinds DEF WholeLexeme, Kinds
    <3> HIDE DEF u
    <3> QED BY <1>2, <3>1, <3>3
  <2> QED BY <2>1, <2>2
<1>4. ASSUME NEW x
      PROVE  Bare(x) \in Seq(Range(Bare(x))) /\ \A l \in Range(Bare(x)) : WholeLexeme(l)
  <2>1. CASE x \in DOMAIN TornTokens
    <3>1. Bare(x) = TornTokens[x] BY <2>1 DEF Bare
    <3>2. IsTorn(TornTokens[x]) BY <2>1, HeaderAssumption
    <3> QED BY <1>1, <3>1, <3>2
  <2>2. CASE x \notin DOMAIN TornTokens
    <3> DEFINE u == Tok(x)
    <3>1. Bare(x) = <<u>> BY <2>2 DEF Bare
    <3>3. WholeLexeme(u) BY LexemeKinds DEF WholeLexeme, Kinds
    <3> HIDE DEF u
    <3> QED BY <1>2, <3>1, <3>3
  <2> QED BY <2>1, <2>2
<1> QED BY <1>3, <1>4

\* A parameter: nothing, or four lexemes unless its value is torn.
ParamWritten(A, name, x) ==
  /\ Param(name, x) \in Seq(A)
  /\ ~Given(x) => Len(Param(name, x)) = 0
  /\ Given(x) /\ x \notin DOMAIN TornStrings =>
       /\ Len(Param(name, x)) = 4
       /\ Param(name, x)[1] = Semi /\ Param(name, x)[2] = Tok(name)
       /\ Param(name, x)[3] = Equal /\ Param(name, x)[4] = Str(x)

\* Param writes one or the other.
LEMMA ParamText ==
  ASSUME NEW A, NEW name, NEW x, Semi \in A, Equal \in A, Tok(name) \in A,
         Given(x) => Range(Quoted(x)) \subseteq A
  PROVE  ParamWritten(A, name, x)
<1>1. CASE ~Given(x)
  <2>1. Param(name, x) = <<>> BY <1>1 DEF Param
  <2> QED BY <1>1, <2>1 DEF ParamWritten
<1>2. CASE Given(x)
  <2> DEFINE l == Tok(name)
             q == Quoted(x)
             h == <<Semi, l, Equal>>
             t == h \o q
  <2>1. Param(name, x) = t BY <1>2 DEF Param
  <2>2. q \in Seq(Range(q)) /\ Range(q) \subseteq A BY <1>2, ValueText
  <2>3. l \in A OBVIOUS
  <2>4. x \notin DOMAIN TornStrings => q = <<Str(x)>> BY DEF Quoted
  <2> HIDE DEF l, q
  <2>5. h \in Seq(A) /\ Len(h) = 3 /\ h[1] = Semi /\ h[2] = l /\ h[3] = Equal BY <2>3
  <2>6. q \in Seq(A) BY <2>2
  <2> HIDE DEF h
  <2>7. Joins(A, h, q) BY <2>5, <2>6, Joined
  <2>8. t \in Seq(A) BY <2>7 DEF Joins
  <2>9. ASSUME x \notin DOMAIN TornStrings
        PROVE  Len(t) = 4 /\ t[1] = Semi /\ t[2] = l /\ t[3] = Equal /\ t[4] = Str(x)
    <3> DEFINE u == Str(x)
    <3>1. q = <<u>> BY <2>4, <2>9
    <3> HIDE DEF u
    <3>2. Len(q) = 1 /\ q[1] = u BY <3>1
    <3>3. Len(t) = 3 + 1 /\ (\A m \in 1..3 : t[m] = h[m]) /\ t[3 + 1] = q[1]
      BY <2>5, <2>7, <3>2 DEF Joins
    <3> QED BY <2>5, <3>2, <3>3 DEF u
  <2> HIDE DEF t
  <2> QED BY <1>2, <2>1, <2>8, <2>9 DEF l, ParamWritten
<1> QED BY <1>1, <1>2

\* The lexemes a list of entries is written with.
ReasonLexemes(s) == UNION {Range(Bare(s[n].reason)) : n \in DOMAIN s}

IdentifierLexemes(s) ==
  UNION {Range(Quoted(s[n].session_id)) : n \in {m \in DOMAIN s : Given(s[m].session_id)}}

LexemesOf(s) ==
  {Comma, Space, Semi, Equal, Tok("session_identifier")}
    \cup ReasonLexemes(s) \cup IdentifierLexemes(s)

\* They are lexemes of a text.
LEMMA LexemesGood ==
  ASSUME NEW s
  PROVE  \A l \in LexemesOf(s) : WholeLexeme(l)
<1>2. SUFFICES ASSUME NEW l \in LexemesOf(s) PROVE WholeLexeme(l)
  OBVIOUS
<1>3. CASE l \in {Comma, Space, Semi, Equal, Tok("session_identifier")}
  BY <1>3, LexemeKinds DEF Kinds, WholeLexeme
<1>4. CASE l \in ReasonLexemes(s)
  <2>1. PICK n \in DOMAIN s : l \in Range(Bare(s[n].reason)) BY <1>4 DEF ReasonLexemes
  <2> QED BY <2>1, ValueText
<1>5. CASE l \in IdentifierLexemes(s)
  <2>1. PICK n \in DOMAIN s : Given(s[n].session_id) /\ l \in Range(Quoted(s[n].session_id))
    BY <1>5 DEF IdentifierLexemes
  <2> QED BY <2>1, ValueText
<1> QED BY <1>2, <1>3, <1>4, <1>5 DEF LexemesOf

\* The part of the text that entry n is written to.
EntryText(s, n) ==
  SkippedItem(s[n]) \o (IF n < Len(s) THEN <<Comma, Space>> ELSE <<>>)

\* What an entry is written as.
LEMMA EntryTextIs ==
  ASSUME NEW s, NEW n \in DOMAIN s
  PROVE  /\ EntryText(s, n) \in Seq(LexemesOf(s))
         /\ Plain(s[n]) =>
              LET t == EntryText(s, n)
                  m == IF ~Given(s[n].session_id) THEN 1 ELSE 5
              IN /\ t[1] = Tok(s[n].reason)
                 /\ m = 5 => /\ t[2] = Semi /\ t[3] = Tok("session_identifier") /\ t[4] = Equal
                             /\ t[5] = Str(s[n].session_id)
                 /\ IF n < Len(s) THEN Len(t) = m + 2 /\ t[m + 1] = Comma /\ t[m + 2] = Space
                    ELSE Len(t) = m
<1> DEFINE A == LexemesOf(s)
           e == s[n]
           a == IF Given(e.reason) THEN Bare(e.reason) ELSE <<>>
           b == Param("session_identifier", e.session_id)
           c == IF n < Len(s) THEN <<Comma, Space>> ELSE <<>>
           t == EntryText(s, n)
           m == IF ~Given(s[n].session_id) THEN 1 ELSE 5
<1>1. /\ Semi \in A /\ Equal \in A /\ Comma \in A /\ Space \in A /\ Tok("session_identifier") \in A
      /\ Given(e.session_id) => Range(Quoted(e.session_id)) \subseteq A
      /\ Range(Bare(e.reason)) \subseteq A
  <2>1. Given(e.session_id) => Range(Quoted(e.session_id)) \subseteq IdentifierLexemes(s)
    BY DEF IdentifierLexemes
  <2>2. Range(Bare(e.reason)) \subseteq ReasonLexemes(s) BY DEF ReasonLexemes
  <2> QED BY <2>1, <2>2 DEF LexemesOf
<1>p. Plain(s[n]) => /\ Given(e.reason) /\ e.reason \notin DOMAIN TornTokens
                     /\ e.session_id \notin DOMAIN TornStrings
  BY DEF Plain
<1> HIDE DEF A
<1> HIDE DEF e
<1>2. /\ b \in Seq(A)
      /\ ~Given(e.session_id) => Len(b) = 0
      /\ Given(e.session_id) /\ e.session_id \notin DOMAIN TornStrings =>
           /\ Len(b) = 4 /\ b[1] = Semi /\ b[2] = Tok("session_identifier") /\ b[3] = Equal
           /\ b[4] = Str(e.session_id)
  BY <1>1, ParamText DEF ParamWritten
<1>3. a \in Seq(A) /\ (Given(e.reason) /\ e.reason \notin DOMAIN TornTokens =>
                        Len(a) = 1 /\ a[1] = Tok(e.reason))
  <2>1. CASE ~Given(e.reason)
    <3>1. a = <<>> BY <2>1
    <3> HIDE DEF a
    <3> QED BY <2>1, <3>1
  <2>2. CASE Given(e.reason)
    <3> DEFINE l == Tok(e.reason)
               q == Bare(e.reason)
    <3>1. a = q /\ Range(q) \subseteq A BY <1>1, <2>2
    <3>2. q \in Seq(Range(q)) BY ValueText
    <3>3. e.reason \notin DOMAIN TornTokens => q = <<l>> BY DEF Bare
    <3> HIDE DEF a, l, q
    <3>4. a \in Seq(A) BY <3>1, <3>2
    <3>5. e.reason \notin DOMAIN TornTokens => Len(a) = 1 /\ a[1] = l BY <3>1, <3>3
    <3> QED BY <3>4, <3>5 DEF l
  <2> QED BY <2>1, <2>2
<1>4. c \in Seq(A) /\ (n < Len(s) => Len(c) = 2 /\ c[1] = Comma /\ c[2] = Space)
      /\ (~(n < Len(s)) => Len(c) = 0)
  <2>1. CASE n < Len(s)
    <3>1. c = <<Comma, Space>> BY <2>1
    <3> HIDE DEF c
    <3> QED BY <1>1, <2>1, <3>1
  <2>2. CASE ~(n < Len(s))
    <3>1. c = <<>> BY <2>2
    <3> HIDE DEF c
    <3> QED BY <2>2, <3>1
  <2> QED BY <2>1, <2>2
<1>5. t = (a \o b) \o c BY DEF EntryText, SkippedItem, e
<1> HIDE DEF a, b, c, t
<1>6. Joins(A, a, b) BY <1>2, <1>3, Joined
<1>7. Joins(A, a \o b, c) BY <1>4, <1>6, Joined DEF Joins
<1>8. t \in Seq(A) BY <1>5, <1>7 DEF Joins
<1>9. ASSUME Plain(s[n])
      PROVE  /\ t[1] = Tok(s[n].reason)
             /\ m = 5 => /\ t[2] = Semi /\ t[3] = Tok("session_identifier") /\ t[4] = Equal
                         /\ t[5] = Str(s[n].session_id)
             /\ IF n < Len(s) THEN Len(t) = m + 2 /\ t[m + 1] = Comma /\ t[m + 2] = Space
                ELSE Len(t) = m
  <2>1. Len(a) = 1 /\ a[1] = Tok(e.reason) BY <1>3, <1>9, <1>p
  <2>p. e.session_id \notin DOMAIN TornStrings BY <1>9, <1>p
  <2> DEFINE d == a \o b
  <2>2. CASE ~Given(s[n].session_id)
    <3>1. m = 1 /\ Len(b) = 0 BY <1>2, <2>2 DEF e
    <3>2. Len(d) = 1 /\ d[1] = Tok(s[n].reason)
      <4>1. Len(d) = 1 + 0 /\ d[1] = a[1] BY <1>6, <2>1, <3>1 DEF Joins
      <4> QED BY <2>1, <4>1 DEF e
    <3> HIDE DEF d, m
    <3>3. t[1] = d[1] /\ Len(t) = 1 + Len(c) /\ \A k \in 1..Len(c) : t[1 + k] = c[k]
      BY <1>5, <1>7, <3>2 DEF Joins, d
    <3> QED BY <1>4, <3>1, <3>2, <3>3
  <2>3. CASE Given(s[n].session_id)
    <3>1. m = 5 /\ Len(b) = 4 BY <1>2, <2>3, <2>p DEF e
    <3>2. Len(d) = 5 /\ d[1] = Tok(s[n].reason) /\ \A k \in 1..4 : d[1 + k] = b[k]
      <4>1. Len(d) = 1 + 4 /\ d[1] = a[1] /\ \A k \in 1..4 : d[1 + k] = b[k]
        BY <1>6, <2>1, <3>1 DEF Joins
      <4> QED BY <2>1, <4>1 DEF e
    <3>3. d[2] = b[1] /\ d[3] = b[2] /\ d[4] = b[3] /\ d[5] = b[4]
      <4>1. 1 \in 1..4 /\ 2 \in 1..4 /\ 3 \in 1..4 /\ 4 \in 1..4 /\ 1 + 1 = 2 /\ 1 + 2 = 3
            /\ 1 + 3 = 4 /\ 1 + 4 = 5
        OBVIOUS
      <4> HIDE DEF d
      <4> QED BY <3>2, <4>1
    <3> HIDE DEF d, m
    <3>4. (\A k \in 1..5 : t[k] = d[k]) /\ Len(t) = 5 + Len(c) /\ \A k \in 1..Len(c) : t[5 + k] = c[k]
      BY <1>5, <1>7, <3>2 DEF Joins, d
    <3>5. /\ t[1] = Tok(s[n].reason) /\ t[2] = Semi /\ t[3] = Tok("session_identifier")
          /\ t[4] = Equal /\ t[5] = Str(s[n].session_id)
      <4>1. t[1] = d[1] /\ t[2] = d[2] /\ t[3] = d[3] /\ t[4] = d[4] /\ t[5] = d[5] BY <3>4
      <4>2. b[1] = Semi /\ b[2] = Tok("session_identifier") /\ b[3] = Equal /\ b[4] = Str(s[n].session_id)
        BY <1>2, <2>3, <2>p DEF e
      <4> QED BY <3>2, <3>3, <4>1, <4>2
    <3>6. IF n < Len(s) THEN Len(t) = 5 + 2 /\ t[5 + 1] = Comma /\ t[5 + 2] = Space ELSE Len(t) = 5
      BY <1>4, <3>4
    <3> QED BY <3>1, <3>5, <3>6
  <2> QED BY <2>2, <2>3
<1> QED BY <1>8, <1>9 DEF A, t

\* A list of entries is written entry by entry, and as a text.
LEMMA SerializedIs ==
  ASSUME NEW s \in EntryLists
  PROVE  LET w == session_skipped_serialize(s)
             parts == [n \in DOMAIN s |-> EntryText(s, n)]
         IN /\ IsText(w) /\ Len(parts) = Len(s) /\ \E off : MadeOf(w, parts, off)
            /\ \A i \in DOMAIN w : w[i].k = "str" => w[i].v \notin DOMAIN TornStrings
<1> DEFINE A == LexemesOf(s)
           parts == [n \in DOMAIN s |-> EntryText(s, n)]
           w == session_skipped_serialize(s)
<1>1. s \in Seq(Range(s)) BY HeaderAssumption
<1>2. Len(s) \in Nat /\ DOMAIN s = 1..Len(s) BY <1>1
<1>3. \A n \in DOMAIN s : EntryText(s, n) \in Seq(A) BY EntryTextIs
<1>4. w = FlattenSeq(parts) BY DEF session_skipped_serialize, EntryText
<1>5. parts \in Seq(Seq(A)) /\ Len(parts) = Len(s)
  <2> HIDE DEF A
  <2>1. parts \in [1..Len(s) -> Seq(A)] BY <1>2, <1>3
  <2> HIDE DEF parts
  <2> QED BY <1>2, <2>1
<1> HIDE DEF parts, w, A
<1>6. w \in Seq(A) /\ \E off : MadeOf(w, parts, off) BY <1>4, <1>5, FlattenIs
<1>7. \A l \in A : WholeLexeme(l) BY LexemesGood DEF A
<1>8. IsText(w) BY <1>6, <1>7, TextOf DEF WholeLexeme
<1>9. ASSUME NEW i \in DOMAIN w, w[i].k = "str" PROVE w[i].v \notin DOMAIN TornStrings
  <2>1. w[i] \in A BY <1>6
  <2> QED BY <1>7, <1>9, <2>1 DEF WholeLexeme
<1> QED BY <1>5, <1>6, <1>8, <1>9 DEF parts, w

-----------------------------------------------------------------------------
(* The parser reads what Accepted describes.                                *)

\* The item that starts at s is being read.
ItemRead(s) ==
  /\ InItem(skipped, scan.p, s)
  /\ scan.reason = skipped[s].v
  /\ scan.entries = EntriesUpTo(skipped, s - 1)
  /\ scan.session_id = IF IdsBelow(skipped, s, scan.p) = {} THEN Nil
                       ELSE skipped[Max(IdsBelow(skipped, s, scan.p))].v

\* What was read is as Accepted asks, and the entries are those of its items.
GrammarOK ==
  /\ skipped = Nil \/ IsText(skipped)
  /\ scan.pc \in {"idle", "request"} => scan.p = 1 /\ scan.entries = <<>> /\ scan.rc = Nil
  /\ scan.pc \in {"item", "param"} => IsText(skipped) /\ scan.rc = Nil
  /\ scan.pc = "item" =>
       AtItem(skipped, scan.p) /\ HasRead(skipped, scan.p, scan.entries)
  /\ scan.pc = "param" => \E s : ItemRead(s)
  /\ ParsesAccepted

\* The parser starts where an item may.
LEMMA StartAtItem ==
  ASSUME NEW v, IsText(v)
  PROVE  AtItem(v, 1) /\ HasRead(v, 1, <<>>)
<1>1. Len(v) \in Nat /\ 1 - 1 = 0 BY TextFacts
<1>2. ReadTo(v, 1) BY <1>1 DEF ReadTo
<1>3. ItemComplete(v, 1) BY BeforeFirst DEF ItemComplete
<1> QED BY <1>1, <1>2, <1>3 DEF AtItem, HasRead

\* Reading starts at the first position.
LEMMA ReadHeaderGrammar ==
  ASSUME ScanOK, GrammarOK, ReadHeader
  PROVE  GrammarOK'
<1>1. /\ scan.pc = "request" /\ skipped' = skipped
      /\ scan.p = 1 /\ scan.entries = <<>> /\ scan.rc = Nil
  BY DEF ReadHeader, GrammarOK
<1>n. Nil # 0 /\ Nil # -1 BY HeaderAssumption
<1>2. CASE skipped \notin {Nil, <<>>} /\ scan' = [scan EXCEPT !.pc = "item"]
  <2>1. /\ scan'.pc = "item" /\ scan'.p = 1 /\ scan'.entries = <<>> /\ scan'.rc = Nil
    BY <1>1, <1>2 DEF ScanOK, ScanFields
  <2>2. IsText(skipped) BY <1>2 DEF GrammarOK
  <2>3. AtItem(skipped, 1) /\ HasRead(skipped, 1, <<>>) BY <2>2, StartAtItem
  <2> QED BY <1>1, <1>n, <2>1, <2>2, <2>3 DEF GrammarOK, ParsesAccepted
<1>3. CASE scan' = [scan EXCEPT !.pc = "done"]
  <2>1. /\ scan'.pc = "done" /\ scan'.rc = Nil
    BY <1>1, <1>3 DEF ScanOK, ScanFields
  <2> QED BY <1>1, <1>n, <2>1 DEF GrammarOK, ParsesAccepted
<1> QED BY <1>2, <1>3 DEF ReadHeader

\* What the parser refuses is malformed, or an allocation failed.
LEMMA FailedGrammar ==
  ASSUME ScanOK, GrammarOK, scan' = Failed, skipped' = skipped, noMem' \/ ~Accepted(skipped)
  PROVE  GrammarOK'
<1>1. scan'.pc = "done" /\ scan'.rc = -1 BY DEF ScanOK, ScanFields, Failed
<1> QED BY <1>1 DEF GrammarOK, ParsesAccepted

\* Separators, then a reason or the end.
LEMMA ParseItemGrammar ==
  ASSUME ScanOK, GrammarOK, ParseItem
  PROVE  GrammarOK'
<1> DEFINE q == Skip(scan.p, {"space", "comma"})
           v == skipped
           L == Len(skipped)
<1>1. /\ scan.pc = "item" /\ skipped' = skipped /\ noMem' = noMem
      /\ scan' = IF q = End THEN [scan EXCEPT !.pc = "report", !.p = q, !.rc = 0]
                 ELSE IF At(q, "tok")
                   THEN [scan EXCEPT !.pc = "param", !.p = q + 1,
                                     !.reason = skipped[q].v, !.session_id = Nil]
                 ELSE Failed
  BY DEF ParseItem, Allocated
<1>2. IsText(v) /\ scan.rc = Nil /\ AtItem(v, scan.p) /\ HasRead(v, scan.p, scan.entries)
  BY <1>1 DEF GrammarOK
<1>3. L \in Nat /\ End = L + 1 /\ scan.p \in 1..(L + 1) BY <1>2, TextFacts DEF End, AtItem, ReadTo
<1>4. /\ q \in scan.p..(L + 1)
      /\ \A m \in scan.p..(q - 1) : v[m].k \in {"space", "comma"}
      /\ q < L + 1 => v[q].k \notin {"space", "comma"}
  BY <1>2, <1>3, SkipIs
<1> HIDE DEF q, L
<1>5. Separates(v, scan.p, q) /\ q \in Nat /\ 1 <= q /\ q <= L + 1 BY <1>3, <1>4 DEF Separates
<1>n. Nil # 0 /\ Nil # -1 BY HeaderAssumption
<1>6. CASE q = End
  <2>1. /\ scan'.pc = "report" /\ scan'.rc = 0 /\ scan'.entries = scan.entries
    BY <1>1, <1>6 DEF ScanOK, ScanFields
  <2>2. q = L + 1 /\ q > L /\ q - 1 = L BY <1>3, <1>6
  <2>3. Accepted(v) BY <1>2, <1>5, <2>2, ItemsEnd DEF L
  <2>4. scan.entries = EntriesUpTo(v, q - 1) BY <1>2, <1>4, <1>5, <2>2, ItemsClosed DEF L
  <2>5. scan.entries = EntriesOf(v) BY <1>2, <2>2, <2>4, EntriesRounds DEF L
  <2> QED BY <1>1, <1>2, <2>1, <2>3, <2>5 DEF GrammarOK, ParsesAccepted
<1>7. CASE q # End /\ At(q, "tok")
  <2>1. /\ scan'.pc = "param" /\ scan'.rc = Nil /\ scan'.entries = scan.entries /\ scan'.p = q + 1
        /\ scan'.reason = v[q].v /\ scan'.session_id = Nil
    BY <1>1, <1>2, <1>7 DEF ScanOK, ScanFields
  <2>2. q \in scan.p..L /\ v[q].k = "tok" /\ q \in 1..L BY <1>3, <1>4, <1>7 DEF At
  <2>3. InItem(v, q + 1, q) BY <1>2, <1>5, <2>2, ItemStarts DEF L
  <2>4. IsReason(v, q) BY <2>3 DEF InItem
  <2>5. scan.entries = EntriesUpTo(v, q - 1) BY <1>2, <1>4, <1>5, <2>4, ItemsClosed DEF L
  <2>6. IdsBelow(v, q, q + 1) = {}
    <3>1. SUFFICES ASSUME NEW j \in IdentifiersAt(v, q) PROVE ~(j < q + 1)
      BY DEF IdsBelow
    <3>2. j \in (q + 1)..L BY DEF IdentifiersAt, L
    <3> QED BY <1>3, <1>5, <3>2
  <2>7. PICK s : s = q OBVIOUS
  <2>8. ItemRead(s)' BY <1>1, <2>1, <2>3, <2>5, <2>6, <2>7 DEF ItemRead
  <2> QED BY <1>1, <1>2, <1>n, <2>1, <2>8 DEF GrammarOK, ParsesAccepted
<1>8. CASE q # End /\ ~At(q, "tok")
  <2>1. q \in scan.p..L /\ v[q].k \notin {"space", "comma", "tok"}
    BY <1>3, <1>4, <1>8 DEF At
  <2>2. ~Accepted(v) BY <1>2, <1>5, <2>1, ItemFault DEF L
  <2>3. scan' = Failed BY <1>1, <1>8
  <2> QED BY <1>1, <2>2, <2>3, FailedGrammar
<1> QED BY <1>6, <1>7, <1>8

\* No more parameters.
LEMMA ItemEndGrammar ==
  ASSUME ScanOK, GrammarOK, ParseItemEnd
  PROVE  GrammarOK'
<1> DEFINE v == skipped
           e == [reason |-> scan.reason, session_id |-> scan.session_id]
<1>1. scan.pc = "param" /\ skipped' = skipped /\ ~At(scan.p, "semi") BY DEF ParseItemEnd
<1>2. IsText(v) /\ scan.rc = Nil BY <1>1 DEF GrammarOK
<1>3. PICK s : ItemRead(s) BY <1>1 DEF GrammarOK
<1>4. /\ Len(v) \in Nat /\ scan.p \in Nat /\ 1 <= scan.p /\ s \in 1..(scan.p - 1)
      /\ scan.p <= Len(v) + 1 /\ InItem(v, scan.p, s)
  BY <1>2, <1>3, TextFacts DEF ItemRead, InItem, ReadTo
<1>5. AtItem(v, scan.p)
  <2>1. scan.p > Len(v) \/ v[scan.p].k # "semi" BY <1>1, <1>4 DEF At, End
  <2> QED BY <1>2, <1>4, <2>1, ItemEnds
<1> DEFINE I == IdsBelow(v, s, scan.p)
<1>6. I # {} => v[Max(I)].v # Nil
  <2>1. s \in 1..Len(v) /\ I \subseteq IdentifiersAt(v, s) BY <1>4 DEF IdsBelow
  <2> SUFFICES ASSUME I # {} PROVE v[Max(I)].v # Nil
    OBVIOUS
  <2> HIDE DEF I
  <2>2. Max(I) \in I /\ Max(I) \in 1..Len(v) BY <1>2, <2>1, IdentifiersFacts
  <2>3. v[Max(I)].k = "str" BY <2>1, <2>2 DEF IdentifiersAt
  <2> QED BY <1>2, <2>2, <2>3, TextFacts
<1>7. Keepable <=> v[s].v \in ValidReasons /\ I # {} BY <1>3, <1>6 DEF Keepable, ItemRead
<1>8. (IF Keepable THEN Append(scan.entries, e) ELSE scan.entries) = EntriesTo(v, scan.p, s)
  BY <1>3, <1>7 DEF EntriesTo, ItemRead
<1>9. HasRead(v, scan.p, EntriesTo(v, scan.p, s)) BY <1>4 DEF HasRead, InItem
<1>n. Nil # 0 /\ Nil # -1 BY HeaderAssumption
<1> HIDE DEF e, I
<1>10. CASE /\ scan'.pc = "item" /\ scan'.rc = scan.rc /\ scan'.p = scan.p
            /\ scan'.entries = IF Keepable THEN Append(scan.entries, e) ELSE scan.entries
  <2>1. scan'.entries = EntriesTo(v, scan.p, s) BY <1>8, <1>10
  <2> QED BY <1>1, <1>2, <1>5, <1>9, <1>10, <1>n, <2>1 DEF GrammarOK, ParsesAccepted
<1>11. CASE ~Keepable /\ scan' = [scan EXCEPT !.pc = "item", !.session_id = Nil]
  <2>1. /\ scan'.pc = "item" /\ scan'.rc = scan.rc /\ scan'.p = scan.p
        /\ scan'.entries = scan.entries
    BY <1>11 DEF ScanOK, ScanFields
  <2> QED BY <1>10, <1>11, <2>1
<1>12. ASSUME NEW room, Keepable,
              scan' = [scan EXCEPT !.pc = "item", !.session_id = Nil,
                                   !.entries = Append(scan.entries, e), !.capacity = room]
       PROVE  GrammarOK'
  <2>1. /\ scan'.pc = "item" /\ scan'.rc = scan.rc /\ scan'.p = scan.p
        /\ scan'.entries = Append(scan.entries, e)
    BY <1>12 DEF ScanOK, ScanFields
  <2> QED BY <1>10, <1>12, <2>1
<1>13. CASE scan' = Failed /\ NotAllocated BY <1>1, <1>13, FailedGrammar DEF NotAllocated
<1> QED BY <1>11, <1>12, <1>13 DEF ParseItemEnd, e

\* A parameter is read, or the header refused.
LEMMA ParseParamGrammar ==
  ASSUME ScanOK, GrammarOK, ParseParam
  PROVE  GrammarOK'
<1> DEFINE v == skipped
           L == Len(skipped)
           p == scan.p
           key == Skip(p + 1, {"space"})
           named == At(key, "tok")
           from == IF named THEN key + 1 ELSE key
           eq == Skip(from, {"space"})
           val == Skip(eq + 1, {"space"})
<1>1. /\ scan.pc = "param" /\ skipped' = skipped /\ At(p, "semi")
      /\ IF At(eq, "equal") /\ At(val, "str")
         THEN ParseValue(IF named THEN skipped[key].v ELSE "", val)
         ELSE scan' = Failed /\ Allocated
  BY Zenon DEF ParseParam
<1>2. IsText(v) /\ scan.rc = Nil BY <1>1 DEF GrammarOK
<1>3. PICK s : ItemRead(s) BY <1>1 DEF GrammarOK
<1>4. /\ L \in Nat /\ p \in Nat /\ 1 <= p /\ s \in 1..(p - 1) /\ End = L + 1
      /\ p <= L /\ v[p].k = "semi" /\ InItem(v, p, s)
  <2>1. InItem(v, p, s) /\ p \in 1..(L + 1) /\ s \in 1..(p - 1) BY <1>3 DEF ItemRead, InItem, ReadTo
  <2>2. L \in Nat BY <1>2, TextFacts
  <2>3. p < End /\ v[p].k = "semi" /\ End = L + 1 BY <1>1 DEF At, End
  <2> HIDE DEF L, p
  <2> QED BY <2>1, <2>2, <2>3
<1>k. (IF named THEN skipped[key].v ELSE "") = ParamKey(v, key) /\ (named <=> key <= L /\ v[key].k = "tok")
  <2>1. p + 1 \in 1..End BY <1>4
  <2>2. key \in (p + 1)..End BY <1>2, <2>1, SkipIs
  <2> HIDE DEF key
  <2>3. named <=> key <= L /\ v[key].k = "tok" BY <1>4, <2>2 DEF At
  <2> HIDE DEF named
  <2> QED BY <2>3, Zenon DEF ParamKey
<1>v. IF At(eq, "equal") /\ At(val, "str") THEN ParseValue(ParamKey(v, key), val)
      ELSE scan' = Failed /\ noMem' = noMem
  <2> HIDE DEF key, named, eq, val
  <2> QED BY <1>1, <1>k, Zenon DEF Allocated
<1>5. ParamAt(v, p, key, eq)
  <2>1. p + 1 \in 1..End BY <1>4
  <2>2. key \in (p + 1)..End /\ (\A m \in (p + 1)..(key - 1) : v[m].k \in {"space"})
        /\ (key < End => v[key].k \notin {"space"})
    BY <1>2, <2>1, SkipIs
  <2> HIDE DEF key
  <2>3. key \in Nat /\ p + 1 <= key /\ key <= L + 1 BY <1>4, <2>2
  <2>4. from \in 1..End BY <1>4, <2>3 DEF At
  <2> HIDE DEF from
  <2>5. eq \in from..End /\ (\A m \in from..(eq - 1) : v[m].k \in {"space"})
        /\ (eq < End => v[eq].k \notin {"space"})
    BY <1>2, <2>4, SkipIs
  <2> HIDE DEF eq
  <2>6. eq \in Nat /\ eq <= L + 1 /\ from \in Nat /\ from <= eq BY <1>4, <2>4, <2>5
  <2>7. CASE named
    <3>1. from = key + 1 /\ key <= L /\ v[key].k = "tok" BY <1>4, <2>3, <2>7 DEF from, At
    <3>2. key < eq /\ Blank(v, key + 1, eq) BY <2>3, <2>5, <2>6, <3>1 DEF Blank
    <3>3. eq \in key..(L + 1) BY <2>3, <2>6, <3>2
    <3> HIDE DEF named
    <3> QED BY <1>4, <2>2, <2>3, <2>5, <2>6, <3>1, <3>2, <3>3 DEF ParamAt, Blank, L
  <2>8. CASE ~named
    <3>1. from = key /\ ~(key <= L /\ v[key].k = "tok") BY <1>4, <2>3, <2>8 DEF from, At
    <3>2. eq = key
      <4>1. ~(key < eq)
        <5> SUFFICES ASSUME key < eq PROVE FALSE
          OBVIOUS
        <5>1. key \in from..(eq - 1) /\ key < End BY <1>4, <2>3, <2>6, <3>1
        <5> QED BY <2>2, <2>5, <5>1
      <4> QED BY <2>3, <2>6, <3>1, <4>1
    <3> HIDE DEF named
    <3> QED BY <1>4, <2>2, <2>3, <2>5, <3>1, <3>2 DEF ParamAt, Blank, L
  <2> QED BY <2>7, <2>8
<1> HIDE DEF key, named, from, eq
<1>6. CASE ~At(eq, "equal")
  <2>1. eq > L \/ v[eq].k # "equal" BY <1>4, <1>5, <1>6 DEF At, ParamAt
  <2>2. ~Accepted(v) BY <1>2, <1>4, <1>5, <2>1, ParamNameFault DEF L
  <2>3. scan' = Failed /\ noMem' = noMem BY <1>v, <1>6
  <2> QED BY <1>1, <2>2, <2>3, FailedGrammar
<1>7. CASE At(eq, "equal")
  <2>1. eq \in Nat /\ 1 <= eq /\ eq <= L /\ v[eq].k = "equal" /\ eq + 1 \in 1..End
    BY <1>4, <1>5, <1>7 DEF At, ParamAt
  <2>2. val \in (eq + 1)..End /\ (\A m \in (eq + 1)..(val - 1) : v[m].k \in {"space"})
        /\ (val < End => v[val].k \notin {"space"})
    BY <1>2, <2>1, SkipIs
  <2> HIDE DEF val
  <2>3. ValueAt(v, eq, val) /\ val \in Nat /\ 1 <= val /\ val <= L + 1
    BY <1>4, <2>1, <2>2 DEF ValueAt, Blank, L
  <2>4. CASE ~At(val, "str")
    <3>1. val > L \/ v[val].k # "str" BY <1>4, <2>3, <2>4 DEF At
    <3>2. ~Accepted(v) BY <1>2, <1>4, <1>5, <2>3, <3>1, ParamValueFault DEF L
    <3>3. scan' = Failed /\ noMem' = noMem BY <1>v, <2>4
    <3> QED BY <1>1, <3>2, <3>3, FailedGrammar
  <2>5. CASE At(val, "str")
    <3>1. val <= L /\ v[val].k = "str" /\ val \in 1..L BY <1>4, <2>3, <2>5 DEF At
    <3>2. /\ InItem(v, val + 1, s)
          /\ IdsBelow(v, s, val + 1) =
               IdsBelow(v, s, p) \cup (IF ParamKey(v, key) = "session_identifier" THEN {val} ELSE {})
      BY <1>2, <1>4, <1>5, <2>3, <3>1, ParamReads DEF L
    <3>3. ParseValue(ParamKey(v, key), val) BY <1>v, <1>7, <2>5
    <3> DEFINE I == IdsBelow(v, s, p)
               J == IdsBelow(v, s, val + 1)
               name == ParamKey(v, key)
    <3> HIDE DEF I, J, name
    <3>n. Nil # 0 /\ Nil # -1 BY HeaderAssumption
    <3>4. CASE name # "session_identifier" /\ scan' = [scan EXCEPT !.p = val + 1]
      <4>1. /\ scan'.pc = "param" /\ scan'.p = val + 1 /\ scan'.entries = scan.entries
            /\ scan'.rc = Nil /\ scan'.session_id = scan.session_id /\ scan'.reason = scan.reason
        BY <1>1, <1>2, <3>4 DEF ScanOK, ScanFields
      <4>2. J = I BY <3>2, <3>4 DEF I, J, name
      <4>3. ItemRead(s)' BY <1>1, <1>3, <3>2, <4>1, <4>2 DEF ItemRead, I, J
      <4> QED BY <1>1, <1>2, <3>n, <4>1, <4>3 DEF GrammarOK, ParsesAccepted
    <3>5. CASE /\ name = "session_identifier"
               /\ scan' = [scan EXCEPT !.p = val + 1, !.session_id = skipped[val].v]
      <4>1. /\ scan'.pc = "param" /\ scan'.p = val + 1 /\ scan'.entries = scan.entries
            /\ scan'.rc = Nil /\ scan'.session_id = v[val].v /\ scan'.reason = scan.reason
        BY <1>1, <1>2, <3>5 DEF ScanOK, ScanFields
      <4>2. val \in J /\ J # {} BY <3>2, <3>5 DEF J, name
      <4>3. J \subseteq IdentifiersAt(v, s) /\ \A j \in J : j < val + 1 BY DEF J, IdsBelow
      <4>4. s \in 1..Len(v) BY <1>4 DEF L
      <4>5. Max(J) \in J /\ val <= Max(J) /\ Max(J) \in 1..Len(v)
        BY <1>2, <4>2, <4>3, <4>4, IdentifiersFacts
      <4>6. Max(J) = val BY <2>3, <1>4, <4>3, <4>5 DEF L
      <4>7. ItemRead(s)' BY <1>1, <1>3, <3>2, <4>1, <4>2, <4>6 DEF ItemRead, J
      <4> QED BY <1>1, <1>2, <3>n, <4>1, <4>7 DEF GrammarOK, ParsesAccepted
    <3>6. CASE scan' = Failed /\ NotAllocated BY <1>1, <3>6, FailedGrammar DEF NotAllocated
    <3> QED BY <3>3, <3>4, <3>5, <3>6, Zenon DEF ParseValue, name
  <2> QED BY <2>4, <2>5
<1> QED BY <1>6, <1>7

-----------------------------------------------------------------------------
(* Headers, their sources and their events.                                 *)

\* Where the headers of a request come from.
SourceOK ==
  /\ scan.pc = "idle" => source = Nil /\ sent = Nil
  /\ source # Nil => source \in EntryLists /\ skipped = session_skipped_serialize(source)
  /\ sent # Nil =>
       \E r \in Registrations : sent = [of |-> r, value |-> registration_serialize(r)]

\* The events are the entries reported so far.
EventsOK ==
  /\ scan.pc = "report" => scan.rc = 0
  /\ scan.rc = 0 => scan.pc \in {"report", "done"}
  /\ scan.pc \notin {"report", "done"} => scan.reported = 0
  /\ scan.rc # 0 => emitted = <<>>
  /\ scan.rc = 0 => /\ scan.reported \in Nat /\ scan.reported <= Len(scan.entries)
                    /\ Len(emitted) = scan.reported
                    /\ \A n \in 1..scan.reported :
                         /\ emitted[n].session = scan.entries[n].session_id
                         /\ emitted[n].detail = scan.entries[n].reason
  /\ scan.pc = "done" /\ scan.rc = 0 => scan.reported = Len(scan.entries)

HeadersInv == GrammarOK /\ SourceOK /\ EventsOK

\* A step of the parser reports nothing, and ends in a report if it accepts.
LEMMA ParseReports ==
  ASSUME ScanOK, GrammarOK, ParseStep
  PROVE  /\ scan.pc \in {"request", "item", "param"} /\ scan.rc = Nil
         /\ scan'.reported = scan.reported /\ scan'.pc # "idle"
         /\ scan'.rc = 0 <=> scan'.pc = "report"
         /\ UNCHANGED <<source, skipped, sent>>
<1>n. Nil # 0 /\ Nil # -1 BY HeaderAssumption
<1>f. ASSUME scan' = Failed
      PROVE  scan'.reported = scan.reported /\ scan'.pc = "done" /\ scan'.rc = -1
  BY <1>f DEF ScanOK, ScanFields, Failed
<1>1. CASE ReadHeader
  <2>1. scan.pc = "request" /\ scan.rc = Nil BY <1>1 DEF ReadHeader, GrammarOK
  <2>2. PICK to \in {"item", "done"} : scan' = [scan EXCEPT !.pc = to] BY <1>1 DEF ReadHeader
  <2>3. scan'.pc = to /\ scan'.rc = Nil /\ scan'.reported = scan.reported
    BY <2>1, <2>2 DEF ScanOK, ScanFields
  <2> QED BY <1>1, <1>n, <2>1, <2>2, <2>3 DEF ReadHeader
<1>2. CASE ParseItem
  <2> DEFINE p == Skip(scan.p, {"space", "comma"})
  <2>1. scan.pc = "item" /\ scan.rc = Nil BY <1>2 DEF ParseItem, GrammarOK
  <2>2. \/ scan' = [scan EXCEPT !.pc = "report", !.p = p, !.rc = 0]
        \/ scan' = [scan EXCEPT !.pc = "param", !.p = p + 1,
                                !.reason = skipped[p].v, !.session_id = Nil]
        \/ scan' = Failed
    BY <1>2 DEF ParseItem
  <2> HIDE DEF p
  <2>3. CASE scan' = [scan EXCEPT !.pc = "report", !.p = p, !.rc = 0]
    <3>1. scan'.pc = "report" /\ scan'.rc = 0 /\ scan'.reported = scan.reported
      BY <2>3 DEF ScanOK, ScanFields
    <3> QED BY <1>2, <2>1, <3>1 DEF ParseItem
  <2>4. CASE scan' = [scan EXCEPT !.pc = "param", !.p = p + 1,
                                  !.reason = skipped[p].v, !.session_id = Nil]
    <3>1. scan'.pc = "param" /\ scan'.rc = Nil /\ scan'.reported = scan.reported
      BY <2>1, <2>4 DEF ScanOK, ScanFields
    <3> QED BY <1>2, <1>n, <2>1, <3>1 DEF ParseItem
  <2>5. CASE scan' = Failed BY <1>2, <1>f, <2>1, <2>5 DEF ParseItem
  <2> QED BY <2>2, <2>3, <2>4, <2>5
<1>3. CASE ParseParam
  <2>1. scan.pc = "param" /\ scan.rc = Nil /\ UNCHANGED <<source, skipped, sent>>
    BY <1>3 DEF ParseParam, GrammarOK
  <2>2. \/ \E val : scan' = [scan EXCEPT !.p = val + 1]
        \/ \E val : scan' = [scan EXCEPT !.p = val + 1, !.session_id = skipped[val].v]
        \/ scan' = Failed
    BY <1>3, Zenon DEF ParseParam, ParseValue
  <2>3. CASE \E val : \/ scan' = [scan EXCEPT !.p = val + 1]
                      \/ scan' = [scan EXCEPT !.p = val + 1, !.session_id = skipped[val].v]
    <3>1. scan'.pc = "param" /\ scan'.rc = Nil /\ scan'.reported = scan.reported
      BY <2>1, <2>3 DEF ScanOK, ScanFields
    <3> QED BY <1>n, <2>1, <3>1
  <2>5. CASE scan' = Failed BY <1>f, <2>1, <2>5
  <2> QED BY <2>2, <2>3, <2>5
<1>4. CASE ParseItemEnd
  <2>1. scan.pc = "param" /\ scan.rc = Nil /\ UNCHANGED <<source, skipped, sent>>
    BY <1>4 DEF ParseItemEnd, GrammarOK
  <2>2. \/ scan' = [scan EXCEPT !.pc = "item", !.session_id = Nil]
        \/ \E es, room : scan' = [scan EXCEPT !.pc = "item", !.session_id = Nil,
                                              !.entries = es, !.capacity = room]
        \/ scan' = Failed
    BY <1>4, Zenon DEF ParseItemEnd
  <2>3. CASE \/ scan' = [scan EXCEPT !.pc = "item", !.session_id = Nil]
             \/ \E es, room : scan' = [scan EXCEPT !.pc = "item", !.session_id = Nil,
                                                   !.entries = es, !.capacity = room]
    <3>1. scan'.pc = "item" /\ scan'.rc = Nil /\ scan'.reported = scan.reported
      BY <2>1, <2>3 DEF ScanOK, ScanFields
    <3> QED BY <1>n, <2>1, <3>1
  <2>5. CASE scan' = Failed BY <1>f, <2>1, <2>5
  <2> QED BY <2>2, <2>3, <2>5
<1> QED BY <1>1, <1>2, <1>3, <1>4 DEF ParseStep

\* An allocation that failed is not forgotten.
LEMMA BuildKeepsNoMem ==
  ASSUME BuildStep, noMem
  PROVE  noMem'
<1>1. Allocated \/ NotAllocated
  BY Zenon DEF BuildStep, instruction_set_session_identifier, instruction_set_refresh_url,
     scope_set_origin, instruction_set_continue, scope_set_include_site,
     instruction_add_refresh_initiator, instruction_add_credential, scope_add_rule,
     instruction_free, SetField, AddElement
<1> QED BY <1>1 DEF Allocated, NotAllocated

\* Nothing of the headers changes, and the allocator does not recover.
LEMMA SameHeaders ==
  ASSUME HeadersInv, UNCHANGED <<source, skipped, sent, scan, emitted>>, noMem => noMem'
  PROVE  HeadersInv'
<1>1. GrammarOK' BY DEF HeadersInv, GrammarOK, ParsesAccepted, ItemRead
<1>2. SourceOK' /\ EventsOK' BY DEF HeadersInv, SourceOK, EventsOK
<1> QED BY <1>1, <1>2 DEF HeadersInv

\* No header, no event.
LEMMA HeadersInit == Init => HeadersInv
<1> SUFFICES ASSUME Init PROVE HeadersInv
  OBVIOUS
<1>1. /\ source = Nil /\ skipped = Nil /\ sent = Nil /\ scan = [NewScan EXCEPT !.pc = "idle"]
      /\ emitted = <<>>
  BY DEF Init, HeaderInit, LogInit
<1>2. /\ scan.pc = "idle" /\ scan.p = 1 /\ scan.entries = <<>> /\ scan.rc = Nil /\ scan.reported = 0
  BY <1>1, Zenon DEF NewScan
<1>n. Nil # 0 /\ Nil # -1 BY HeaderAssumption
<1>3. GrammarOK BY <1>1, <1>2, <1>n DEF GrammarOK, ParsesAccepted
<1> QED BY <1>1, <1>2, <1>3, <1>n DEF HeadersInv, SourceOK, EventsOK

\* Every step keeps the headers' invariant.
LEMMA HeadersStep == MessagesInv /\ HeadersInv /\ [Next]_vars => HeadersInv'
<1> SUFFICES ASSUME MessagesInv, HeadersInv, [Next]_vars PROVE HeadersInv'
  OBVIOUS
<1>0. ScanOK /\ LogOK /\ GrammarOK /\ SourceOK /\ EventsOK BY DEF MessagesInv, HeadersInv
<1>n. Nil # 0 /\ Nil # -1 BY HeaderAssumption
<1>1. CASE Receive
  <2>1. scan.pc = "idle" /\ scan' = NewScan /\ emitted' = emitted
    BY <1>1 DEF Receive, ReceiveRequest, logVars
  <2>2. /\ scan'.pc = "request" /\ scan'.p = 1 /\ scan'.entries = <<>> /\ scan'.rc = Nil
        /\ scan'.reported = 0
    BY <2>1, Zenon DEF NewScan
  <2>3. source = Nil /\ sent = Nil /\ emitted = <<>>
    BY <1>0, <1>n, <2>1 DEF SourceOK, EventsOK, GrammarOK
  <2>4. /\ skipped' = Nil \/ IsText(skipped')
        /\ source' # Nil => source' \in EntryLists /\ skipped' = session_skipped_serialize(source')
        /\ sent' # Nil =>
             \E r \in Registrations : sent' = [of |-> r, value |-> registration_serialize(r)]
    <3>1. CASE skipped' \in SkippedValues \cup {Nil} /\ source' = source /\ sent' = sent
      BY <2>3, <3>1, HeaderAssumption
    <3>2. CASE source' \in EntryLists /\ skipped' = session_skipped_serialize(source') /\ sent' = sent
      <4>1. IsText(skipped') BY <3>2, SerializedIs
      <4> QED BY <2>3, <3>2, <4>1
    <3>3. CASE source' = source /\ skipped' = skipped /\ sent' = sent BY <1>0, <2>3, <3>3 DEF GrammarOK
    <3>4. CASE /\ sent' \in {[of |-> r, value |-> registration_serialize(r)] : r \in Registrations}
               /\ source' = source /\ skipped' = skipped
      BY <1>0, <2>3, <3>4 DEF GrammarOK
    <3> QED BY <1>1, <3>1, <3>2, <3>3, <3>4 DEF Receive, ReceiveRequest
  <2>5. GrammarOK' BY <1>n, <2>2, <2>4 DEF GrammarOK, ParsesAccepted
  <2>6. SourceOK' BY <2>2, <2>4 DEF SourceOK
  <2>7. EventsOK' BY <1>n, <2>1, <2>2, <2>3 DEF EventsOK
  <2> QED BY <2>5, <2>6, <2>7 DEF HeadersInv
<1>2. CASE Parse
  <2>1. ParseStep /\ emitted' = emitted BY <1>2 DEF Parse, logVars
  <2>2. GrammarOK'
    BY <1>0, <2>1, ReadHeaderGrammar, ParseItemGrammar, ParseParamGrammar, ItemEndGrammar
    DEF ParseStep
  <2>3. /\ scan.pc \in {"request", "item", "param"} /\ scan.rc = Nil
        /\ scan'.reported = scan.reported /\ scan'.pc # "idle"
        /\ scan'.rc = 0 <=> scan'.pc = "report"
        /\ UNCHANGED <<source, skipped, sent>>
    BY <1>0, <2>1, ParseReports
  <2>4. SourceOK' BY <1>0, <2>3 DEF SourceOK
  <2>5. emitted' = <<>> /\ scan'.reported = 0 BY <1>0, <1>n, <2>1, <2>3 DEF EventsOK
  <2>6. ScanOK' BY <1>0, <2>1, ParseOK
  <2>7. Len(scan'.entries) \in Nat BY <2>6, SequenceFacts DEF ScanOK
  <2>8. EventsOK' BY <2>3, <2>5, <2>7, EmptySequence DEF EventsOK
  <2> QED BY <2>2, <2>4, <2>8 DEF HeadersInv
<1>3. CASE ReportEntry
  <2> DEFINE k == scan.reported + 1
             e == scan.entries[scan.reported + 1]
             ev == [time |-> Len(emitted) + 1, type |-> "SESSION_SKIPPED",
                    session |-> e.session_id, detail |-> e.reason]
  <2>1. /\ scan.pc = "report" /\ scan.reported < Len(scan.entries)
        /\ scan' = [scan EXCEPT !.reported = k] /\ emitted' = Append(emitted, ev)
        /\ UNCHANGED <<noMem, source, skipped, sent>>
    BY <1>3 DEF ReportEntry, add_event
  <2>2. /\ scan'.pc = "report" /\ scan'.rc = scan.rc /\ scan'.entries = scan.entries
        /\ scan'.reported = k /\ scan'.p = scan.p
    BY <2>1 DEF ScanOK, ScanFields, MessagesInv
  <2>3. GrammarOK' BY <1>0, <2>1, <2>2 DEF GrammarOK, ParsesAccepted
  <2>4. SourceOK' BY <1>0, <2>1, <2>2 DEF SourceOK
  <2>5. /\ scan.rc = 0 /\ scan.reported \in Nat /\ scan.reported <= Len(scan.entries)
        /\ Len(emitted) = scan.reported
        /\ \A n \in 1..scan.reported : /\ emitted[n].session = scan.entries[n].session_id
                                       /\ emitted[n].detail = scan.entries[n].reason
    BY <1>0, <2>1 DEF EventsOK
  <2>6. ev.session = e.session_id /\ ev.detail = e.reason OBVIOUS
  <2> HIDE DEF ev
  <2>7. /\ Len(emitted') = k /\ emitted'[k] = ev /\ \A i \in 1..scan.reported : emitted'[i] = emitted[i]
    <3>1. IsSequence(emitted) BY <1>0 DEF LogOK
    <3> QED BY <2>1, <2>5, <3>1, SequenceFacts
  <2>8. Len(scan.entries) \in Nat BY <1>0, SequenceFacts DEF ScanOK
  <2>9. k \in Nat /\ k <= Len(scan.entries) BY <2>1, <2>5, <2>8
  <2>10. ASSUME NEW n \in 1..k
         PROVE  /\ emitted'[n].session = scan.entries[n].session_id
                /\ emitted'[n].detail = scan.entries[n].reason
    <3>1. CASE n = k BY <2>6, <2>7, <3>1
    <3>2. CASE n # k
      <4>1. n \in 1..scan.reported BY <2>5, <3>2
      <4> QED BY <2>5, <2>7, <4>1
    <3> QED BY <3>1, <3>2
  <2> HIDE DEF k, e
  <2>11. EventsOK' BY <2>2, <2>5, <2>7, <2>9, <2>10 DEF EventsOK
  <2> QED BY <2>3, <2>4, <2>11 DEF HeadersInv
<1>4. CASE ReportEnd
  <2>1. /\ scan.pc = "report" /\ scan.reported = Len(scan.entries)
        /\ scan' = [scan EXCEPT !.pc = "done"]
        /\ UNCHANGED <<noMem, source, skipped, sent, emitted>>
    BY <1>4 DEF ReportEnd, logVars
  <2>2. /\ scan'.pc = "done" /\ scan'.rc = scan.rc /\ scan'.entries = scan.entries
        /\ scan'.reported = scan.reported
    BY <2>1 DEF ScanOK, ScanFields, MessagesInv
  <2>3. GrammarOK' BY <1>0, <2>1, <2>2 DEF GrammarOK, ParsesAccepted
  <2>4. SourceOK' BY <1>0, <2>1, <2>2 DEF SourceOK
  <2>5. EventsOK' BY <1>0, <2>1, <2>2 DEF EventsOK
  <2> QED BY <2>3, <2>4, <2>5 DEF HeadersInv
<1>5. CASE ShowEvents
  <2>1. UNCHANGED <<source, skipped, sent, scan, emitted>> /\ (noMem => noMem')
    BY <1>5 DEF ShowEvents, headerVars, api_events, Allocated, NotAllocated
  <2> QED BY <2>1, SameHeaders
<1>6. CASE Build
  <2>1. UNCHANGED <<source, skipped, sent, scan, emitted>> BY <1>6 DEF Build, headerVars, logVars
  <2>2. noMem => noMem' BY <1>6, BuildKeepsNoMem DEF Build
  <2> QED BY <2>1, <2>2, SameHeaders
<1>7. CASE UNCHANGED vars
  <2>1. UNCHANGED <<source, skipped, sent, scan, emitted>> /\ (noMem => noMem')
    BY <1>7 DEF vars, headerVars, logVars
  <2> QED BY <2>1, SameHeaders
<1> QED BY <1>1, <1>2, <1>3, <1>4, <1>5, <1>6, <1>7 DEF Next, HandleSessionSkipped

\* The headers' invariant holds of every request.
LEMMA HeadersInvariant == Spec => []HeadersInv
BY HeadersInit, HeadersStep, MessagesInvariant, PTL DEF Spec

\* A list of the form header.h describes is in the language of the parser.
LEMMA DocumentedAccepted ==
  ASSUME NEW v, IsText(v), DocumentedList(v)
  PROVE  Accepted(v)
<1>1. Len(v) \in Nat /\ DOMAIN v = 1..Len(v) BY TextFacts
<1>2. ASSUME NEW i, ItemBefore(v, i) PROVE ItemComplete(v, i)
  BY <1>2 DEF ItemBefore, ItemComplete
<1>3. ASSUME NEW i, KindBefore(v, i) \in {"start", "comma"} PROVE ItemComplete(v, i)
  BY <1>3 DEF ItemComplete
<1>4. ItemComplete(v, Len(v) + 1) BY <1>2, <1>3 DEF DocumentedList
<1>5. ASSUME NEW i \in 1..Len(v), i > 1, v[i - 1].k # "space"
      PROVE  Before(v, i) = i - 1 /\ KindBefore(v, i) = v[i - 1].k
  <2>1. i - 1 \in Nat /\ 1 <= i - 1 /\ i - 1 < i /\ i \in Nat BY <1>1, <1>5
  <2>2. Blank(v, (i - 1) + 1, i) BY <1>1 DEF Blank
  <2> QED BY <1>5, <2>1, <2>2, BeforeAt
<1>6. ASSUME NEW i \in DOMAIN v PROVE Placed(v, i)
  <2>1. i \in 1..Len(v) BY <1>1
  <2>2. \/ v[i].k = "space"
        \/ IsReason(v, i) /\ KindBefore(v, i) \in {"start", "comma"}
        \/ v[i].k = "semi" /\ i > 1 /\ IsReason(v, i - 1)
        \/ IsKey(v, i) /\ v[i].v = "session_identifier"
        \/ v[i].k = "equal" /\ i > 1 /\ IsKey(v, i - 1)
        \/ v[i].k = "str" /\ i > 1 /\ v[i - 1].k = "equal"
        \/ v[i].k = "comma" /\ ItemBefore(v, i)
    BY DEF DocumentedList
  <2>3. CASE v[i].k = "space" BY <2>3 DEF Placed, IsReason
  <2>4. CASE IsReason(v, i) /\ KindBefore(v, i) \in {"start", "comma"}
    BY <1>3, <2>4 DEF Placed, IsReason
  <2>5. CASE v[i].k = "semi" /\ i > 1 /\ IsReason(v, i - 1) BY <2>5 DEF Placed, IsReason
  <2>6. CASE IsKey(v, i) BY <2>6 DEF Placed, IsReason, IsKey
  <2>7. CASE v[i].k = "equal" /\ i > 1 /\ IsKey(v, i - 1)
    <3>1. Before(v, i) = i - 1 /\ i - 1 # 0 BY <1>5, <2>1, <2>7 DEF IsKey
    <3> QED BY <2>7, <3>1 DEF Placed, IsReason
  <2>8. CASE v[i].k = "str" /\ i > 1 /\ v[i - 1].k = "equal"
    <3>1. KindBefore(v, i) = "equal" BY <1>5, <2>1, <2>8
    <3> QED BY <2>8, <3>1 DEF Placed, IsReason
  <2>9. CASE v[i].k = "comma" /\ ItemBefore(v, i) BY <1>2, <2>9 DEF Placed, IsReason
  <2> QED BY <2>2, <2>3, <2>4, <2>5, <2>6, <2>7, <2>8, <2>9
<1> QED BY <1>4, <1>6, AcceptedIs

\* Only a text is read or refused.
TextRead == scan.rc # Nil => IsText(skipped)

\* Every step keeps it.
LEMMA TextReadStep == MessagesInv /\ HeadersInv /\ TextRead /\ [Next]_vars => TextRead'
<1> SUFFICES ASSUME MessagesInv, HeadersInv, TextRead, [Next]_vars PROVE TextRead'
  OBVIOUS
<1>0. ScanOK /\ GrammarOK BY DEF MessagesInv, HeadersInv
<1>1. CASE Receive
  <2>1. scan' = NewScan BY <1>1 DEF Receive, ReceiveRequest
  <2>2. scan'.rc = Nil BY <2>1, Zenon DEF NewScan
  <2> QED BY <2>2 DEF TextRead
<1>2. CASE Parse
  <2>1. ParseStep BY <1>2 DEF Parse
  <2>2. /\ scan.pc \in {"request", "item", "param"} /\ scan.rc = Nil
        /\ skipped' = skipped
    BY <1>0, <2>1, ParseReports
  <2>3. CASE scan.pc \in {"item", "param"} BY <1>0, <2>2, <2>3 DEF GrammarOK, TextRead
  <2>4. CASE scan.pc = "request"
    <3>1. ReadHeader BY <2>1, <2>4 DEF ParseStep, ParseItem, ParseParam, ParseItemEnd
    <3>2. scan'.rc = scan.rc BY <1>0, <3>1 DEF ReadHeader, ScanOK, ScanFields
    <3> QED BY <2>2, <3>2 DEF TextRead
  <2> QED BY <2>2, <2>3, <2>4
<1>3. CASE ReportEntry \/ ReportEnd
  <2>1. scan'.rc = scan.rc /\ skipped' = skipped
    BY <1>0, <1>3 DEF ReportEntry, ReportEnd, ScanOK, ScanFields
  <2> QED BY <2>1 DEF TextRead
<1>4. CASE ShowEvents \/ Build \/ UNCHANGED vars
  <2>1. scan' = scan /\ skipped' = skipped BY <1>4 DEF ShowEvents, Build, headerVars, vars
  <2> QED BY <2>1 DEF TextRead
<1> QED BY <1>1, <1>2, <1>3, <1>4 DEF Next, HandleSessionSkipped

\* parse_session_skipped takes every list of the form header.h describes, with
\* the entries of its items, unless an allocation fails; of the other headers
\* it takes those of the language Accepted and refuses the rest, for headers
\* of any length.
THEOREM ParserReadsDocumented == Spec => []ReadsDocumentedLists
<1>1. Init => TextRead
  <2> SUFFICES ASSUME Init PROVE TextRead
    OBVIOUS
  <2>1. scan = [NewScan EXCEPT !.pc = "idle"] BY DEF Init, HeaderInit
  <2>2. scan.rc = Nil BY <2>1, Zenon DEF NewScan
  <2> QED BY <2>2 DEF TextRead
<1>2. Spec => []TextRead
  BY <1>1, TextReadStep, MessagesInvariant, HeadersInvariant, PTL DEF Spec
<1>3. HeadersInv /\ TextRead => ReadsDocumentedLists
  <2> SUFFICES ASSUME HeadersInv, TextRead PROVE ReadsDocumentedLists
    OBVIOUS
  <2>1. ParsesAccepted BY DEF HeadersInv, GrammarOK
  <2>2. ASSUME scan.rc = -1, DocumentedList(skipped) PROVE noMem
    <3>1. Nil # -1 BY HeaderAssumption
    <3>2. IsText(skipped) BY <2>2, <3>1 DEF TextRead
    <3>3. Accepted(skipped) BY <2>2, <3>2, DocumentedAccepted
    <3> QED BY <2>1, <2>2, <3>3 DEF ParsesAccepted
  <2> QED BY <2>1, <2>2 DEF ReadsDocumentedLists
<1> QED BY <1>2, <1>3, HeadersInvariant, PTL

\* Every entry of a header that was accepted is reported once, in the order of
\* the header, and nothing of one that was refused, for headers of any length.
THEOREM EventsFollowHeader == Spec => []EventsMirrorHeader
<1>1. HeadersInv /\ MessagesInv => EventsMirrorHeader
  <2> SUFFICES ASSUME HeadersInv, MessagesInv PROVE EventsMirrorHeader
    OBVIOUS
  <2>1. EventsOK /\ LogOK /\ ParsesAccepted BY DEF HeadersInv, GrammarOK, MessagesInv
  <2>2. scan.rc = 0 => scan.entries = EntriesOf(skipped) BY <2>1 DEF ParsesAccepted
  <2>3. DOMAIN emitted = 1..Len(emitted) BY <2>1, SequenceFacts DEF LogOK
  <2> QED BY <2>1, <2>2, <2>3 DEF EventsMirrorHeader, EventsOK
<1> QED BY <1>1, HeadersInvariant, MessagesInvariant, PTL

-----------------------------------------------------------------------------
(* What was written reads back.                                             *)

\* A parameter as the serialisers write it, from position p on.
WrittenParam(w, p, name, x) ==
  /\ p + 3 <= Len(w)
  /\ w[p] = Semi /\ w[p + 1] = Tok(name) /\ w[p + 2] = Equal /\ w[p + 3] = Str(x)

\* It continues its item with its name and its value.
LEMMA WrittenParamReads ==
  ASSUME NEW w, IsText(w), NEW p, NEW s, InItem(w, p, s), NEW name, NEW x,
         WrittenParam(w, p, name, x)
  PROVE  /\ InItem(w, p + 4, s) /\ w[p + 3].k = "str"
         /\ IdsBelow(w, s, p + 4) =
              IdsBelow(w, s, p) \cup (IF name = "session_identifier" THEN {p + 3} ELSE {})
<1>1. Len(w) \in Nat /\ p \in Nat /\ 1 <= p /\ p + 3 <= Len(w)
  BY TextFacts DEF InItem, ReadTo, WrittenParam
<1>2. /\ w[p].k = "semi" /\ w[p + 1].k = "tok" /\ w[p + 1].v = name /\ w[p + 2].k = "equal"
      /\ w[p + 3].k = "str"
  BY LexemeKinds DEF WrittenParam
<1> DEFINE key == p + 1
           eq == p + 2
           val == p + 3
<1>3. ParamAt(w, p, key, eq) BY <1>1, <1>2 DEF ParamAt, Blank
<1>4. ValueAt(w, eq, val) BY <1>1, <1>2 DEF ValueAt, Blank
<1>5. ParamKey(w, key) = name
  <2>1. key <= Len(w) /\ w[key].k = "tok" /\ w[key].v = name BY <1>1, <1>2
  <2> HIDE DEF key
  <2> QED BY <2>1, Zenon DEF ParamKey
<1>6. p <= Len(w) /\ val <= Len(w) /\ w[val].k = "str" /\ val + 1 = p + 4 BY <1>1, <1>2
<1> HIDE DEF key, eq, val
<1>7. /\ InItem(w, val + 1, s)
      /\ IdsBelow(w, s, val + 1) =
           IdsBelow(w, s, p) \cup (IF ParamKey(w, key) = "session_identifier" THEN {val} ELSE {})
  BY <1>2, <1>3, <1>4, <1>6, ParamReads
<1> QED BY <1>2, <1>5, <1>6, <1>7 DEF val

\* An entry as the serialiser writes it, from position p up to m.
WrittenEntry(w, p, m, r, x) ==
  /\ w[p] = Tok(r) /\ m <= Len(w) + 1
  /\ IF Given(x) THEN m = p + 5 /\ WrittenParam(w, p + 1, "session_identifier", x)
     ELSE m = p + 1

\* It is one item, with the entry it was written from.
LEMMA WrittenEntryReads ==
  ASSUME NEW w, IsText(w), NEW p, AtItem(w, p), NEW r, NEW x, NEW m, WrittenEntry(w, p, m, r, x),
         m > Len(w) \/ w[m].k # "semi",
         NEW q \in m..(Len(w) + 1), Separates(w, m, q), q > Len(w) \/ w[q].k = "tok"
  PROVE  /\ AtItem(w, q)
         /\ EntriesUpTo(w, q - 1) =
              IF r \in ValidReasons /\ Given(x)
              THEN Append(EntriesUpTo(w, p - 1), [reason |-> r, session_id |-> x])
              ELSE EntriesUpTo(w, p - 1)
<1>1. Len(w) \in Nat /\ p \in Nat /\ 1 <= p /\ m \in Nat /\ p < m /\ m <= Len(w) + 1 /\ m \in Int
  <2>1. Len(w) \in Nat /\ p \in Nat /\ 1 <= p BY TextFacts DEF AtItem, ReadTo
  <2>2. m = p + 5 \/ m = p + 1 BY DEF WrittenEntry
  <2> QED BY <2>1, <2>2 DEF WrittenEntry
<1>2. p \in p..Len(w) /\ w[p].k = "tok" /\ w[p].v = r BY <1>1, LexemeKinds DEF WrittenEntry
<1>3. Separates(w, p, p) BY <1>1 DEF Separates
<1>4. InItem(w, p + 1, p) BY <1>2, <1>3, ItemStarts
<1>5. IdsBelow(w, p, p + 1) = {}
  <2>1. SUFFICES ASSUME NEW j \in IdentifiersAt(w, p) PROVE ~(j < p + 1)
    BY DEF IdsBelow
  <2>2. j \in (p + 1)..Len(w) BY DEF IdentifiersAt
  <2> QED BY <1>1, <2>2
<1>6. /\ InItem(w, m, p)
      /\ IF Given(x) THEN IdsBelow(w, p, m) # {} /\ w[Max(IdsBelow(w, p, m))].v = x
         ELSE IdsBelow(w, p, m) = {}
  <2>1. CASE ~Given(x) BY <1>4, <1>5, <2>1 DEF WrittenEntry
  <2>2. CASE Given(x)
    <3> DEFINE I == IdsBelow(w, p, m)
    <3>1. m = p + 5 /\ WrittenParam(w, p + 1, "session_identifier", x) BY <2>2 DEF WrittenEntry
    <3>2. (p + 1) + 4 = m /\ (p + 1) + 3 = p + 4 BY <1>1, <3>1
    <3>3. InItem(w, m, p) /\ I = {p + 4} BY <1>4, <1>5, <3>1, <3>2, WrittenParamReads
    <3>4. w[p + 4] = Str(x) BY <3>1, <3>2 DEF WrittenParam
    <3>5. I \subseteq IdentifiersAt(w, p) /\ p \in 1..Len(w) BY <1>1 DEF IdsBelow
    <3> HIDE DEF I
    <3>6. I # {} /\ Max(I) \in I BY <3>3, <3>5, IdentifiersFacts
    <3>7. w[Max(I)].v = x BY <3>3, <3>4, <3>6, LexemeKinds
    <3> QED BY <2>2, <3>3, <3>6, <3>7 DEF I
  <2> QED BY <2>1, <2>2
<1>7. AtItem(w, m) BY <1>6, ItemEnds
<1>8. ReadTo(w, q) /\ ItemComplete(w, q) BY <1>7, SeparatorsRead
<1>9. q \in Nat /\ q <= Len(w) + 1 /\ 1 <= q BY <1>1
<1>10. AtItem(w, q) BY <1>8, <1>9 DEF AtItem
<1>11. q > Len(w) \/ IsReason(w, q) BY <1>8 DEF IsReason, ItemComplete
<1>12. HasRead(w, m, EntriesTo(w, m, p)) BY <1>6 DEF HasRead, InItem
<1>13. EntriesTo(w, m, p) = EntriesUpTo(w, q - 1) BY <1>7, <1>11, <1>12, ItemsClosed
<1>14. EntriesTo(w, m, p) = IF r \in ValidReasons /\ Given(x)
                            THEN Append(EntriesUpTo(w, p - 1), [reason |-> r, session_id |-> x])
                            ELSE EntriesUpTo(w, p - 1)
  BY <1>2, <1>6 DEF EntriesTo
<1> QED BY <1>10, <1>13, <1>14

\* What entry n adds to the entries that are read back.
ReadableStep(s, n, es) ==
  IF s[n].reason \in ValidReasons /\ Given(s[n].session_id) THEN Append(es, s[n]) ELSE es

\* Readable goes through the list from its first entry to its last.
LEMMA ReadableIs ==
  ASSUME NEW s, Len(s) \in Nat, NEW h,
         h[0] = <<>>, \A n \in 1..Len(s) : h[n] = ReadableStep(s, n, h[n - 1])
  PROVE  Readable(s) = h[Len(s)]
<1> DEFINE N == Len(s)
           Eq(g) == g = [n \in 0..N |-> IF n = 0 THEN <<>> ELSE ReadableStep(s, n, g[n - 1])]
           G == CHOOSE g : Eq(g)
           k == [n \in 0..N |-> h[n]]
<1>1. Eq(k)
  <2>1. ASSUME NEW n \in 0..N
        PROVE  h[n] = IF n = 0 THEN <<>> ELSE ReadableStep(s, n, k[n - 1])
    <3>1. CASE n = 0 BY <3>1
    <3>2. CASE n # 0
      <4>1. n \in 1..N /\ n - 1 \in 0..N BY <3>2
      <4>2. k[n - 1] = h[n - 1] BY <4>1
      <4> QED BY <3>2, <4>1, <4>2
    <3> QED BY <3>1, <3>2
  <2> QED BY <2>1
<1>2. Eq(G)
  <2> HIDE DEF k
  <2> QED BY <1>1, Zenon
<1>3. Readable(s) = G[N] BY Zenon DEF Readable, ReadableStep
<1> HIDE DEF G, k
<1>4. G[0] = <<>> BY <1>2
<1>5. ASSUME NEW n \in 1..N PROVE G[n] = ReadableStep(s, n, G[n - 1])
  <2>1. n \in 0..N /\ n # 0 OBVIOUS
  <2> QED BY <1>2, <2>1
<1>6. Alike(N, G, h) BY <1>4, <1>5 DEF Alike
<1>7. \A n \in 0..N : G[n] = h[n] BY <1>6, SameRounds
<1> QED BY <1>3, <1>7

\* A list of plain entries is written as a header that is accepted, with the
\* readable ones as its entries.
LEMMA SerializedReads ==
  ASSUME NEW s \in EntryLists, \A n \in DOMAIN s : Plain(s[n])
  PROVE  LET w == session_skipped_serialize(s)
         IN Accepted(w) /\ EntriesOf(w) = Readable(s)
<1> DEFINE w == session_skipped_serialize(s)
           parts == [n \in DOMAIN s |-> EntryText(s, n)]
           N == Len(s)
<1>1. s \in Seq(Range(s)) /\ \A n \in DOMAIN s :
        s[n] = [reason |-> s[n].reason, session_id |-> s[n].session_id]
  BY HeaderAssumption
<1>2. N \in Nat /\ DOMAIN s = 1..N BY <1>1
<1>3. IsText(w) /\ Len(parts) = N /\ \E off : MadeOf(w, parts, off) BY SerializedIs
<1>4. PICK off : MadeOf(w, parts, off) BY <1>3
<1>5. \A n \in 1..N : parts[n] = EntryText(s, n) BY <1>2
<1> HIDE DEF w, parts, N
<1>6. /\ off \in [0..N -> Nat] /\ off[0] = 0 /\ Len(w) = off[N]
      /\ \A n \in 1..N : /\ off[n] = off[n - 1] + Len(EntryText(s, n))
                         /\ \A i \in 1..Len(EntryText(s, n)) : w[off[n - 1] + i] = EntryText(s, n)[i]
  BY <1>3, <1>4, <1>5 DEF MadeOf
<1>7. Len(w) \in Nat BY <1>3, TextFacts
<1> DEFINE M(n) == IF Given(s[n].session_id) THEN 5 ELSE 1
<1>8. ASSUME NEW n \in 1..N
      PROVE  /\ off[n - 1] \in Nat /\ off[n] \in Nat
             /\ off[n] = off[n - 1] + M(n) + (IF n < N THEN 2 ELSE 0)
             /\ w[off[n - 1] + 1] = Tok(s[n].reason)
             /\ M(n) = 5 => /\ w[off[n - 1] + 2] = Semi
                            /\ w[off[n - 1] + 3] = Tok("session_identifier")
                            /\ w[off[n - 1] + 4] = Equal
                            /\ w[off[n - 1] + 5] = Str(s[n].session_id)
             /\ n < N => /\ w[off[n - 1] + M(n) + 1] = Comma
                         /\ w[off[n - 1] + M(n) + 2] = Space
  <2> DEFINE t == EntryText(s, n)
             o == off[n - 1]
             m == M(n)
  <2>1. o \in Nat /\ off[n] \in Nat BY <1>2, <1>6
  <2>2. /\ t[1] = Tok(s[n].reason)
        /\ m = 5 => /\ t[2] = Semi /\ t[3] = Tok("session_identifier") /\ t[4] = Equal
                    /\ t[5] = Str(s[n].session_id)
        /\ IF n < N THEN Len(t) = m + 2 /\ t[m + 1] = Comma /\ t[m + 2] = Space
           ELSE Len(t) = m
    BY <1>2, EntryTextIs DEF N
  <2>3. m = 1 \/ m = 5 OBVIOUS
  <2>4. off[n] = o + Len(t) /\ \A i \in 1..Len(t) : w[o + i] = t[i] BY <1>6
  <2> HIDE DEF t, o, m, M
  <2>5. off[n] = o + m + (IF n < N THEN 2 ELSE 0) BY <2>1, <2>2, <2>3, <2>4
  <2>6. 1 \in 1..Len(t) /\ (m = 5 => 2 \in 1..Len(t) /\ 3 \in 1..Len(t) /\ 4 \in 1..Len(t) /\ 5 \in 1..Len(t))
    BY <2>2, <2>3
  <2>7. n < N => m + 1 \in 1..Len(t) /\ m + 2 \in 1..Len(t) /\ o + (m + 1) = o + m + 1 /\ o + (m + 2) = o + m + 2
    BY <2>1, <2>2, <2>3
  <2>8. w[o + 1] = t[1] /\ (m = 5 => w[o + 2] = t[2] /\ w[o + 3] = t[3] /\ w[o + 4] = t[4] /\ w[o + 5] = t[5])
    BY <2>4, <2>6
  <2>9. n < N => w[o + m + 1] = t[m + 1] /\ w[o + m + 2] = t[m + 2] BY <2>4, <2>7
  <2> QED BY <2>1, <2>2, <2>5, <2>8, <2>9 DEF o, m
<1> DEFINE Up(n) == EntriesUpTo(w, off[n])
           T == {n \in 0..N : /\ off[n] <= Len(w) /\ AtItem(w, off[n] + 1)
                              /\ n # 0 => Up(n) = ReadableStep(s, n, Up(n - 1))}
<1>9. T \subseteq 0..N /\ 0 \in T
  <2>1. AtItem(w, 1) BY <1>3, StartAtItem
  <2> QED BY <1>2, <1>6, <1>7, <2>1
<1>m. ASSUME NEW n \in 0..N PROVE off[n] <= Len(w)
  <2>1. ASSUME NEW j \in 1..N PROVE off[j - 1] <= off[j]
    <3>1. M(j) \in Nat OBVIOUS
    <3> DEFINE z == M(j) + (IF j < N THEN 2 ELSE 0)
    <3>2. z \in Nat BY <3>1
    <3>3. off[j] = off[j - 1] + z BY <1>8, <3>1
    <3>4. off[j - 1] \in Nat BY <1>8
    <3> HIDE DEF z
    <3> QED BY <3>2, <3>3, <3>4
  <2>2. \A j \in 0..N : off[j] <= off[N] BY <1>2, <1>6, <2>1, PartsInside
  <2> QED BY <1>6, <2>2
<1>10. ASSUME NEW n \in T, n < N PROVE n + 1 \in T
  <2> DEFINE k == n + 1
             p == off[n] + 1
             m == p + M(k)
             q == off[k] + 1
             x == s[k].session_id
  <2>1. n \in Nat /\ k \in 1..N /\ k \in 0..N /\ k - 1 = n /\ k # 0 BY <1>2, <1>10
  <2>2. off[n] \in Nat /\ off[k] \in Nat /\ off[k] <= Len(w) BY <1>6, <1>m, <2>1
  <2>3. /\ off[k] = off[n] + M(k) + (IF k < N THEN 2 ELSE 0)
        /\ w[off[n] + 1] = Tok(s[k].reason)
        /\ M(k) = 5 => /\ w[off[n] + 2] = Semi /\ w[off[n] + 3] = Tok("session_identifier")
                       /\ w[off[n] + 4] = Equal /\ w[off[n] + 5] = Str(x)
        /\ k < N => w[off[n] + M(k) + 1] = Comma /\ w[off[n] + M(k) + 2] = Space
    BY <1>8, <2>1
  <2>4. M(k) = IF Given(x) THEN 5 ELSE 1 OBVIOUS
  <2>5. AtItem(w, p) BY DEF T
  <2> HIDE DEF M, k, T
  <2>6. /\ p \in Nat /\ m \in Nat /\ q \in Nat /\ q <= Len(w) + 1 /\ M(k) \in {1, 5}
        /\ q = IF k < N THEN m + 2 ELSE m
    <3> DEFINE a == off[n]
               b == off[k]
               c == M(k)
    <3>1. c \in {1, 5} BY <2>4
    <3>2. /\ a \in Nat /\ b \in Nat /\ b <= Len(w) /\ c \in {1, 5}
          /\ b = a + c + (IF k < N THEN 2 ELSE 0) /\ p = a + 1 /\ m = p + c /\ q = b + 1
      BY <2>2, <2>3, <3>1
    <3> HIDE DEF a, b, c, p, m, q
    <3> QED BY <1>7, <3>2 DEF c
  <2>7. q \in m..(Len(w) + 1) /\ m <= Len(w) + 1 BY <1>7, <2>6
  <2>8. WrittenEntry(w, p, m, s[k].reason, x)
    <3>1. CASE Given(x)
      <4>1. M(k) = 5 /\ m = p + 5 BY <2>4, <3>1
      <4>2. (p + 1) + 3 <= Len(w) BY <1>7, <2>6, <2>7, <4>1
      <4>3. /\ p + 1 = off[n] + 2 /\ (p + 1) + 1 = off[n] + 3 /\ (p + 1) + 2 = off[n] + 4
            /\ (p + 1) + 3 = off[n] + 5
        BY <2>2
      <4>4. WrittenParam(w, p + 1, "session_identifier", x) BY <2>3, <4>1, <4>2, <4>3 DEF WrittenParam
      <4> QED BY <2>3, <2>7, <3>1, <4>1, <4>4 DEF WrittenEntry
    <3>2. CASE ~Given(x)
      <4>1. m = p + 1 BY <2>4, <3>2
      <4> QED BY <2>3, <2>7, <3>2, <4>1 DEF WrittenEntry
    <3> QED BY <3>1, <3>2
  <2>9. Separates(w, m, q) /\ (m > Len(w) \/ w[m].k # "semi") /\ (q > Len(w) \/ w[q].k = "tok")
    <3>1. CASE k < N
      <4>1. m = off[n] + M(k) + 1 /\ m + 1 = off[n] + M(k) + 2 /\ q = m + 2 BY <2>2, <2>6, <3>1
      <4>2. w[m].k = "comma" /\ w[m + 1].k = "space" BY <2>3, <3>1, <4>1, LexemeKinds
      <4>3. \A j \in m..(q - 1) : j = m \/ j = m + 1 BY <2>6, <4>1
      <4>4. k + 1 \in 1..N /\ (k + 1) - 1 = k BY <1>2, <2>1, <3>1
      <4>5. w[off[k] + 1] = Tok(s[k + 1].reason) BY <1>8, <4>4
      <4>6. w[q].k = "tok" BY <4>5, LexemeKinds
      <4> QED BY <4>2, <4>3, <4>6 DEF Separates
    <3>2. CASE ~(k < N)
      <4>1. k = N /\ q = m BY <1>2, <2>1, <2>6, <3>2
      <4>2. q = Len(w) + 1 /\ q > Len(w) /\ m..(q - 1) = {} BY <1>6, <1>7, <2>6, <4>1
      <4> QED BY <4>1, <4>2 DEF Separates
    <3> QED BY <3>1, <3>2
  <2>10. /\ AtItem(w, q)
         /\ EntriesUpTo(w, q - 1) =
              IF s[k].reason \in ValidReasons /\ Given(x)
              THEN Append(EntriesUpTo(w, p - 1), [reason |-> s[k].reason, session_id |-> x])
              ELSE EntriesUpTo(w, p - 1)
    <3> HIDE DEF p, m, q, x
    <3> QED BY <1>3, <2>5, <2>7, <2>8, <2>9, WrittenEntryReads
  <2>11. q - 1 = off[k] /\ p - 1 = off[n] BY <2>2
  <2>12. s[k] = [reason |-> s[k].reason, session_id |-> x] BY <1>1, <1>2, <2>1
  <2>13. Up(k) = ReadableStep(s, k, Up(n)) BY <2>10, <2>11, <2>12 DEF ReadableStep
  <2> QED BY <2>1, <2>2, <2>10, <2>13 DEF T, k
<1>11. T = 0..N
  <2> HIDE DEF T
  <2> QED BY <1>2, <1>9, <1>10, BoundedInduction
<1> DEFINE h == [n \in 0..N |-> Up(n)]
<1>12. Readable(s) = h[N]
  <2>1. h[0] = <<>>
    <3>1. Up(0) = <<>> BY <1>3, <1>6, EntriesRounds
    <3> QED BY <1>2, <3>1
  <2>2. ASSUME NEW n \in 1..N PROVE h[n] = ReadableStep(s, n, h[n - 1])
    <3>1. n \in 0..N /\ n - 1 \in 0..N /\ n # 0 BY <1>2
    <3>2. Up(n) = ReadableStep(s, n, Up(n - 1)) BY <1>11, <3>1
    <3>3. h[n] = Up(n) /\ h[n - 1] = Up(n - 1) BY <3>1
    <3> HIDE DEF h, Up
    <3> QED BY <3>2, <3>3
  <2> HIDE DEF h
  <2> QED BY <1>2, <2>1, <2>2, ReadableIs DEF N
<1>13. EntriesOf(w) = Readable(s)
  <2>1. h[N] = EntriesUpTo(w, Len(w)) BY <1>2, <1>6
  <2> QED BY <1>3, <1>12, <2>1, EntriesRounds
<1>14. Accepted(w)
  <2>1. AtItem(w, Len(w) + 1)
    <3>1. N \in T BY <1>2, <1>11
    <3> QED BY <1>6, <3>1
  <2>2. Separates(w, Len(w) + 1, Len(w) + 1) BY <1>7 DEF Separates
  <2> QED BY <1>3, <2>1, <2>2, ItemsEnd
<1> QED BY <1>13, <1>14 DEF w

\* The name of a parameter as the serialisers write it.
LEMMA WrittenKey ==
  ASSUME NEW v, NEW p \in Nat, 1 <= p, v[p + 1].k = "tok", v[p + 2].k = "equal"
  PROVE  KeyOf(v, p + 3) = v[p + 1].v
<1> DEFINE a == p + 1
           b == p + 2
           c == p + 3
<1>1. a \in Nat /\ b \in Nat /\ c \in Nat /\ 1 <= a /\ a < b /\ 1 <= b /\ b < c
      /\ Blank(v, a + 1, b) /\ Blank(v, b + 1, c) /\ v[a].k = "tok" /\ v[b].k = "equal"
  BY DEF Blank
<1> HIDE DEF a, b, c
<1>2. Before(v, c) = b /\ Before(v, b) = a BY <1>1, BeforeAt
<1>3. KeyOf(v, c) = v[a].v BY <1>1, <1>2, Zenon DEF KeyOf
<1> QED BY <1>3 DEF a, c

\* The strings of a text up to position n, with their names.
PairsTo(v, n) == {<<KeyOf(v, j), v[j].v>> : j \in {i \in 1..n : v[i].k = "str"}}

\* A parameter that is written adds its name and its value.
LEMMA WrittenPair ==
  ASSUME NEW v, NEW p \in Nat, 1 <= p, NEW name, NEW x, WrittenParam(v, p, name, x)
  PROVE  PairsTo(v, p + 3) = PairsTo(v, p - 1) \cup {<<name, x>>}
<1>1. /\ v[p].k = "semi" /\ v[p + 1].k = "tok" /\ v[p + 1].v = name /\ v[p + 2].k = "equal"
      /\ v[p + 3].k = "str" /\ v[p + 3].v = x
  BY LexemeKinds DEF WrittenParam
<1>2. KeyOf(v, p + 3) = name BY <1>1, WrittenKey
<1>3. {i \in 1..(p + 3) : v[i].k = "str"} = {i \in 1..(p - 1) : v[i].k = "str"} \cup {p + 3}
  <2>1. \A i \in 1..(p + 3) : i \in 1..(p - 1) \/ i = p \/ i = p + 1 \/ i = p + 2 \/ i = p + 3
    OBVIOUS
  <2>2. \A i \in 1..(p - 1) : i \in 1..(p + 3) OBVIOUS
  <2>3. p + 3 \in 1..(p + 3) OBVIOUS
  <2> QED BY <1>1, <2>1, <2>2, <2>3
<1>4. PairsTo(v, p + 3) = PairsTo(v, p - 1) \cup {<<KeyOf(v, p + 3), v[p + 3].v>>}
  <2> DEFINE S == {i \in 1..(p - 1) : v[i].k = "str"}
             Q == {i \in 1..(p + 3) : v[i].k = "str"}
             k == p + 3
  <2>1. Q = S \cup {k} BY <1>3
  <2>2. PairsTo(v, k) = {<<KeyOf(v, j), v[j].v>> : j \in Q} BY DEF PairsTo
  <2>3. PairsTo(v, p - 1) = {<<KeyOf(v, j), v[j].v>> : j \in S} BY DEF PairsTo
  <2> HIDE DEF S, Q, k
  <2>4. {<<KeyOf(v, j), v[j].v>> : j \in Q} =
          {<<KeyOf(v, j), v[j].v>> : j \in S} \cup {<<KeyOf(v, k), v[k].v>>}
    BY <2>1
  <2> QED BY <2>2, <2>3, <2>4 DEF k
<1> QED BY <1>1, <1>2, <1>4

\* The list of algorithms stands for one item, as a token does.
AsToken(v) == [v EXCEPT ![1] = Tok("algorithms")]

\* A function on 1..N is a sequence.
LEMMA FunctionSequence ==
  ASSUME NEW S, NEW N \in Nat, NEW f \in [1..N -> S]
  PROVE  f \in Seq(S) /\ Len(f) = N
OBVIOUS

\* A registration header is made of its algorithms and its parameters.
LEMMA RegistrationIs ==
  ASSUME NEW r
  PROVE  LET v == registration_serialize(r)
             x(i) == r.params[i]
             t(i) == Param(RegistrationParams[i], x(i))
         IN /\ Len(v) \in Nat /\ DOMAIN v = 1..Len(v) /\ v[1].k = "algorithms"
            /\ IsText(AsToken(v)) /\ Len(AsToken(v)) = Len(v) /\ AsToken(v)[1].k = "tok"
            /\ \A i \in 2..Len(v) : AsToken(v)[i] = v[i]
            /\ \A i \in DOMAIN v : v[i].k = "str" => v[i].v \notin DOMAIN TornStrings
            /\ \E off \in [0..6 -> Nat] :
                 /\ off[0] = 0 /\ Len(v) = off[6] + 1
                 /\ \A n \in 1..6 : /\ off[n] = off[n - 1] + Len(t(n))
                                    /\ \A i \in 1..Len(t(n)) : v[off[n - 1] + 1 + i] = t(n)[i]
<1> DEFINE x(i) == r.params[i]
           t(i) == Param(RegistrationParams[i], x(i))
           A == {Semi, Equal} \cup {Tok(RegistrationParams[i]) : i \in 1..6}
                  \cup UNION {Range(Quoted(x(i))) : i \in {j \in 1..6 : Given(x(j))}}
           alg == Lexeme("algorithms", r.algorithms)
           B == A \cup {alg}
           C == A \cup {Tok("algorithms")}
           parts == [i \in 1..6 |-> t(i)]
           F == FlattenSeq(parts)
           v == registration_serialize(r)
           w == AsToken(v)
<1>1. v = <<alg>> \o F
  <2>1. DOMAIN RegistrationParams = 1..6 BY DEF RegistrationParams
  <2> QED BY <2>1 DEF registration_serialize
<1>2. ASSUME NEW i \in 1..6 PROVE t(i) \in Seq(A)
  <2>1. Semi \in A /\ Equal \in A /\ Tok(RegistrationParams[i]) \in A 
        /\ (Given(x(i)) => Range(Quoted(x(i))) \subseteq A)
    OBVIOUS
  <2> HIDE DEF A
  <2> QED BY <2>1, ParamText DEF ParamWritten
<1>3. \A l \in A : WholeLexeme(l)
  <2> SUFFICES ASSUME NEW l \in A PROVE WholeLexeme(l)
    OBVIOUS
  <2>1. CASE l \in {Semi, Equal} BY <2>1, LexemeKinds DEF Kinds, WholeLexeme
  <2>2. CASE l \in {Tok(RegistrationParams[i]) : i \in 1..6}
    BY <2>2, LexemeKinds DEF Kinds, WholeLexeme
  <2>3. CASE l \in UNION {Range(Quoted(x(i))) : i \in {j \in 1..6 : Given(x(j))}}
    <3>1. PICK i \in 1..6 : Given(x(i)) /\ l \in Range(Quoted(x(i))) BY <2>3
    <3> QED BY <3>1, ValueText
  <2> QED BY <2>1, <2>2, <2>3
<1>4. \A l \in C : l.k \in Kinds /\ (l.k = "str" => l.v # Nil)
  BY <1>3, LexemeKinds DEF Kinds, WholeLexeme
<1>5. alg.k = "algorithms" BY DEF Lexeme
<1> HIDE DEF A, alg
<1>6. parts \in Seq(Seq(A)) /\ Len(parts) = 6 /\ \A i \in 1..6 : parts[i] = t(i)
  <2>1. parts \in [1..6 -> Seq(A)] /\ \A i \in 1..6 : parts[i] = t(i) BY <1>2
  <2>2. 6 \in Nat OBVIOUS
  <2> HIDE DEF parts
  <2>3. parts \in Seq(Seq(A)) /\ Len(parts) = 6 BY <2>1, <2>2, FunctionSequence
  <2> QED BY <2>1, <2>3
<1> HIDE DEF parts, t
<1>7. F \in Seq(A) /\ \E off : MadeOf(F, parts, off) BY <1>6, FlattenIs
<1>8. PICK off : MadeOf(F, parts, off) BY <1>7
<1> HIDE DEF F
<1>9. /\ off \in [0..6 -> Nat] /\ off[0] = 0 /\ Len(F) = off[6]
      /\ \A n \in 1..6 : /\ off[n] = off[n - 1] + Len(t(n))
                         /\ \A i \in 1..Len(t(n)) : F[off[n - 1] + i] = t(n)[i]
  <2> DEFINE N == Len(parts)
  <2>1. /\ off \in [0..N -> Nat] /\ off[0] = 0 /\ Len(F) = off[N]
        /\ \A n \in 1..N : /\ off[n] = off[n - 1] + Len(parts[n])
                           /\ \A i \in 1..Len(parts[n]) : F[off[n - 1] + i] = parts[n][i]
    BY <1>8 DEF MadeOf
  <2>2. N = 6 BY <1>6
  <2> HIDE DEF N
  <2>3. /\ off \in [0..6 -> Nat] /\ off[0] = 0 /\ Len(F) = off[6]
        /\ \A n \in 1..6 : /\ off[n] = off[n - 1] + Len(parts[n])
                           /\ \A i \in 1..Len(parts[n]) : F[off[n - 1] + i] = parts[n][i]
    BY <2>1, <2>2
  <2>4. \A n \in 1..6 : parts[n] = t(n) BY <1>6
  <2>5. ASSUME NEW n \in 1..6
        PROVE  /\ off[n] = off[n - 1] + Len(t(n))
               /\ \A i \in 1..Len(t(n)) : F[off[n - 1] + i] = t(n)[i]
    <3>1. parts[n] = t(n) BY <2>4
    <3>2. /\ off[n] = off[n - 1] + Len(parts[n])
          /\ \A i \in 1..Len(parts[n]) : F[off[n - 1] + i] = parts[n][i]
      BY <2>3
    <3> QED BY <3>1, <3>2
  <2> QED BY <2>3, <2>5
<1>10. <<alg>> \in Seq(B) /\ F \in Seq(B) /\ Len(<<alg>>) = 1 /\ <<alg>>[1] = alg BY <1>7
<1>11. /\ v \in Seq(B) /\ Len(v) = 1 + Len(F) /\ v[1] = alg
       /\ \A m \in 1..Len(F) : v[1 + m] = F[m]
  <2>1. Joins(B, <<alg>>, F) BY <1>10, Joined
  <2> QED BY <1>1, <1>10, <2>1 DEF Joins
<1>12. Len(F) \in Nat /\ Len(v) \in Nat /\ DOMAIN v = 1..Len(v) BY <1>7, <1>11
<1> HIDE DEF v
<1>13. /\ DOMAIN w = 1..Len(v) /\ w[1] = Tok("algorithms")
       /\ \A i \in 2..Len(v) : w[i] = v[i]
  BY <1>11, <1>12 DEF AsToken
<1>14. w \in Seq(C) /\ Len(w) = Len(v)
  <2>1. ASSUME NEW i \in 1..Len(v) PROVE w[i] \in C
    <3>1. CASE i = 1 BY <1>13, <3>1
    <3>2. CASE i # 1
      <4>1. i \in 2..Len(v) /\ i - 1 \in 1..Len(F) /\ 1 + (i - 1) = i BY <1>11, <1>12, <3>2
      <4>2. w[i] = F[i - 1] BY <1>11, <1>13, <4>1
      <4> QED BY <1>7, <4>1, <4>2
    <3> QED BY <3>1, <3>2
  <2>2. w = [i \in 1..Len(v) |-> w[i]] BY <1>13 DEF AsToken
  <2> HIDE DEF w, C
  <2>3. w \in [1..Len(v) -> C] BY <2>1, <2>2
  <2> QED BY <1>12, <2>3
<1>15. IsText(w) /\ w[1].k = "tok"
  <2> HIDE DEF w, C
  <2> QED BY <1>4, <1>13, <1>14, LexemeKinds, TextOf
<1>16. ASSUME NEW n \in 1..6, NEW i \in 1..Len(t(n)) PROVE v[off[n - 1] + 1 + i] = t(n)[i]
  <2>0. ASSUME NEW j \in 1..6
        PROVE  /\ off[j - 1] \in Nat /\ off[j] \in Nat /\ Len(t(j)) \in Nat
               /\ off[j] = off[j - 1] + Len(t(j))
    <3>1. j - 1 \in 0..6 /\ j \in 0..6 OBVIOUS
    <3>2. t(j) \in Seq(A) BY <1>2
    <3>3. Len(t(j)) \in Nat BY <3>2
    <3>4. off[j - 1] \in Nat /\ off[j] \in Nat BY <1>9, <3>1
    <3> QED BY <1>9, <3>3, <3>4
  <2>1. off[n - 1] \in Nat /\ off[n] \in Nat BY <2>0
  <2>2. Len(t(n)) \in Nat BY <2>0
  <2>3. ASSUME NEW j \in 1..6 PROVE off[j - 1] <= off[j]
    <3> DEFINE a == off[j - 1]
               b == off[j]
               l == Len(t(j))
    <3>1. a \in Nat /\ l \in Nat /\ b = a + l BY <2>0
    <3> HIDE DEF a, b, l
    <3>2. a <= b BY <3>1
    <3> QED BY <3>2 DEF a, b
  <2>4. off[n] <= off[6]
    <3>1. 6 \in Nat /\ n \in 0..6 OBVIOUS
    <3>2. off \in [0..6 -> Nat] BY <1>9
    <3>3. \A j \in 0..6 : off[j] <= off[6] BY <2>3, <3>1, <3>2, PartsInside
    <3> QED BY <3>1, <3>3
  <2>5. off[n] = off[n - 1] + Len(t(n)) BY <1>9
  <2>6. off[n - 1] + i \in 1..Len(F) /\ 1 + (off[n - 1] + i) = off[n - 1] + 1 + i
    <3> DEFINE a == off[n - 1]
               b == off[n]
               c == off[6]
               l == Len(t(n))
    <3>1. a \in Nat /\ b \in Nat /\ l \in Nat /\ b = a + l /\ b <= c /\ Len(F) = c /\ c \in Nat
      BY <1>9, <1>12, <2>1, <2>2, <2>4, <2>5
    <3>2. i \in 1..l OBVIOUS
    <3> HIDE DEF a, b, c, l
    <3> QED BY <3>1, <3>2 DEF a
  <2>7. F[off[n - 1] + i] = t(n)[i] BY <1>9
  <2> QED BY <1>11, <2>6, <2>7
<1>17. Len(v) = off[6] + 1 BY <1>9, <1>11, <1>12
<1>18. v[1].k = "algorithms" BY <1>5, <1>11
<1>19. ASSUME NEW i \in DOMAIN v, v[i].k = "str" PROVE v[i].v \notin DOMAIN TornStrings
  <2>1. i # 1 BY <1>18, <1>19
  <2>2. i - 1 \in 1..Len(F) /\ 1 + (i - 1) = i BY <1>11, <1>12, <2>1
  <2>3. v[i] = F[i - 1] BY <1>11, <2>2
  <2>4. F[i - 1] \in A BY <1>7, <2>2
  <2> QED BY <1>3, <1>19, <2>3, <2>4 DEF WholeLexeme
<1> HIDE DEF w
<1> QED BY <1>9, <1>12, <1>13, <1>14, <1>15, <1>16, <1>17, <1>18, <1>19 DEF v, w, t

\* A registration header reads back as the arguments it was written from, if
\* none of them has a bare quote.
LEMMA RegistrationReads ==
  ASSUME NEW r, \A i \in 1..6 : Given(r.params[i]) => r.params[i] \notin DOMAIN TornStrings
  PROVE  LET v == registration_serialize(r)
             given == {i \in 1..6 : Given(r.params[i])}
         IN /\ Accepted(AsToken(v))
            /\ {<<KeyOf(v, i), v[i].v>> : i \in {j \in DOMAIN v : v[j].k = "str"}} =
                 {<<RegistrationParams[i], r.params[i]>> : i \in given}
<1> DEFINE x(i) == r.params[i]
           t(i) == Param(RegistrationParams[i], x(i))
           v == registration_serialize(r)
           w == AsToken(v)
<1>1. /\ Len(v) \in Nat /\ DOMAIN v = 1..Len(v) /\ v[1].k = "algorithms"
      /\ IsText(w) /\ Len(w) = Len(v) /\ w[1].k = "tok"
      /\ \A i \in 2..Len(v) : w[i] = v[i]
      /\ \E off \in [0..6 -> Nat] :
           /\ off[0] = 0 /\ Len(v) = off[6] + 1
           /\ \A n \in 1..6 : /\ off[n] = off[n - 1] + Len(t(n))
                              /\ \A i \in 1..Len(t(n)) : v[off[n - 1] + 1 + i] = t(n)[i]
  BY RegistrationIs
<1> HIDE DEF v, w
<1>2. PICK off \in [0..6 -> Nat] :
        /\ off[0] = 0 /\ Len(v) = off[6] + 1
        /\ \A n \in 1..6 : /\ off[n] = off[n - 1] + Len(t(n))
                           /\ \A i \in 1..Len(t(n)) : v[off[n - 1] + 1 + i] = t(n)[i]
  BY <1>1
<1>3. ASSUME NEW n \in 1..6
      PROVE  /\ ~Given(x(n)) => Len(t(n)) = 0
             /\ Given(x(n)) => /\ Len(t(n)) = 4 /\ t(n)[1] = Semi /\ t(n)[2] = Tok(RegistrationParams[n])
                               /\ t(n)[3] = Equal /\ t(n)[4] = Str(x(n))
  <2> DEFINE nm == RegistrationParams[n]
             y == x(n)
             A == {Semi, Equal, Tok(nm)} \cup Range(Quoted(y))
  <2>0. Given(y) => y \notin DOMAIN TornStrings OBVIOUS
  <2> HIDE DEF nm, y
  <2>1. Semi \in A /\ Equal \in A /\ Tok(nm) \in A /\ Range(Quoted(y)) \subseteq A OBVIOUS
  <2> HIDE DEF A
  <2>2. ParamWritten(A, nm, y) BY <2>1, ParamText
  <2> QED BY <2>0, <2>2 DEF nm, y, ParamWritten
<1> HIDE DEF t
<1>l. Len(v) \in Nat /\ Len(w) \in Nat /\ Len(w) = Len(v) /\ Len(v) = off[6] + 1 BY <1>1, <1>2
<1>4. ASSUME NEW n \in 0..6 PROVE off[n] <= off[6] /\ off[n] \in Nat
  <2>1. ASSUME NEW j \in 1..6 PROVE off[j - 1] <= off[j]
    <3>0. j - 1 \in 0..6 OBVIOUS
    <3>1. off[j - 1] \in Nat /\ off[j] = off[j - 1] + Len(t(j)) BY <1>2, <3>0
    <3>2. Len(t(j)) = 0 \/ Len(t(j)) = 4 BY <1>3
    <3> QED BY <3>1, <3>2
  <2>2. 6 \in Nat OBVIOUS
  <2>3. \A j \in 0..6 : off[j] <= off[6] BY <2>1, <2>2, PartsInside
  <2> QED BY <2>3
<1> DEFINE Gave(n) == {<<RegistrationParams[i], x(i)>> : i \in {j \in 1..n : Given(x(j))}}
           Good(n) == InItem(w, off[n] + 2, 1) /\ PairsTo(v, off[n] + 1) = Gave(n)
           T == {n \in 0..6 : Good(n)}
<1>5. T \subseteq 0..6 /\ 0 \in T
  <2>1. AtItem(w, 1) BY <1>1, StartAtItem
  <2>2. off[6] \in Nat BY <1>4
  <2>3. 1 \in 1..Len(w) BY <1>l, <2>2
  <2>4. Separates(w, 1, 1) BY DEF Separates
  <2>5. InItem(w, 1 + 1, 1) BY <1>1, <2>1, <2>3, <2>4, ItemStarts
  <2>6. PairsTo(v, 1) = {}
    <3>1. \A j \in 1..1 : v[j].k # "str"
      <4>1. \A j \in 1..1 : j = 1 OBVIOUS
      <4>2. v[1].k = "algorithms" BY <1>1
      <4> QED BY <4>1, <4>2
    <3> QED BY <3>1 DEF PairsTo
  <2>7. Gave(0) = {} OBVIOUS
  <2>8. off[0] + 2 = 1 + 1 /\ off[0] + 1 = 1 BY <1>2
  <2>9. Good(0) BY <2>5, <2>6, <2>7, <2>8
  <2> QED BY <2>9
<1>6. ASSUME NEW n \in T, n < 6 PROVE n + 1 \in T
  <2> DEFINE k == n + 1
             name == RegistrationParams[k]
             p == off[n] + 2
  <2>1. n \in Nat /\ k \in 1..6 /\ k \in 0..6 /\ k - 1 = n /\ n \in 0..6 BY <1>6
  <2>2. Good(n) BY DEF T
  <2>3. /\ off[n] \in Nat /\ off[k] \in Nat /\ off[k] <= off[6] /\ off[k] = off[n] + Len(t(k))
        /\ \A i \in 1..Len(t(k)) : v[off[n] + 1 + i] = t(k)[i]
    BY <1>2, <1>4, <2>1
  <2>4. Good(k)
    <3>1. CASE ~Given(x(k))
      <4>1. Len(t(k)) = 0 BY <1>3, <2>1, <3>1
      <4>2. off[k] = off[n] BY <2>3, <4>1
      <4>3. {j \in 1..k : Given(x(j))} = {j \in 1..n : Given(x(j))}
        <5>1. \A j \in 1..k : j = k \/ j \in 1..n BY <2>1
        <5>2. \A j \in 1..n : j \in 1..k BY <2>1
        <5> HIDE DEF k
        <5> QED BY <3>1, <5>1, <5>2
      <4>4. Gave(k) = Gave(n) BY <4>3
      <4> HIDE DEF Gave, k
      <4> QED BY <2>2, <4>2, <4>4
    <3>2. CASE Given(x(k))
      <4>1. /\ Len(t(k)) = 4 /\ t(k)[1] = Semi /\ t(k)[2] = Tok(name)
            /\ t(k)[3] = Equal /\ t(k)[4] = Str(x(k))
        BY <1>3, <2>1, <3>2
      <4> HIDE DEF name
      <4>2. v[off[n] + 1 + 1] = Semi /\ v[off[n] + 1 + 2] = Tok(name) /\ v[off[n] + 1 + 3] = Equal
            /\ v[off[n] + 1 + 4] = Str(x(k))
        <5>1. 1 \in 1..4 /\ 2 \in 1..4 /\ 3 \in 1..4 /\ 4 \in 1..4 OBVIOUS
        <5> QED BY <2>3, <4>1, <5>1
      <4>3. /\ off[n] + 1 + 1 = p /\ off[n] + 1 + 2 = p + 1 /\ off[n] + 1 + 3 = p + 2
            /\ off[n] + 1 + 4 = p + 3 /\ p \in Nat /\ 1 <= p /\ p - 1 = off[n] + 1
            /\ off[k] + 2 = p + 4 /\ off[k] + 1 = p + 3 /\ p + 3 <= Len(v) /\ p >= 2
        <5> DEFINE a == off[n]
                   b == off[k]
                   c == off[6]
                   l == Len(v)
        <5>1. a \in Nat /\ b = a + 4 /\ b <= c /\ c \in Nat /\ l = c + 1
          <6>1. off[6] \in Nat BY <1>4
          <6> QED BY <1>l, <2>3, <4>1, <6>1
        <5> HIDE DEF a, b, c, l
        <5>2. /\ a + 1 + 1 = a + 2 /\ a + 1 + 2 = (a + 2) + 1 /\ a + 1 + 3 = (a + 2) + 2
              /\ a + 1 + 4 = (a + 2) + 3 /\ a + 2 \in Nat /\ 1 <= a + 2 /\ (a + 2) - 1 = a + 1
              /\ b + 2 = (a + 2) + 4 /\ b + 1 = (a + 2) + 3 /\ (a + 2) + 3 <= l /\ a + 2 >= 2
          BY <5>1
        <5> QED BY <5>2 DEF a, b, l
      <4> HIDE DEF p
      <4>4. WrittenParam(v, p, name, x(k)) BY <4>2, <4>3 DEF WrittenParam
      <4>5. WrittenParam(w, p, name, x(k))
        <5>1. p \in 2..Len(v) /\ p + 1 \in 2..Len(v) /\ p + 2 \in 2..Len(v) /\ p + 3 \in 2..Len(v)
          <6> DEFINE l == Len(v)
          <6>1. l \in Nat /\ p \in Nat /\ p >= 2 /\ p + 3 <= l BY <1>l, <4>3
          <6> HIDE DEF l
          <6>2. p \in 2..l /\ p + 1 \in 2..l /\ p + 2 \in 2..l /\ p + 3 \in 2..l BY <6>1
          <6> QED BY <6>2 DEF l
        <5>2. w[p] = v[p] /\ w[p + 1] = v[p + 1] /\ w[p + 2] = v[p + 2] /\ w[p + 3] = v[p + 3]
          BY <1>1, <5>1
        <5> QED BY <1>1, <4>4, <5>2 DEF WrittenParam
      <4>6. InItem(w, p, 1) BY <2>2 DEF p
      <4>7. InItem(w, p + 4, 1) BY <1>1, <4>5, <4>6, WrittenParamReads
      <4>8. PairsTo(v, p + 3) = PairsTo(v, p - 1) \cup {<<name, x(k)>>}
        <5> DEFINE y == x(k)
        <5>1. p \in Nat /\ 1 <= p BY <4>3
        <5>2. WrittenParam(v, p, name, y) BY <4>4
        <5> HIDE DEF y
        <5>3. PairsTo(v, p + 3) = PairsTo(v, p - 1) \cup {<<name, y>>} BY <5>1, <5>2, WrittenPair
        <5> QED BY <5>3 DEF y
      <4>9. {j \in 1..k : Given(x(j))} = {j \in 1..n : Given(x(j))} \cup {k}
        <5>1. \A j \in 1..k : j = k \/ j \in 1..n BY <2>1
        <5>2. \A j \in 1..n : j \in 1..k BY <2>1
        <5>3. k \in 1..k BY <2>1
        <5> HIDE DEF k
        <5> QED BY <3>2, <5>1, <5>2, <5>3
      <4>10. Gave(k) = Gave(n) \cup {<<name, x(k)>>}
        <5> HIDE DEF k
        <5> QED BY <4>9 DEF name
      <4>11. PairsTo(v, off[k] + 1) = Gave(k)
        <5> HIDE DEF Gave, k
        <5> QED BY <2>2, <4>3, <4>8, <4>10
      <4> QED BY <4>3, <4>7, <4>11
    <3> QED BY <3>1, <3>2
  <2> QED BY <2>1, <2>4
<1>7. 6 \in T
  <2> HIDE DEF T
  <2>1. 6 \in Nat OBVIOUS
  <2>2. T = 0..6 BY <1>5, <1>6, <2>1, BoundedInduction
  <2> QED BY <2>2
<1>8. InItem(w, Len(w) + 1, 1) /\ PairsTo(v, Len(v)) = Gave(6)
  <2>1. Good(6) BY <1>7
  <2>0. off[6] \in Nat BY <1>4
  <2>2. off[6] + 2 = Len(w) + 1 BY <1>l, <2>0
  <2> HIDE DEF Gave
  <2> QED BY <1>2, <2>1, <2>2
<1>9. Accepted(w)
  <2>1. Len(w) + 1 > Len(w) BY <1>l
  <2>2. AtItem(w, Len(w) + 1) BY <1>1, <1>8, <2>1, ItemEnds
  <2>3. Separates(w, Len(w) + 1, Len(w) + 1) BY <1>l DEF Separates
  <2> QED BY <1>1, <2>2, <2>3, ItemsEnd
<1> QED BY <1>1, <1>8, <1>9 DEF PairsTo, v, w

\* An argument with a bare quote is not among the values of the header.
LEMMA TornLost ==
  ASSUME NEW r, NEW i \in 1..6, r.params[i] \in DOMAIN TornStrings
  PROVE  LET v == registration_serialize(r)
         IN \A q : <<q, r.params[i]>> \notin
                    {<<KeyOf(v, k), v[k].v>> : k \in {j \in DOMAIN v : v[j].k = "str"}}
<1> DEFINE v == registration_serialize(r)
           x == r.params[i]
<1>1. \A k \in DOMAIN v : v[k].k = "str" => v[k].v \notin DOMAIN TornStrings BY RegistrationIs
<1>2. x \in DOMAIN TornStrings OBVIOUS
<1> HIDE DEF v, x
<1>3. ASSUME NEW q, <<q, x>> \in {<<KeyOf(v, k), v[k].v>> : k \in {j \in DOMAIN v : v[j].k = "str"}}
      PROVE  FALSE
  <2>1. PICK k \in DOMAIN v : v[k].k = "str" /\ <<q, x>> = <<KeyOf(v, k), v[k].v>> BY <1>3
  <2>2. x = v[k].v BY <2>1
  <2> QED BY <1>1, <1>2, <2>1, <2>2
<1> QED BY <1>3 DEF v, x

\* The identifier of an entry is a string of the header.
LEMMA EntryStrings ==
  ASSUME NEW v, IsText(v), NEW n \in DOMAIN EntriesOf(v)
  PROVE  \E j \in DOMAIN v : v[j].k = "str" /\ EntriesOf(v)[n].session_id = v[j].v
<1> DEFINE N == Len(v)
           Strs == {v[j].v : j \in {i \in 1..N : v[i].k = "str"}}
           E == [reason : {v[i].v : i \in 1..N}, session_id : Strs]
           T == {m \in 0..N : EntriesUpTo(v, m) \in Seq(E)}
<1>1. N \in Nat /\ DOMAIN v = 1..N BY TextFacts
<1>2. /\ EntriesUpTo(v, 0) = <<>> /\ EntriesOf(v) = EntriesUpTo(v, N)
      /\ \A m \in 1..N : EntriesUpTo(v, m) = EntryStep(v, m, EntriesUpTo(v, m - 1))
  BY EntriesRounds
<1>3. ASSUME NEW m \in 1..N, NEW c \in Seq(E) PROVE EntryStep(v, m, c) \in Seq(E)
  <2> DEFINE k == Max(IdentifiersAt(v, m))
             e == [reason |-> v[m].v, session_id |-> v[k].v]
  <2>1. CASE IdentifiersAt(v, m) # {}
    <3>1. k \in 1..N /\ k \in IdentifiersAt(v, m) BY <2>1, IdentifiersFacts
    <3>2. v[k].k = "str" BY <3>1 DEF IdentifiersAt
    <3> HIDE DEF k
    <3>3. e \in E BY <3>1, <3>2
    <3> HIDE DEF e, E
    <3>4. Append(c, e) \in Seq(E) BY <3>3
    <3>5. EntryStep(v, m, c) = Append(c, e) \/ EntryStep(v, m, c) = c BY DEF EntryStep, e, k
    <3> QED BY <3>4, <3>5
  <2>2. CASE IdentifiersAt(v, m) = {} BY <2>2 DEF EntryStep
  <2> QED BY <2>1, <2>2
<1> HIDE DEF E, N
<1>4. T \subseteq 0..N /\ 0 \in T
  <2>1. <<>> \in Seq(E) /\ 0 \in 0..N BY <1>1
  <2> QED BY <1>2, <2>1
<1>5. ASSUME NEW m \in T, m < N PROVE m + 1 \in T
  <2>1. m \in Nat /\ m + 1 \in 1..N /\ m + 1 \in 0..N /\ (m + 1) - 1 = m BY <1>1, <1>5
  <2>2. EntriesUpTo(v, m) \in Seq(E) OBVIOUS
  <2>3. EntriesUpTo(v, m + 1) = EntryStep(v, m + 1, EntriesUpTo(v, m)) BY <1>2, <2>1
  <2>4. EntriesUpTo(v, m + 1) \in Seq(E) BY <1>3, <2>1, <2>2, <2>3
  <2> QED BY <2>1, <2>4
<1>6. EntriesUpTo(v, N) \in Seq(E)
  <2> HIDE DEF T
  <2>1. T = 0..N BY <1>1, <1>4, <1>5, BoundedInduction
  <2>2. N \in T BY <1>1, <2>1
  <2> QED BY <2>2 DEF T
<1>7. EntriesOf(v)[n] \in E BY <1>2, <1>6
<1>8. EntriesOf(v)[n].session_id \in Strs BY <1>7 DEF E
<1> QED BY <1>1, <1>8

\* What the serialisers write, the readers of their headers give back, unless
\* a quote in it is bare.
LEMMA WrittenReadsBack ==
  ASSUME HeadersInv, ScanOK
  PROVE  SerializedReadsBack
<1>1. SkippedRoundTrip
  <2> DEFINE back == scan.rc = 0 /\ scan.entries = Readable(source)
  <2> SUFFICES ASSUME source # Nil, scan.rc # Nil
               PROVE  /\ (\A n \in DOMAIN source : Plain(source[n])) => back \/ noMem
                      /\ back => \A n \in DOMAIN Readable(source) :
                           Readable(source)[n].session_id \notin DOMAIN TornStrings
    BY DEF SkippedRoundTrip
  <2>1. source \in EntryLists /\ skipped = session_skipped_serialize(source)
    BY DEF HeadersInv, SourceOK
  <2>2. ASSUME \A n \in DOMAIN source : Plain(source[n]) PROVE back \/ noMem
    <3>1. Accepted(skipped) /\ EntriesOf(skipped) = Readable(source) BY <2>1, <2>2, SerializedReads
    <3>2. scan.rc \in {Nil, 0, -1} BY DEF ScanOK, HeaderTypeOK
    <3> QED BY <3>1, <3>2 DEF HeadersInv, GrammarOK, ParsesAccepted
  <2>3. ASSUME back, NEW n \in DOMAIN Readable(source)
        PROVE  Readable(source)[n].session_id \notin DOMAIN TornStrings
    <3>1. Readable(source) = EntriesOf(skipped)
      BY <2>3 DEF HeadersInv, GrammarOK, ParsesAccepted
    <3>2. /\ IsText(skipped)
          /\ \A i \in DOMAIN skipped : skipped[i].k = "str" => skipped[i].v \notin DOMAIN TornStrings
      BY <2>1, SerializedIs
    <3>3. n \in DOMAIN EntriesOf(skipped) BY <3>1
    <3>4. PICK j \in DOMAIN skipped : /\ skipped[j].k = "str"
                                      /\ EntriesOf(skipped)[n].session_id = skipped[j].v
      BY <3>2, <3>3, EntryStrings
    <3> QED BY <3>1, <3>2, <3>4
  <2> QED BY <2>2, <2>3
<1>2. RegistrationReadsBack
  <2> SUFFICES ASSUME sent # Nil PROVE RegistrationReadsBack
    BY DEF RegistrationReadsBack
  <2>1. PICK r : sent = [of |-> r, value |-> registration_serialize(r)] BY DEF HeadersInv, SourceOK
  <2>2. sent.of = r /\ sent.value = registration_serialize(r) BY <2>1
  <2>3. DOMAIN RegistrationParams = 1..6 BY DEF RegistrationParams
  <2> DEFINE v == registration_serialize(r)
             given == {i \in 1..6 : Given(r.params[i])}
             read == {<<KeyOf(v, i), v[i].v>> : i \in {j \in DOMAIN v : v[j].k = "str"}}
             gave == {<<RegistrationParams[i], r.params[i]>> : i \in given}
             whole == \A i \in given : r.params[i] \notin DOMAIN TornStrings
  <2>4. whole => Accepted(AsToken(v)) /\ read = gave
    <3> SUFFICES ASSUME whole PROVE Accepted(AsToken(v)) /\ read = gave
      OBVIOUS
    <3>1. \A i \in 1..6 : Given(r.params[i]) => r.params[i] \notin DOMAIN TornStrings OBVIOUS
    <3> QED BY <3>1, RegistrationReads
  <2>5. ASSUME read = gave PROVE whole
    <3> SUFFICES ASSUME NEW i \in given, r.params[i] \in DOMAIN TornStrings PROVE FALSE
      OBVIOUS
    <3>1. <<RegistrationParams[i], r.params[i]>> \in gave OBVIOUS
    <3>2. i \in 1..6 OBVIOUS
    <3> HIDE DEF gave, given
    <3>3. <<RegistrationParams[i], r.params[i]>> \notin read BY <3>2, TornLost
    <3> HIDE DEF read
    <3> QED BY <2>5, <3>1, <3>3
  <2>6. (Accepted(AsToken(v)) /\ read = gave) <=> whole
    <3> HIDE DEF read, gave, whole, v
    <3> QED BY <2>4, <2>5
  <2> QED BY <2>2, <2>3, <2>6 DEF RegistrationReadsBack, AsToken
<1> QED BY <1>1, <1>2 DEF SerializedReadsBack

\* What session_skipped_serialize writes is read back as the readable entries
\* of the list unless an allocation fails, and what registration_serialize
\* writes as the arguments that were given, for lists of any length and any
\* arguments whose reasons are tokens and whose strings have no bare quote;
\* a string with a bare quote never comes back, since nothing is escaped.
THEOREM SerializersReadBack == Spec => []SerializedReadsBack
<1>1. HeadersInv /\ MessagesInv => SerializedReadsBack BY WrittenReadsBack DEF MessagesInv
<1> QED BY <1>1, HeadersInvariant, MessagesInvariant, PTL

-----------------------------------------------------------------------------
(* The handler ends: how many steps are left, at most.                      *)

\* Two for each lexeme that is left (one that takes it, one that ends its
\* item), and one for each entry, of which there are fewer than lexemes.
StepsLeft ==
  CASE scan.pc = "request" -> IF skipped = Nil THEN 1 ELSE 3 * Len(skipped) + 4
    [] scan.pc = "item"    -> 2 * (End - scan.p) + End + 2
    [] scan.pc = "param"   -> 2 * (End - scan.p) + End + 3
    [] scan.pc = "report"  -> Len(scan.entries) - scan.reported + 1
    [] OTHER               -> 0

\* Every entry took a reason from the text.
EntriesCounted ==
  /\ scan.pc = "item" => Len(scan.entries) < scan.p
  /\ scan.pc = "param" => Len(scan.entries) + 1 < scan.p

\* What a turn of the parser's loop does to the position and the entries.
TurnTakes ==
  \/ /\ scan.pc = "request" /\ scan'.pc = "item" /\ skipped # Nil
     /\ scan'.p = 1 /\ Len(scan'.entries) = 0
  \/ /\ scan.pc = "item" /\ scan'.pc = "report"
     /\ scan'.entries = scan.entries /\ scan'.reported = 0
  \/ /\ scan.pc \in {"item", "param"} /\ scan'.pc = "param"
     /\ scan'.p \in (scan.p + 1)..End /\ scan'.entries = scan.entries
  \/ /\ scan.pc = "param" /\ scan'.pc = "item" /\ scan'.p = scan.p
     /\ Len(scan'.entries) \in {Len(scan.entries), Len(scan.entries) + 1}
  \/ scan.pc \in {"request", "item", "param"} /\ scan'.pc = "done"

\* The position of the parser is in the text or at its end.
LEMMA PositionInText ==
  ASSUME GrammarOK, scan.pc \in {"item", "param"}
  PROVE  /\ IsText(skipped) /\ Len(skipped) \in Nat /\ End = Len(skipped) + 1
         /\ scan.p \in 1..End
<1>1. IsText(skipped) BY DEF GrammarOK
<1>2. Len(skipped) \in Nat /\ End = Len(skipped) + 1 BY <1>1, TextFacts DEF End
<1>3. CASE scan.pc = "item" BY <1>1, <1>2, <1>3 DEF GrammarOK, AtItem, ReadTo
<1>4. CASE scan.pc = "param"
  <2>1. PICK s : ItemRead(s) BY <1>4 DEF GrammarOK
  <2> QED BY <1>1, <1>2, <2>1 DEF ItemRead, InItem, ReadTo
<1> QED BY <1>3, <1>4

\* A parameter is taken from the text.
LEMMA ParamTakes ==
  ASSUME ScanOK, GrammarOK, ParseParam
  PROVE  TurnTakes
<1> DEFINE p == scan.p
           key == Skip(p + 1, {"space"})
           named == At(key, "tok")
           from == IF named THEN key + 1 ELSE key
           eq == Skip(from, {"space"})
           val == Skip(eq + 1, {"space"})
<1>1. /\ scan.pc = "param" /\ At(p, "semi")
      /\ \/ scan' = Failed
         \/ /\ At(eq, "equal") /\ At(val, "str")
            /\ \/ scan' = [scan EXCEPT !.p = val + 1]
               \/ scan' = [scan EXCEPT !.p = val + 1, !.session_id = skipped[val].v]
  BY Zenon DEF ParseParam, ParseValue
<1>2. /\ IsText(skipped) /\ End \in Nat /\ p \in Nat /\ 1 <= p /\ p < End
  BY <1>1, PositionInText DEF At
<1>3. p + 1 \in 1..End BY <1>2
<1>4. key \in (p + 1)..End BY <1>2, <1>3, SkipIs
<1> HIDE DEF key
<1>5. from \in (p + 1)..End /\ from \in 1..End BY <1>2, <1>4 DEF At
<1> HIDE DEF from
<1>6. eq \in from..End BY <1>2, <1>5, SkipIs
<1> HIDE DEF eq
<1>7. CASE scan' = Failed
  <2>1. scan'.pc = "done" BY <1>7 DEF ScanOK, ScanFields, Failed
  <2> QED BY <1>1, <2>1 DEF TurnTakes
<1>8. CASE /\ At(eq, "equal") /\ At(val, "str")
           /\ \/ scan' = [scan EXCEPT !.p = val + 1]
              \/ scan' = [scan EXCEPT !.p = val + 1, !.session_id = skipped[val].v]
  <2>1. eq + 1 \in 1..End /\ p + 1 <= eq BY <1>2, <1>5, <1>6, <1>8 DEF At
  <2>2. val \in (eq + 1)..End BY <1>2, <2>1, SkipIs
  <2> HIDE DEF val
  <2>3. val < End BY <1>8 DEF At
  <2>4. scan'.pc = "param" /\ scan'.p = val + 1 /\ scan'.entries = scan.entries
    BY <1>1, <1>8 DEF ScanOK, ScanFields
  <2>5. val + 1 \in (scan.p + 1)..End BY <1>2, <1>6, <2>1, <2>2, <2>3
  <2> QED BY <1>1, <2>4, <2>5 DEF TurnTakes
<1> QED BY <1>1, <1>7, <1>8

\* Every turn of the parser's loop takes something from the text, or ends an
\* item or the text.
LEMMA ParseTakes ==
  ASSUME ScanOK, GrammarOK, EventsOK, ParseStep
  PROVE  TurnTakes
<1>f. ASSUME scan.pc \in {"request", "item", "param"}, scan' = Failed PROVE TurnTakes
  <2>1. scan'.pc = "done" BY <1>f DEF ScanOK, ScanFields, Failed
  <2> QED BY <1>f, <2>1 DEF TurnTakes
<1>1. CASE ReadHeader
  <2>1. scan.pc = "request" /\ scan.p = 1 /\ scan.entries = <<>>
    BY <1>1 DEF ReadHeader, GrammarOK
  <2>2. CASE skipped # Nil /\ scan' = [scan EXCEPT !.pc = "item"]
    <3>1. scan'.pc = "item" /\ scan'.p = 1 /\ scan'.entries = <<>>
      BY <2>1, <2>2 DEF ScanOK, ScanFields
    <3>2. Len(scan'.entries) = 0 BY <3>1, EmptySequence
    <3> QED BY <2>1, <2>2, <3>1, <3>2 DEF TurnTakes
  <2>3. CASE scan' = [scan EXCEPT !.pc = "done"]
    <3>1. scan'.pc = "done" BY <2>3 DEF ScanOK, ScanFields
    <3> QED BY <2>1, <3>1 DEF TurnTakes
  <2> QED BY <1>1, <2>2, <2>3 DEF ReadHeader
<1>2. CASE ParseItem
  <2> DEFINE q == Skip(scan.p, {"space", "comma"})
  <2>1. scan.pc = "item" BY <1>2 DEF ParseItem
  <2>2. \/ scan' = [scan EXCEPT !.pc = "report", !.p = q, !.rc = 0]
        \/ At(q, "tok") /\ scan' = [scan EXCEPT !.pc = "param", !.p = q + 1,
                                                !.reason = skipped[q].v, !.session_id = Nil]
        \/ scan' = Failed
    BY <1>2 DEF ParseItem
  <2>3. IsText(skipped) /\ End \in Nat /\ scan.p \in 1..End BY <2>1, PositionInText
  <2>4. q \in scan.p..End BY <2>3, SkipIs
  <2> HIDE DEF q
  <2>5. CASE scan' = [scan EXCEPT !.pc = "report", !.p = q, !.rc = 0]
    <3>1. scan'.pc = "report" /\ scan'.entries = scan.entries /\ scan'.reported = scan.reported
      BY <2>5 DEF ScanOK, ScanFields
    <3>2. scan.reported = 0 BY <2>1 DEF EventsOK
    <3> QED BY <2>1, <3>1, <3>2 DEF TurnTakes
  <2>6. CASE At(q, "tok") /\ scan' = [scan EXCEPT !.pc = "param", !.p = q + 1,
                                                  !.reason = skipped[q].v, !.session_id = Nil]
    <3>1. scan'.pc = "param" /\ scan'.entries = scan.entries /\ scan'.p = q + 1
      BY <2>6 DEF ScanOK, ScanFields
    <3>2. q + 1 \in (scan.p + 1)..End BY <2>3, <2>4, <2>6 DEF At
    <3> QED BY <2>1, <3>1, <3>2 DEF TurnTakes
  <2> QED BY <1>f, <2>1, <2>2, <2>5, <2>6
<1>3. CASE ParseParam BY <1>3, ParamTakes
<1>4. CASE ParseItemEnd
  <2> DEFINE e == [reason |-> scan.reason, session_id |-> scan.session_id]
             room == grow_array(Len(scan.entries), scan.capacity)
  <2>1. scan.pc = "param" BY <1>4 DEF ParseItemEnd
  <2>2. \/ scan' = [scan EXCEPT !.pc = "item", !.session_id = Nil]
        \/ scan' = [scan EXCEPT !.pc = "item", !.session_id = Nil,
                                !.entries = Append(scan.entries, e), !.capacity = room]
        \/ scan' = Failed
    BY <1>4 DEF ParseItemEnd
  <2> HIDE DEF e, room
  <2>3. CASE scan' = [scan EXCEPT !.pc = "item", !.session_id = Nil]
    <3>1. scan'.pc = "item" /\ scan'.p = scan.p /\ scan'.entries = scan.entries
      BY <2>3 DEF ScanOK, ScanFields
    <3> QED BY <2>1, <3>1 DEF TurnTakes
  <2>4. CASE scan' = [scan EXCEPT !.pc = "item", !.session_id = Nil,
                                  !.entries = Append(scan.entries, e), !.capacity = room]
    <3>1. scan'.pc = "item" /\ scan'.p = scan.p /\ scan'.entries = Append(scan.entries, e)
      BY <2>4 DEF ScanOK, ScanFields
    <3>2. Len(scan'.entries) = Len(scan.entries) + 1 BY <3>1, SequenceFacts DEF ScanOK
    <3> QED BY <2>1, <3>1, <3>2 DEF TurnTakes
  <2> QED BY <1>f, <2>1, <2>2, <2>3, <2>4
<1> QED BY <1>1, <1>2, <1>3, <1>4 DEF ParseStep

\* The invariant of the handler's progress.
ProgressInv == ScanOK /\ GrammarOK /\ EventsOK /\ EntriesCounted

\* What StepsLeft is at each place of the handler.
StepsLeftAt ==
  /\ StepsLeft \in Nat
  /\ scan.pc = "request" => StepsLeft = IF skipped = Nil THEN 1 ELSE 3 * Len(skipped) + 4
  /\ scan.pc = "item" => StepsLeft = 2 * (End - scan.p) + End + 2
  /\ scan.pc = "param" => StepsLeft = 2 * (End - scan.p) + End + 3
  /\ scan.pc = "report" => StepsLeft = Len(scan.entries) - scan.reported + 1
  /\ scan.pc \in {"idle", "done"} => StepsLeft = 0
  /\ scan.pc \in {"request", "item", "param", "report"} => StepsLeft > 0

\* The number of steps left is a number, and positive until the handler ends.
LEMMA StepsLeftIs == ProgressInv => StepsLeftAt
<1> SUFFICES ASSUME ProgressInv PROVE StepsLeftAt
  OBVIOUS
<1>0. ScanOK /\ GrammarOK /\ EventsOK /\ HeaderTypeOK BY DEF ProgressInv, ScanOK
<1>1. CASE scan.pc = "request"
  <2>1. StepsLeft = IF skipped = Nil THEN 1 ELSE 3 * Len(skipped) + 4 BY <1>1 DEF StepsLeft
  <2>2. skipped # Nil => Len(skipped) \in Nat BY <1>0, TextFacts DEF GrammarOK
  <2>3. StepsLeft \in Nat /\ StepsLeft > 0 BY <2>1, <2>2
  <2> QED BY <1>1, <2>1, <2>3 DEF StepsLeftAt
<1>2. CASE scan.pc = "item"
  <2>1. StepsLeft = 2 * (End - scan.p) + End + 2 BY <1>2 DEF StepsLeft
  <2>2. End \in Nat /\ scan.p \in 1..End BY <1>0, <1>2, PositionInText
  <2>3. StepsLeft \in Nat /\ StepsLeft > 0 BY <2>1, <2>2
  <2> QED BY <1>2, <2>1, <2>3 DEF StepsLeftAt
<1>3. CASE scan.pc = "param"
  <2>1. StepsLeft = 2 * (End - scan.p) + End + 3 BY <1>3 DEF StepsLeft
  <2>2. End \in Nat /\ scan.p \in 1..End BY <1>0, <1>3, PositionInText
  <2>3. StepsLeft \in Nat /\ StepsLeft > 0 BY <2>1, <2>2
  <2> QED BY <1>3, <2>1, <2>3 DEF StepsLeftAt
<1>4. CASE scan.pc = "report"
  <2>1. StepsLeft = Len(scan.entries) - scan.reported + 1 BY <1>4 DEF StepsLeft
  <2>2. Len(scan.entries) \in Nat BY <1>0, SequenceFacts DEF ScanOK
  <2>3. scan.reported \in Nat /\ scan.reported <= Len(scan.entries) BY <1>0, <1>4 DEF EventsOK
  <2>4. StepsLeft \in Nat /\ StepsLeft > 0 BY <2>1, <2>2, <2>3
  <2> QED BY <1>4, <2>1, <2>4 DEF StepsLeftAt
<1>5. CASE scan.pc \in {"idle", "done"}
  <2>1. StepsLeft = 0 BY <1>5 DEF StepsLeft
  <2> QED BY <1>5, <2>1 DEF StepsLeftAt
<1> QED BY <1>0, <1>1, <1>2, <1>3, <1>4, <1>5 DEF HeaderTypeOK

\* The same after a step.
LEMMA StepsLeftNext == ProgressInv' => StepsLeftAt'
BY StepsLeftIs, PTL

\* A turn of the loop keeps the entries counted.
LEMMA TurnCounted ==
  ASSUME ProgressInv, TurnTakes
  PROVE  EntriesCounted'
<1>1. Len(scan.entries) \in Nat BY SequenceFacts DEF ProgressInv, ScanOK
<1>2. scan.pc \in {"item", "param"} => scan.p \in Nat
  <2> HAVE scan.pc \in {"item", "param"}
  <2>1. Len(skipped) \in Nat /\ End = Len(skipped) + 1 /\ scan.p \in 1..End
    BY PositionInText DEF ProgressInv
  <2> QED BY <2>1
<1>3. /\ scan.pc = "item" => Len(scan.entries) < scan.p
      /\ scan.pc = "param" => Len(scan.entries) + 1 < scan.p
  BY DEF ProgressInv, EntriesCounted
<1>4. scan.pc \in {"item", "param"} => End \in Nat
  BY PositionInText DEF ProgressInv
<1> QED BY <1>1, <1>2, <1>3, <1>4 DEF TurnTakes, EntriesCounted

\* A turn of the loop leaves fewer steps.
LEMMA TurnProgress ==
  ASSUME ProgressInv, ProgressInv', TurnTakes, skipped' = skipped
  PROVE  StepsLeft' < StepsLeft
<1>1. Len(scan.entries) \in Nat BY SequenceFacts DEF ProgressInv, ScanOK
<1>2. ASSUME scan.pc \in {"item", "param"}
      PROVE  End \in Nat /\ scan.p \in 1..End /\ scan.p \in Nat /\ scan.p <= End
  <2>1. Len(skipped) \in Nat /\ End = Len(skipped) + 1 /\ scan.p \in 1..End
    BY <1>2, PositionInText DEF ProgressInv
  <2> QED BY <2>1
<1>3. /\ scan.pc = "item" => Len(scan.entries) < scan.p
      /\ scan.pc = "param" => Len(scan.entries) + 1 < scan.p
  BY DEF ProgressInv, EntriesCounted
<1>4. End' = End BY DEF End
<1>5. /\ scan'.pc = "item" => StepsLeft' = 2 * (End - scan'.p) + End + 2
      /\ scan'.pc = "param" => StepsLeft' = 2 * (End - scan'.p) + End + 3
      /\ scan'.pc = "report" => StepsLeft' = Len(scan'.entries) - scan'.reported + 1
      /\ scan'.pc = "done" => StepsLeft' = 0
  BY <1>4, StepsLeftNext DEF StepsLeftAt
<1>6. /\ scan.pc = "request" => StepsLeft = IF skipped = Nil THEN 1 ELSE 3 * Len(skipped) + 4
      /\ scan.pc = "item" => StepsLeft = 2 * (End - scan.p) + End + 2
      /\ scan.pc = "param" => StepsLeft = 2 * (End - scan.p) + End + 3
      /\ scan.pc \in {"request", "item", "param"} => StepsLeft > 0
  BY StepsLeftIs DEF StepsLeftAt
<1>7. CASE scan.pc = "request" /\ scan'.pc = "item" /\ skipped # Nil /\ scan'.p = 1
  <2>1. Len(skipped) \in Nat /\ End = Len(skipped) + 1
    BY <1>7, TextFacts DEF ProgressInv, GrammarOK, End
  <2>2. StepsLeft = 3 * Len(skipped) + 4 BY <1>6, <1>7
  <2>3. StepsLeft' = 2 * (End - 1) + End + 2 BY <1>5, <1>7
  <2> QED BY <2>1, <2>2, <2>3
<1>8. CASE /\ scan.pc = "item" /\ scan'.pc = "report"
           /\ scan'.entries = scan.entries /\ scan'.reported = 0
  <2>1. StepsLeft' = Len(scan.entries) - 0 + 1 BY <1>5, <1>8
  <2>2. StepsLeft = 2 * (End - scan.p) + End + 2 BY <1>6, <1>8
  <2> QED BY <1>1, <1>2, <1>3, <1>8, <2>1, <2>2
<1>9. CASE /\ scan.pc \in {"item", "param"} /\ scan'.pc = "param"
           /\ scan'.p \in (scan.p + 1)..End
  <2>1. StepsLeft' = 2 * (End - scan'.p) + End + 3 BY <1>5, <1>9
  <2>2. StepsLeft >= 2 * (End - scan.p) + End + 2 /\ StepsLeft \in Int BY <1>2, <1>6, <1>9
  <2>3. scan'.p \in Int /\ scan'.p >= scan.p + 1 /\ scan'.p <= End BY <1>2, <1>9
  <2> QED BY <1>2, <1>9, <2>1, <2>2, <2>3
<1>10. CASE scan.pc = "param" /\ scan'.pc = "item" /\ scan'.p = scan.p
  <2>1. StepsLeft' = 2 * (End - scan.p) + End + 2 BY <1>5, <1>10
  <2>2. StepsLeft = 2 * (End - scan.p) + End + 3 BY <1>6, <1>10
  <2> QED BY <1>2, <1>10, <2>1, <2>2
<1>11. CASE scan.pc \in {"request", "item", "param"} /\ scan'.pc = "done"
  BY <1>5, <1>6, <1>11
<1> QED BY <1>7, <1>8, <1>9, <1>10, <1>11 DEF TurnTakes

\* Outside the parser nothing is counted.
LEMMA CountedStep == MessagesInv /\ HeadersInv /\ EntriesCounted /\ [Next]_vars => EntriesCounted'
<1> SUFFICES ASSUME MessagesInv, HeadersInv, EntriesCounted, [Next]_vars PROVE EntriesCounted'
  OBVIOUS
<1>0. ProgressInv /\ DOMAIN scan = ScanFields
  BY DEF ProgressInv, MessagesInv, HeadersInv, ScanOK
<1>1. CASE Receive
  <2>1. scan' = NewScan BY <1>1 DEF Receive, ReceiveRequest
  <2>2. scan'.pc = "request" BY <2>1, Zenon DEF NewScan
  <2> QED BY <2>2 DEF EntriesCounted
<1>2. CASE Parse
  <2>1. TurnTakes BY <1>0, <1>2, ParseTakes DEF Parse, ProgressInv
  <2> QED BY <1>0, <2>1, TurnCounted
<1>3. CASE ReportEntry
  <2>1. scan'.pc = "report" BY <1>0, <1>3 DEF ReportEntry, ScanFields
  <2> QED BY <2>1 DEF EntriesCounted
<1>4. CASE ReportEnd
  <2>1. scan'.pc = "done" BY <1>0, <1>4 DEF ReportEnd, ScanFields
  <2> QED BY <2>1 DEF EntriesCounted
<1>5. CASE scan' = scan BY <1>5 DEF EntriesCounted
<1>6. ShowEvents \/ Build \/ UNCHANGED vars => scan' = scan
  BY DEF ShowEvents, Build, vars, headerVars
<1> QED BY <1>1, <1>2, <1>3, <1>4, <1>5, <1>6 DEF Next, HandleSessionSkipped

\* Every step leaves fewer steps if it is one of the handler, and no more if
\* it is not, until the next request.
HandlerProgresses ==
  /\ StepsLeft \in Nat
  /\ HandleSessionSkipped => StepsLeft' < StepsLeft
  /\ scan.pc # "idle" => StepsLeft' <= StepsLeft

\* The step of the theorem below.
LEMMA ProgressStep == ProgressInv /\ ProgressInv' /\ [Next]_vars => [HandlerProgresses]_vars
<1> SUFFICES ASSUME ProgressInv, ProgressInv', Next PROVE HandlerProgresses
  OBVIOUS
<1>0. StepsLeft \in Nat /\ StepsLeft' \in Nat BY StepsLeftIs, StepsLeftNext DEF StepsLeftAt
<1>1. CASE HandleSessionSkipped
  <2>1. CASE Parse
    <3>1. TurnTakes BY <2>1, ParseTakes DEF Parse, ProgressInv
    <3>2. skipped' = skipped
      BY <2>1 DEF Parse, ParseStep, ReadHeader, ParseItem, ParseParam, ParseItemEnd
    <3>3. StepsLeft' < StepsLeft BY <3>1, <3>2, TurnProgress
    <3> QED BY <1>0, <3>3 DEF HandlerProgresses
  <2>2. CASE ReportEntry
    <3>1. /\ scan.pc = "report" /\ scan'.pc = "report" /\ scan'.entries = scan.entries
          /\ scan'.reported = scan.reported + 1
      BY <2>2 DEF ReportEntry, ProgressInv, ScanOK, ScanFields
    <3>2. StepsLeft = Len(scan.entries) - scan.reported + 1 BY <3>1, StepsLeftIs DEF StepsLeftAt
    <3>3. StepsLeft' = Len(scan.entries) - (scan.reported + 1) + 1
      BY <3>1, StepsLeftNext DEF StepsLeftAt
    <3>4. Len(scan.entries) \in Nat BY SequenceFacts DEF ProgressInv, ScanOK
    <3>5. scan.reported \in Nat BY <3>1 DEF ProgressInv, EventsOK
    <3>6. StepsLeft' < StepsLeft BY <3>2, <3>3, <3>4, <3>5
    <3> QED BY <1>0, <3>6 DEF HandlerProgresses
  <2>3. CASE ReportEnd
    <3>1. scan.pc = "report" /\ scan'.pc = "done"
      BY <2>3 DEF ReportEnd, ProgressInv, ScanOK, ScanFields
    <3>2. StepsLeft > 0 /\ StepsLeft' = 0 BY <3>1, StepsLeftIs, StepsLeftNext DEF StepsLeftAt
    <3> QED BY <1>0, <3>2 DEF HandlerProgresses
  <2> QED BY <1>1, <2>1, <2>2, <2>3 DEF HandleSessionSkipped
<1>2. CASE ~HandleSessionSkipped /\ Receive
  <2>1. scan.pc = "idle" BY <1>2 DEF Receive, ReceiveRequest
  <2> QED BY <1>0, <1>2, <2>1 DEF HandlerProgresses
<1>3. CASE ~HandleSessionSkipped /\ (ShowEvents \/ Build)
  <2>1. scan' = scan /\ skipped' = skipped BY <1>3 DEF ShowEvents, Build, headerVars
  <2>2. StepsLeft' = StepsLeft BY <2>1 DEF StepsLeft, End
  <2> QED BY <1>0, <1>3, <2>2 DEF HandlerProgresses
<1> QED BY <1>1, <1>2, <1>3 DEF Next

\* handle_session_skipped cannot run forever: whatever header a client sends,
\* its steps are at most three for each lexeme and four more, because every
\* turn of the parser's loop takes something from the text and every turn of
\* the wrapper's loop reports an entry.
THEOREM HandlerEnds == Spec => [][HandlerProgresses]_vars
<1>1. Init => EntriesCounted
  <2> SUFFICES ASSUME Init PROVE EntriesCounted
    OBVIOUS
  <2>1. scan = [NewScan EXCEPT !.pc = "idle"] BY DEF Init, HeaderInit
  <2>2. scan.pc = "idle" BY <2>1, Zenon DEF NewScan
  <2> QED BY <2>2 DEF EntriesCounted
<1>2. MessagesInv /\ HeadersInv /\ EntriesCounted => ProgressInv
  BY DEF MessagesInv, HeadersInv, ProgressInv
<1> QED BY <1>1, <1>2, CountedStep, ProgressStep, HeadersInvariant, MessagesInvariant, PTL DEF Spec
=============================================================================
