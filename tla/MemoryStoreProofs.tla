------------------------- MODULE MemoryStoreProofs -------------------------
(***************************************************************************)
(* Proofs about the in-memory backend: its array is well formed, and it     *)
(* implements the store contract, for every number of sessions and for      *)
(* arrays of every length.                                                  *)
(*                                                                         *)
(* The loops of memory.c are recursive functions here, and what a loop does *)
(* is shown by induction on its rounds (Induction.tla).                     *)
(***************************************************************************)
EXTENDS MemoryStore, Induction, FiniteSetTheorems

-----------------------------------------------------------------------------
(* Arrays.                                                                  *)

\* What a slot holds.
Slot == Session \cup {Nil}

\* An identifier is in one slot of sq only.
OneSlot(sq) ==
  \A i, j \in DOMAIN sq : sq[i] # Nil /\ sq[j] # Nil /\ sq[i].id = sq[j].id => i = j

\* The array sq shows callers the sessions m.
Shows(sq, m) ==
  /\ m \in [Ids -> Slot]
  /\ \A id \in Ids :
       \/ m[id] = Nil /\ \A i \in DOMAIN sq : sq[i] = Nil \/ sq[i].id # id
       \/ m[id] # Nil /\ \E i \in DOMAIN sq : sq[i] = m[id] /\ sq[i].id = id

\* A session is not NULL and has an identifier and a user.
LEMMA SessionFields ==
  ASSUME NEW s \in Session
  PROVE  s # Nil /\ s.id \in Ids /\ s.user_id \in Users
BY NilSessionAssumption DEF Session

\* An array shows one thing.
LEMMA ShowsOne ==
  ASSUME NEW sq \in Seq(Slot), OneSlot(sq), NEW m, NEW k, Shows(sq, m), Shows(sq, k)
  PROVE  m = k
<1>1. m \in [Ids -> Slot] /\ k \in [Ids -> Slot] BY DEF Shows
<1>2. ASSUME NEW id \in Ids PROVE m[id] = k[id]
  <2>1. CASE m[id] = Nil BY <2>1 DEF Shows
  <2>2. CASE k[id] = Nil BY <2>2 DEF Shows
  <2>3. CASE m[id] # Nil /\ k[id] # Nil
    <3>1. PICK i \in DOMAIN sq : sq[i] = m[id] /\ sq[i].id = id BY <2>3 DEF Shows
    <3>2. PICK j \in DOMAIN sq : sq[j] = k[id] /\ sq[j].id = id BY <2>3 DEF Shows
    <3>3. i = j BY <2>3, <3>1, <3>2 DEF OneSlot
    <3> QED BY <3>1, <3>2, <3>3
  <2> QED BY <2>1, <2>2, <2>3
<1> QED BY <1>1, <1>2

\* memory_store_find on an array sq, and what it shows.
FindIn(sq, id) == SelectInSeq(sq, LAMBDA s : s # Nil /\ s.id = id)

StoredIn(sq) == [id \in Ids |-> IF FindIn(sq, id) = 0 THEN Nil ELSE sq[FindIn(sq, id)]]

\* memory_store_find: the slot that holds the session, if one does.
LEMMA FindSlot ==
  ASSUME NEW sq \in Seq(Slot), NEW id
  PROVE  \/ /\ FindIn(sq, id) = 0
            /\ \A i \in DOMAIN sq : sq[i] = Nil \/ sq[i].id # id
         \/ /\ FindIn(sq, id) # 0 /\ FindIn(sq, id) \in DOMAIN sq
            /\ sq[FindIn(sq, id)] # Nil /\ sq[FindIn(sq, id)].id = id
<1> DEFINE I == {i \in 1..Len(sq) : sq[i] # Nil /\ sq[i].id = id}
<1>1. FindIn(sq, id) = IF I # {} THEN Min(I) ELSE 0 BY DEF FindIn, SelectInSeq
<1>2. Len(sq) \in Nat /\ DOMAIN sq = 1..Len(sq) OBVIOUS
<1>3. CASE I = {} BY <1>1, <1>2, <1>3
<1>4. CASE I # {}
  <2>1. I \subseteq Nat BY <1>2
  <2> HIDE DEF I
  <2>2. PICK x \in I : \A y \in I : ~(y < x) BY <1>4, <2>1, LeastElement
  <2>3. \A y \in I : x =< y BY <2>1, <2>2
  <2>4. \E z \in I : \A y \in I : z =< y BY <2>3
  <2>5. Min(I) \in I BY <2>4, Zenon DEF Min
  <2>6. FindIn(sq, id) \in I BY <1>1, <1>4, <2>5
  <2> QED BY <1>2, <2>6 DEF I
<1> QED BY <1>3, <1>4

\* The sessions that callers see are what the array shows.
LEMMA StoredShows ==
  ASSUME NEW sq \in Seq(Slot)
  PROVE  Shows(sq, StoredIn(sq))
<1> DEFINE m == StoredIn(sq)
<1>1. ASSUME NEW id \in Ids
      PROVE  \/ m[id] = Nil /\ \A i \in DOMAIN sq : sq[i] = Nil \/ sq[i].id # id
             \/ m[id] # Nil /\ \E i \in DOMAIN sq : sq[i] = m[id] /\ sq[i].id = id
  BY FindSlot DEF StoredIn
<1>2. m \in [Ids -> Slot]
  <2>1. Nil \in Slot BY DEF Slot
  <2>2. \A id \in Ids : FindIn(sq, id) # 0 => sq[FindIn(sq, id)] \in Slot BY FindSlot
  <2> QED BY <2>1, <2>2 DEF StoredIn
<1> HIDE DEF m
<1> QED BY <1>1, <1>2 DEF Shows, m

\* An array that shows m is one whose callers see m.
LEMMA StoredIs ==
  ASSUME NEW sq \in Seq(Slot), OneSlot(sq), NEW m, Shows(sq, m)
  PROVE  StoredIn(sq) = m
BY StoredShows, ShowsOne

\* r is sq with its last slot moved to i.
LastMoved(sq, i, r) ==
  /\ Len(r) = Len(sq) - 1
  /\ \A j \in 1..(Len(sq) - 1) : r[j] = IF j = i THEN sq[Len(sq)] ELSE sq[j]

\* memory_store_remove_at: one slot less, the last one in the gap.
LEMMA GapFilled ==
  ASSUME NEW S, NEW sq \in Seq(S), NEW i \in Nat
  PROVE  /\ remove_at(sq, i) \in Seq(S)
         /\ i \in DOMAIN sq => LastMoved(sq, i, remove_at(sq, i))
<1> DEFINE e == [sq EXCEPT ![i] = sq[Len(sq)]]
<1>1. Len(sq) \in Nat /\ DOMAIN sq = 1..Len(sq) OBVIOUS
<1>2. e \in Seq(S) /\ Len(e) = Len(sq)
  <2>1. CASE i \in DOMAIN sq
    <3>1. sq[Len(sq)] \in S BY <1>1, <2>1
    <3> QED BY <1>1, <2>1, <3>1
  <2>2. CASE i \notin DOMAIN sq
    <3>1. e = sq BY <1>1, <2>2
    <3> QED BY <3>1
  <2> QED BY <2>1, <2>2
<1>3. \A j \in 1..Len(sq) : e[j] = IF j = i THEN sq[Len(sq)] ELSE sq[j] BY <1>1
<1> HIDE DEF e
<1>4. CASE Len(sq) = 0
  <2>1. SubSeq(e, 1, Len(sq) - 1) = <<>> BY <1>2, <1>4
  <2> QED BY <1>1, <1>4, <2>1 DEF remove_at, e
<1>5. CASE Len(sq) # 0
  <2> DEFINE r == SubSeq(e, 1, Len(sq) - 1)
  <2>1. r \in Seq(S) BY <1>1, <1>2, <1>5
  <2>2. Len(r) = Len(sq) - 1 BY <1>1, <1>2, <1>5
  <2>3. \A j \in 1..(Len(sq) - 1) : r[j] = e[j] BY <1>1, <1>2, <1>5
  <2>4. remove_at(sq, i) = r BY DEF remove_at, e
  <2> HIDE DEF r
  <2>5. ASSUME NEW j \in 1..(Len(sq) - 1)
        PROVE  r[j] = IF j = i THEN sq[Len(sq)] ELSE sq[j]
    <3>1. j \in 1..Len(sq) BY <1>1
    <3> QED BY <1>3, <2>3, <3>1
  <2>6. LastMoved(sq, i, r) BY <2>2, <2>5 DEF LastMoved
  <2> QED BY <2>1, <2>4, <2>6
<1> QED BY <1>4, <1>5

-----------------------------------------------------------------------------
(* The sweep.                                                               *)

\* What the loop has done to sq after k rounds, with i the slot to look at next:
\* the slots before i stay, nothing came in and nothing else went.
Swept(sq, dropped, k, i, rest) ==
  /\ rest \in Seq(Slot) /\ i \in Nat /\ i >= 1
  /\ k = (i - 1) + (Len(sq) - Len(rest))
  /\ i <= Len(rest) + 1
  /\ Len(rest) <= Len(sq)
  /\ \A j \in 1..(i - 1) : rest[j] \notin dropped
  /\ \A j \in DOMAIN rest : \E l \in DOMAIN sq : rest[j] = sq[l]
  /\ \A l \in DOMAIN sq : sq[l] \notin dropped => \E j \in DOMAIN rest : rest[j] = sq[l]
  /\ OneSlot(rest)

\* A round keeps it.
LEMMA SweepRound ==
  ASSUME NEW sq \in Seq(Slot), NEW dropped, NEW k \in Nat, k < Len(sq), NEW i, NEW rest,
         Swept(sq, dropped, k, i, rest),
         NEW st, st.i = i, st.rest = rest
  PROVE  Swept(sq, dropped, k + 1, Round(st, dropped).i, Round(st, dropped).rest)
<1>1. /\ rest \in Seq(Slot) /\ i \in Nat /\ i >= 1
      /\ k = (i - 1) + (Len(sq) - Len(rest))
      /\ i <= Len(rest) + 1
      /\ Len(rest) <= Len(sq)
  BY DEF Swept
<1>2. /\ \A j \in 1..(i - 1) : rest[j] \notin dropped
      /\ \A j \in DOMAIN rest : \E l \in DOMAIN sq : rest[j] = sq[l]
      /\ \A l \in DOMAIN sq : sq[l] \notin dropped => \E j \in DOMAIN rest : rest[j] = sq[l]
      /\ OneSlot(rest)
  BY DEF Swept
<1>3. /\ Len(sq) \in Nat /\ Len(rest) \in Nat
      /\ DOMAIN rest = 1..Len(rest) /\ DOMAIN sq = 1..Len(sq)
  BY <1>1
<1>4. i \in DOMAIN rest BY <1>1, <1>3
<1>5. CASE rest[i] \notin dropped
  <2>1. Round(st, dropped).i = i + 1 /\ Round(st, dropped).rest = rest
    BY <1>5 DEF Round
  <2>2. \A j \in 1..((i + 1) - 1) : rest[j] \notin dropped BY <1>1, <1>2, <1>5
  <2>3. /\ i + 1 \in Nat /\ i + 1 >= 1 /\ k + 1 = ((i + 1) - 1) + (Len(sq) - Len(rest))
        /\ i + 1 <= Len(rest) + 1
    BY <1>1, <1>3, <1>4
  <2>4. Swept(sq, dropped, k + 1, i + 1, rest)
    BY <1>1, <1>2, <2>2, <2>3 DEF Swept
  <2> QED BY <2>1, <2>4
<1>6. CASE rest[i] \in dropped
  <2> DEFINE r == remove_at(rest, i)
             n == Len(rest)
  <2>1. Round(st, dropped).i = i /\ Round(st, dropped).rest = r
    BY <1>6 DEF Round
  <2>2. /\ r \in Seq(Slot) /\ Len(r) = n - 1
        /\ \A j \in 1..(n - 1) : r[j] = IF j = i THEN rest[n] ELSE rest[j]
    <3>1. i \in Nat /\ rest \in Seq(Slot) BY <1>1
    <3> HIDE DEF r
    <3>2. r \in Seq(Slot) /\ LastMoved(rest, i, r) BY <1>4, <3>1, GapFilled, Zenon DEF r
    <3> QED BY <3>2 DEF LastMoved
  <2>3. n \in Nat /\ n >= 1 /\ i <= n /\ DOMAIN rest = 1..n BY <1>3, <1>4
  <2> HIDE DEF r, n
  <2>4. DOMAIN r = 1..(n - 1) BY <2>2
  <2>5. k + 1 = (i - 1) + (Len(sq) - Len(r)) /\ i <= Len(r) + 1 /\ Len(r) <= Len(sq)
    BY <1>1, <1>3, <2>2, <2>3 DEF n
  <2>6. ASSUME NEW j \in 1..(i - 1) PROVE r[j] \notin dropped
    <3>1. j # i /\ j \in 1..(n - 1) BY <1>1, <2>3
    <3>2. r[j] = rest[j] BY <2>2, <3>1
    <3> QED BY <1>2, <3>2
  <2>7. ASSUME NEW j \in DOMAIN r PROVE \E l \in DOMAIN sq : r[j] = sq[l]
    BY <1>2, <2>2, <2>3, <2>4
  <2>8. ASSUME NEW l \in DOMAIN sq, sq[l] \notin dropped
        PROVE  \E j \in DOMAIN r : r[j] = sq[l]
    <3>1. PICK j \in DOMAIN rest : rest[j] = sq[l] BY <1>2, <2>8
    <3>2. j # i BY <1>6, <2>8, <3>1
    <3>3. CASE j = n
      <4>1. i \in 1..(n - 1) BY <1>1, <2>3, <3>2, <3>3
      <4> QED BY <2>2, <2>4, <3>1, <3>3, <4>1
    <3>4. CASE j # n
      <4>1. j \in 1..(n - 1) BY <2>3, <3>4
      <4> QED BY <2>2, <2>4, <3>1, <3>2, <4>1
    <3> QED BY <3>3, <3>4
  <2>9. OneSlot(r)
    <3> SUFFICES ASSUME NEW a \in DOMAIN r, NEW b \in DOMAIN r,
                        r[a] # Nil, r[b] # Nil, r[a].id = r[b].id
                 PROVE  a = b
      BY DEF OneSlot
    <3>1. PICK p \in DOMAIN rest : r[a] = rest[p] /\ p = IF a = i THEN n ELSE a
      BY <2>2, <2>3, <2>4
    <3>2. PICK q \in DOMAIN rest : r[b] = rest[q] /\ q = IF b = i THEN n ELSE b
      BY <2>2, <2>3, <2>4
    <3>3. p = q BY <1>2, <3>1, <3>2 DEF OneSlot
    <3> QED BY <2>3, <2>4, <3>1, <3>2, <3>3
  <2>10. Swept(sq, dropped, k + 1, i, r)
    BY <1>1, <2>2, <2>5, <2>6, <2>7, <2>8, <2>9 DEF Swept
  <2> QED BY <2>1, <2>10
<1> QED BY <1>5, <1>6

\* The rounds of the loop, as Sweep writes them.
LEMMA SweepRounds ==
  ASSUME NEW sq \in Seq(Slot), NEW dropped
  PROVE  \E f : /\ f[0] = [i |-> 1, rest |-> sq]
                /\ \A n \in 1..Len(sq) : f[n] = Round(f[n - 1], dropped)
                /\ Sweep(sq, dropped) = f[Len(sq)].rest
<1> DEFINE S == [i: Nat, rest: Seq(Slot)]
           R == [p \in Nat \X S |-> Round(p[2], dropped)]
           a == [i |-> 1, rest |-> sq]
           N == Len(sq)
           Eq(g) == g = [n \in 0..N |-> IF n = 0 THEN a ELSE Round(g[n - 1], dropped)]
           G == CHOOSE g : Eq(g)
<1>1. N \in Nat /\ a \in S OBVIOUS
<1>2. ASSUME NEW st \in S PROVE Round(st, dropped) \in S
  <2>1. st.i \in Nat /\ st.rest \in Seq(Slot) OBVIOUS
  <2>2. remove_at(st.rest, st.i) \in Seq(Slot) BY <2>1, GapFilled, Zenon
  <2> QED BY <2>1, <2>2 DEF Round
<1>3. R \in [Nat \X S -> S] BY <1>2
<1>4. ASSUME NEW n \in Nat, NEW st \in S PROVE R[<<n, st>>] = Round(st, dropped) OBVIOUS
<1> HIDE DEF S, R, a, N
<1>5. PICK g \in [0..N -> S] : g[0] = a /\ \A n \in 1..N : g[n] = R[<<n, g[n - 1]>>]
  <2>1. PICK g : Iterates(g, S, R, a, N) BY <1>1, <1>3, Iteration, Zenon
  <2> QED BY <2>1 DEF Iterates
<1>6. Eq(g)
  <2>1. ASSUME NEW n \in 0..N PROVE g[n] = IF n = 0 THEN a ELSE Round(g[n - 1], dropped)
    <3>1. CASE n = 0 BY <1>5, <3>1
    <3>2. CASE n # 0
      <4>1. n \in 1..N /\ n \in Nat /\ g[n - 1] \in S BY <1>1, <1>5, <3>2
      <4>2. g[n] = R[<<n, g[n - 1]>>] BY <1>5, <4>1
      <4>3. R[<<n, g[n - 1]>>] = Round(g[n - 1], dropped) BY <1>4, <4>1
      <4> QED BY <3>2, <4>2, <4>3
    <3> QED BY <3>1, <3>2
  <2> QED BY <1>5, <2>1
<1>7. Eq(G) BY <1>6, Zenon
<1>8. Sweep(sq, dropped) = G[N].rest BY Zenon DEF Sweep, a, N
<1> HIDE DEF G
<1>9. G[0] = a BY <1>1, <1>7
<1>10. ASSUME NEW n \in 1..N PROVE G[n] = Round(G[n - 1], dropped)
  <2>1. n \in 0..N /\ n # 0 BY <1>1
  <2> QED BY <1>7, <2>1
<1> QED BY <1>8, <1>9, <1>10 DEF a, N

\* r is sq without the slots whose value is in dropped, in some order.
Without(sq, dropped, r) ==
  /\ r \in Seq(Slot) /\ Len(r) <= Len(sq) /\ OneSlot(r)
  /\ \A j \in DOMAIN r : r[j] \notin dropped /\ \E l \in DOMAIN sq : r[j] = sq[l]
  /\ \A l \in DOMAIN sq : sq[l] \notin dropped => \E j \in DOMAIN r : r[j] = sq[l]

\* The loop drops what it is to drop and nothing else.
LEMMA SweepDone ==
  ASSUME NEW sq \in Seq(Slot), OneSlot(sq), NEW dropped
  PROVE  Without(sq, dropped, Sweep(sq, dropped))
<1> DEFINE N == Len(sq)
<1>1. PICK f : /\ f[0] = [i |-> 1, rest |-> sq]
               /\ \A n \in 1..N : f[n] = Round(f[n - 1], dropped)
               /\ Sweep(sq, dropped) = f[N].rest
  BY SweepRounds
<1> DEFINE J(n) == Swept(sq, dropped, n, f[n].i, f[n].rest)
           T == {n \in 0..N : J(n)}
<1>2. N \in Nat /\ DOMAIN sq = 1..N OBVIOUS
<1>3. J(0)
  <2>1. f[0].i = 1 /\ f[0].rest = sq BY <1>1
  <2>2. Swept(sq, dropped, 0, 1, sq) BY <1>2 DEF Swept
  <2> QED BY <2>1, <2>2
<1>4. ASSUME NEW n \in 0..N, J(n), n < N PROVE J(n + 1)
  <2>1. n \in Nat /\ n + 1 \in 1..N /\ (n + 1) - 1 = n BY <1>2, <1>4
  <2>2. f[n + 1] = Round(f[n], dropped) BY <1>1, <2>1
  <2>3. Swept(sq, dropped, n + 1, Round(f[n], dropped).i, Round(f[n], dropped).rest)
    BY <1>4, <2>1, SweepRound
  <2> QED BY <2>2, <2>3
<1> HIDE DEF J
<1>5. T \subseteq 0..N /\ 0 \in T /\ \A n \in T : n < N => n + 1 \in T
  BY <1>2, <1>3, <1>4
<1> HIDE DEF T
<1>6. T = 0..N BY <1>2, <1>5, BoundedInduction
<1>7. J(N) BY <1>2, <1>6 DEF T
<1> DEFINE r == f[N].rest
           i == f[N].i
<1>8. /\ r \in Seq(Slot) /\ i \in Nat /\ i >= 1
      /\ N = (i - 1) + (N - Len(r)) /\ i <= Len(r) + 1 /\ Len(r) <= N
      /\ \A j \in 1..(i - 1) : r[j] \notin dropped
      /\ \A j \in DOMAIN r : \E l \in DOMAIN sq : r[j] = sq[l]
      /\ \A l \in DOMAIN sq : sq[l] \notin dropped => \E j \in DOMAIN r : r[j] = sq[l]
      /\ OneSlot(r)
  BY <1>7 DEF J, Swept
<1> HIDE DEF r, i, N
<1>9. DOMAIN r = 1..(i - 1) BY <1>2, <1>8
<1> QED BY <1>1, <1>8, <1>9 DEF r, N, Without

-----------------------------------------------------------------------------
(* The listing.                                                             *)

\* What get_by_user_id has copied after looking at n slots.
Copied(sq, u, n, out) ==
  /\ out \in Seq(Session)
  /\ \A j \in DOMAIN out : \E l \in 1..n : out[j] = sq[l] /\ has_user(sq[l], u)
  /\ \A l \in 1..n : has_user(sq[l], u) => \E j \in DOMAIN out : out[j] = sq[l]
  /\ \A i, j \in DOMAIN out : out[i] = out[j] => i = j

\* The loop of get_by_user_id, as matches writes it.
LEMMA MatchRounds ==
  ASSUME NEW sq \in Seq(Slot), NEW u
  PROVE  \E f : /\ f[0] = <<>>
                /\ \A n \in 1..Len(sq) :
                     f[n] = IF has_user(sq[n], u) THEN Append(f[n - 1], sq[n]) ELSE f[n - 1]
                /\ matches(sq, u) = f[Len(sq)]
<1> DEFINE S == Seq(Slot)
           Add(n, c) == IF has_user(sq[n], u) THEN Append(c, sq[n]) ELSE c
           R == [p \in Nat \X S |-> IF p[1] \in DOMAIN sq THEN Add(p[1], p[2]) ELSE p[2]]
           N == Len(sq)
           Eq(g) == g = [n \in 0..N |-> IF n = 0 THEN <<>> ELSE Add(n, g[n - 1])]
           G == CHOOSE g : Eq(g)
<1>1. N \in Nat /\ DOMAIN sq = 1..N /\ <<>> \in S OBVIOUS
<1>2. ASSUME NEW n \in DOMAIN sq, NEW c \in S PROVE Add(n, c) \in S
  <2>1. sq[n] \in Slot OBVIOUS
  <2> QED BY <2>1
<1>3. R \in [Nat \X S -> S] BY <1>2
<1>4. ASSUME NEW n \in 1..N, NEW c \in S PROVE R[<<n, c>>] = Add(n, c)
  <2>1. n \in Nat /\ n \in DOMAIN sq BY <1>1
  <2> QED BY <2>1
<1> HIDE DEF S, R, N, Add
<1>5. PICK g \in [0..N -> S] : g[0] = <<>> /\ \A n \in 1..N : g[n] = R[<<n, g[n - 1]>>]
  <2>1. PICK g : Iterates(g, S, R, <<>>, N) BY <1>1, <1>3, Iteration, Zenon
  <2> QED BY <2>1 DEF Iterates
<1>6. Eq(g)
  <2>1. ASSUME NEW n \in 0..N PROVE g[n] = IF n = 0 THEN <<>> ELSE Add(n, g[n - 1])
    <3>1. CASE n = 0 BY <1>5, <3>1
    <3>2. CASE n # 0
      <4>1. n \in 1..N /\ g[n - 1] \in S BY <1>1, <1>5, <3>2
      <4>2. g[n] = R[<<n, g[n - 1]>>] BY <1>5, <4>1
      <4>3. R[<<n, g[n - 1]>>] = Add(n, g[n - 1]) BY <1>4, <4>1
      <4> QED BY <3>2, <4>2, <4>3
    <3> QED BY <3>1, <3>2
  <2> QED BY <1>5, <2>1
<1>7. Eq(G) BY <1>6, Zenon
<1>8. matches(sq, u) = G[N] BY Zenon DEF matches, N, Add
<1> HIDE DEF G
<1>9. G[0] = <<>> BY <1>1, <1>7
<1>10. ASSUME NEW n \in 1..N PROVE G[n] = Add(n, G[n - 1])
  <2>1. n \in 0..N /\ n # 0 BY <1>1
  <2> QED BY <1>7, <2>1
<1> QED BY <1>8, <1>9, <1>10 DEF Add, N

\* A slot more.
LEMMA MatchRound ==
  ASSUME NEW sq \in Seq(Slot), OneSlot(sq), NEW u, NEW n \in Nat, n < Len(sq), NEW out,
         Copied(sq, u, n, out)
  PROVE  Copied(sq, u, n + 1,
                IF has_user(sq[n + 1], u) THEN Append(out, sq[n + 1]) ELSE out)
<1> DEFINE k == n + 1
<1>1. k \in Nat /\ k \in DOMAIN sq /\ k \in 1..k /\ 1..n \subseteq 1..k /\ sq[k] \in Slot
  OBVIOUS
<1>2. \A l \in 1..k : l = k \/ l \in 1..n OBVIOUS
<1>3. \A l \in 1..n : l # k /\ l \in DOMAIN sq OBVIOUS
<1> HIDE DEF k
<1>4. /\ out \in Seq(Session)
      /\ \A j \in DOMAIN out : \E l \in 1..n : out[j] = sq[l] /\ has_user(sq[l], u)
      /\ \A l \in 1..n : has_user(sq[l], u) => \E j \in DOMAIN out : out[j] = sq[l]
      /\ \A i, j \in DOMAIN out : out[i] = out[j] => i = j
  BY DEF Copied
<1>5. CASE ~has_user(sq[k], u)
  <2>1. Copied(sq, u, k, out) BY <1>1, <1>2, <1>4, <1>5 DEF Copied
  <2> QED BY <1>5, <2>1 DEF k
<1>6. CASE has_user(sq[k], u)
  <2> DEFINE new == Append(out, sq[k])
  <2>1. sq[k] # Nil /\ sq[k] \in Session BY <1>1, <1>6 DEF has_user, Slot
  <2>2. /\ new \in Seq(Session) /\ DOMAIN out = 1..Len(out) /\ Len(out) \in Nat
        /\ DOMAIN new = 1..(Len(out) + 1) /\ new[Len(out) + 1] = sq[k]
        /\ \A j \in 1..Len(out) : new[j] = out[j]
    BY <1>4, <2>1
  <2> HIDE DEF new
  <2>3. ASSUME NEW j \in DOMAIN out PROVE out[j] # sq[k]
    <3>1. PICK l \in 1..n : out[j] = sq[l] /\ has_user(sq[l], u) BY <1>4
    <3> QED BY <1>1, <1>3, <2>1, <3>1 DEF OneSlot
  <2>4. ASSUME NEW j \in DOMAIN new
        PROVE  \E l \in 1..k : new[j] = sq[l] /\ has_user(sq[l], u)
    <3>1. CASE j = Len(out) + 1 BY <1>1, <1>6, <2>2, <3>1
    <3>2. CASE j \in DOMAIN out
      <4>1. PICK l \in 1..n : out[j] = sq[l] /\ has_user(sq[l], u) BY <1>4, <3>2
      <4> QED BY <1>1, <2>2, <3>2, <4>1
    <3> QED BY <2>2, <3>1, <3>2
  <2>5. ASSUME NEW l \in 1..k, has_user(sq[l], u) PROVE \E j \in DOMAIN new : new[j] = sq[l]
    BY <1>2, <1>4, <2>2, <2>5
  <2>6. ASSUME NEW i \in DOMAIN new, NEW j \in DOMAIN new, new[i] = new[j] PROVE i = j
    <3>1. \A x \in DOMAIN new : x = Len(out) + 1 \/ x \in DOMAIN out BY <2>2
    <3> QED BY <1>4, <2>2, <2>3, <2>6, <3>1
  <2>7. Copied(sq, u, k, new) BY <2>2, <2>4, <2>5, <2>6 DEF Copied
  <2> QED BY <1>6, <2>7 DEF k, new
<1> QED BY <1>5, <1>6

\* The copies of get_by_user_id are the sessions of that user, each once.
LEMMA MatchesDone ==
  ASSUME NEW sq \in Seq(Slot), OneSlot(sq), NEW u
  PROVE  Copied(sq, u, Len(sq), matches(sq, u))
<1> DEFINE N == Len(sq)
<1>1. PICK f : /\ f[0] = <<>>
               /\ \A n \in 1..N :
                    f[n] = IF has_user(sq[n], u) THEN Append(f[n - 1], sq[n]) ELSE f[n - 1]
               /\ matches(sq, u) = f[N]
  BY MatchRounds
<1> DEFINE J(n) == Copied(sq, u, n, f[n])
           T == {n \in 0..N : J(n)}
<1>2. N \in Nat OBVIOUS
<1>3. J(0)
  <2>1. Copied(sq, u, 0, <<>>) BY DEF Copied
  <2> QED BY <1>1, <2>1
<1>4. ASSUME NEW n \in 0..N, J(n), n < N PROVE J(n + 1)
  <2>1. n \in Nat /\ n + 1 \in 1..N /\ (n + 1) - 1 = n BY <1>2, <1>4
  <2>2. f[n + 1] = IF has_user(sq[n + 1], u) THEN Append(f[n], sq[n + 1]) ELSE f[n]
    BY <1>1, <2>1
  <2>3. Copied(sq, u, n + 1, IF has_user(sq[n + 1], u) THEN Append(f[n], sq[n + 1]) ELSE f[n])
    BY <1>4, <2>1, MatchRound
  <2> QED BY <2>2, <2>3
<1> HIDE DEF J
<1>5. T \subseteq 0..N /\ 0 \in T /\ \A n \in T : n < N => n + 1 \in T
  BY <1>2, <1>3, <1>4
<1> HIDE DEF T
<1>6. T = 0..N BY <1>2, <1>5, BoundedInduction
<1>7. J(N) BY <1>2, <1>6 DEF T
<1> QED BY <1>1, <1>7 DEF J

\* A sequence without repetitions is as long as the set of its elements.
LEMMA ListedOnce ==
  ASSUME NEW S, NEW out \in Seq(S), \A i, j \in DOMAIN out : out[i] = out[j] => i = j
  PROVE  Len(out) = Cardinality({out[i] : i \in DOMAIN out})
<1> DEFINE T == {out[i] : i \in DOMAIN out}
           n == Len(out)
<1>1. n \in Nat /\ DOMAIN out = 1..n /\ out \in [1..n -> T] OBVIOUS
<1>2. \A t \in T : \E i \in 1..n : out[i] = t BY <1>1
<1> HIDE DEF T, n
<1>3. out \in Bijection(1..n, T)
  <2>1. out \in Injection(1..n, T) BY <1>1 DEF Injection, IsInjective
  <2>2. out \in Surjection(1..n, T) BY <1>1, <1>2 DEF Surjection
  <2> QED BY <2>1, <2>2 DEF Bijection
<1>4. ExistsBijection(1..n, T) BY <1>3 DEF ExistsBijection
<1>5. IsFiniteSet(1..n) /\ Cardinality(1..n) = n BY <1>1, FS_Interval
<1>6. Cardinality(T) = n BY <1>4, <1>5, FS_Bijection
<1> QED BY <1>6 DEF T, n

-----------------------------------------------------------------------------
(* What callers see of an operation on the array.                           *)

\* A slot is overwritten by a session of the same identifier.
LEMMA ShowsOverwritten ==
  ASSUME NEW sq \in Seq(Slot), OneSlot(sq), NEW m, Shows(sq, m),
         NEW i \in DOMAIN sq, sq[i] # Nil, NEW s \in Session, s.id = sq[i].id
  PROVE  LET r == [sq EXCEPT ![i] = s]
         IN  r \in Seq(Slot) /\ Len(r) = Len(sq) /\ OneSlot(r) /\ Shows(r, [m EXCEPT ![s.id] = s])
<1> DEFINE r == [sq EXCEPT ![i] = s]
           k == [m EXCEPT ![s.id] = s]
<1>1. s \in Slot /\ s # Nil /\ s.id \in Ids BY SessionFields DEF Slot
<1>2. /\ r \in Seq(Slot) /\ Len(r) = Len(sq) /\ DOMAIN r = DOMAIN sq
      /\ r[i] = s /\ \A j \in DOMAIN sq : j # i => r[j] = sq[j]
  BY <1>1
<1>3. m \in [Ids -> Slot] BY DEF Shows
<1>4. k \in [Ids -> Slot] /\ k[s.id] = s /\ \A id \in Ids : id # s.id => k[id] = m[id]
  BY <1>1, <1>3
<1> HIDE DEF r, k
<1>5. OneSlot(r)
  <2>1. \A j \in DOMAIN sq : r[j] # Nil => sq[j] # Nil /\ sq[j].id = r[j].id BY <1>2
  <2> QED BY <1>2, <2>1 DEF OneSlot
<1>6. ASSUME NEW id \in Ids
      PROVE  \/ k[id] = Nil /\ \A j \in DOMAIN r : r[j] = Nil \/ r[j].id # id
             \/ k[id] # Nil /\ \E j \in DOMAIN r : r[j] = k[id] /\ r[j].id = id
  <2>1. CASE id = s.id BY <1>1, <1>2, <1>4, <2>1
  <2>2. CASE id # s.id
    <3>1. CASE m[id] = Nil
      <4>1. \A j \in DOMAIN sq : sq[j] = Nil \/ sq[j].id # id BY <3>1 DEF Shows
      <4> QED BY <1>2, <1>4, <2>2, <3>1, <4>1
    <3>2. CASE m[id] # Nil
      <4>1. PICK j \in DOMAIN sq : sq[j] = m[id] /\ sq[j].id = id BY <3>2 DEF Shows
      <4>2. j # i BY <2>2, <4>1
      <4> QED BY <1>2, <1>4, <2>2, <3>2, <4>1, <4>2
    <3> QED BY <3>1, <3>2
  <2> QED BY <2>1, <2>2
<1> QED BY <1>2, <1>4, <1>5, <1>6 DEF Shows, r, k

\* A slot is zeroed.
LEMMA ShowsZeroed ==
  ASSUME NEW sq \in Seq(Slot), OneSlot(sq), NEW m, Shows(sq, m),
         NEW i \in DOMAIN sq, sq[i] # Nil, NEW d, d = sq[i].id
  PROVE  LET r == [sq EXCEPT ![i] = Nil]
         IN  r \in Seq(Slot) /\ Len(r) = Len(sq) /\ OneSlot(r) /\ Shows(r, [m EXCEPT ![d] = Nil])
<1> DEFINE r == [sq EXCEPT ![i] = Nil]
           k == [m EXCEPT ![d] = Nil]
<1>1. Nil \in Slot /\ d \in Ids
  <2>1. sq[i] \in Slot OBVIOUS
  <2>2. sq[i] \in Session BY <2>1 DEF Slot
  <2> QED BY <2>2, SessionFields DEF Slot
<1>2. /\ r \in Seq(Slot) /\ Len(r) = Len(sq) /\ DOMAIN r = DOMAIN sq
      /\ r[i] = Nil /\ \A j \in DOMAIN sq : j # i => r[j] = sq[j]
  BY <1>1
<1>3. m \in [Ids -> Slot] BY DEF Shows
<1>4. k \in [Ids -> Slot] /\ k[d] = Nil /\ \A id \in Ids : id # d => k[id] = m[id]
  BY <1>1, <1>3
<1> HIDE DEF r, k
<1>5. OneSlot(r)
  <2>1. \A j \in DOMAIN sq : r[j] # Nil => r[j] = sq[j] BY <1>2
  <2> QED BY <1>2, <2>1 DEF OneSlot
<1>6. ASSUME NEW id \in Ids
      PROVE  \/ k[id] = Nil /\ \A j \in DOMAIN r : r[j] = Nil \/ r[j].id # id
             \/ k[id] # Nil /\ \E j \in DOMAIN r : r[j] = k[id] /\ r[j].id = id
  <2>1. CASE id = d
    <3>1. \A j \in DOMAIN sq : j # i => sq[j] = Nil \/ sq[j].id # id BY <2>1 DEF OneSlot
    <3> QED BY <1>2, <1>4, <2>1, <3>1
  <2>2. CASE id # d
    <3>1. CASE m[id] = Nil
      <4>1. \A j \in DOMAIN sq : sq[j] = Nil \/ sq[j].id # id BY <3>1 DEF Shows
      <4> QED BY <1>2, <1>4, <2>2, <3>1, <4>1
    <3>2. CASE m[id] # Nil
      <4>1. PICK j \in DOMAIN sq : sq[j] = m[id] /\ sq[j].id = id BY <3>2 DEF Shows
      <4>2. j # i BY <2>2, <4>1
      <4> QED BY <1>2, <1>4, <2>2, <3>2, <4>1, <4>2
    <3> QED BY <3>1, <3>2
  <2> QED BY <2>1, <2>2
<1> QED BY <1>2, <1>4, <1>5, <1>6 DEF Shows, r, k

\* One session is removed.
LEMMA RemovedOne ==
  ASSUME NEW sq \in Seq(Slot), OneSlot(sq), NEW i \in DOMAIN sq, sq[i] # Nil
  PROVE  Without(sq, {sq[i]}, remove_at(sq, i))
<1> DEFINE r == remove_at(sq, i)
           n == Len(sq)
<1>1. n \in Nat /\ DOMAIN sq = 1..n /\ i \in Nat /\ i \in 1..n OBVIOUS
<1>2. r \in Seq(Slot) /\ LastMoved(sq, i, r) BY <1>1, GapFilled, Zenon
<1>3. Len(r) = n - 1 /\ \A j \in 1..(n - 1) : r[j] = IF j = i THEN sq[n] ELSE sq[j]
  BY <1>2 DEF LastMoved
<1> HIDE DEF r, n
<1>4. DOMAIN r = 1..(n - 1) BY <1>2, <1>3
<1>5. ASSUME NEW a \in DOMAIN r
      PROVE  \E p \in DOMAIN sq : p # i /\ r[a] = sq[p] /\ p = IF a = i THEN n ELSE a
  BY <1>1, <1>3, <1>4
<1>6. OneSlot(r)
  <2> SUFFICES ASSUME NEW a \in DOMAIN r, NEW b \in DOMAIN r,
                      r[a] # Nil, r[b] # Nil, r[a].id = r[b].id
               PROVE  a = b
    BY DEF OneSlot
  <2>1. PICK p \in DOMAIN sq : r[a] = sq[p] /\ p = IF a = i THEN n ELSE a BY <1>5
  <2>2. PICK q \in DOMAIN sq : r[b] = sq[q] /\ q = IF b = i THEN n ELSE b BY <1>5
  <2>3. p = q BY <2>1, <2>2 DEF OneSlot
  <2> QED BY <1>1, <1>4, <2>1, <2>2, <2>3
<1>7. ASSUME NEW a \in DOMAIN r PROVE r[a] # sq[i] /\ \E l \in DOMAIN sq : r[a] = sq[l]
  <2>1. PICK p \in DOMAIN sq : p # i /\ r[a] = sq[p] BY <1>5
  <2>2. sq[p] # sq[i] BY <2>1 DEF OneSlot
  <2> QED BY <2>1, <2>2
<1>8. ASSUME NEW l \in DOMAIN sq, sq[l] # sq[i] PROVE \E j \in DOMAIN r : r[j] = sq[l]
  <2>1. l # i BY <1>8
  <2>2. CASE l = n
    <3>1. i \in 1..(n - 1) BY <1>1, <2>1, <2>2
    <3> QED BY <1>3, <1>4, <2>2, <3>1
  <2>3. CASE l # n
    <3>1. l \in 1..(n - 1) BY <1>1, <2>3
    <3> QED BY <1>3, <1>4, <2>1, <3>1
  <2> QED BY <2>2, <2>3
<1>9. Len(r) <= n BY <1>1, <1>3
<1> QED BY <1>2, <1>6, <1>7, <1>8, <1>9 DEF Without, r, n

\* Callers no longer see what was dropped, and see the rest as before.
LEMMA ShowsWithout ==
  ASSUME NEW sq \in Seq(Slot), OneSlot(sq), NEW m, Shows(sq, m),
         NEW dropped, NEW r, Without(sq, dropped, r)
  PROVE  Shows(r, [id \in Ids |-> IF m[id] \in dropped THEN Nil ELSE m[id]])
<1> DEFINE k == [id \in Ids |-> IF m[id] \in dropped THEN Nil ELSE m[id]]
<1>1. m \in [Ids -> Slot] /\ Nil \in Slot BY DEF Shows, Slot
<1>2. k \in [Ids -> Slot] /\ \A id \in Ids : k[id] = IF m[id] \in dropped THEN Nil ELSE m[id]
  BY <1>1
<1> HIDE DEF k
<1>3. /\ \A j \in DOMAIN r : r[j] \notin dropped /\ \E l \in DOMAIN sq : r[j] = sq[l]
      /\ \A l \in DOMAIN sq : sq[l] \notin dropped => \E j \in DOMAIN r : r[j] = sq[l]
      /\ OneSlot(r)
  BY DEF Without
<1>4. ASSUME NEW id \in Ids
      PROVE  \/ k[id] = Nil /\ \A j \in DOMAIN r : r[j] = Nil \/ r[j].id # id
             \/ k[id] # Nil /\ \E j \in DOMAIN r : r[j] = k[id] /\ r[j].id = id
  <2>1. CASE m[id] = Nil
    <3>1. \A l \in DOMAIN sq : sq[l] = Nil \/ sq[l].id # id BY <2>1 DEF Shows
    <3> QED BY <1>2, <1>3, <2>1, <3>1
  <2>2. CASE m[id] # Nil
    <3>1. PICK l \in DOMAIN sq : sq[l] = m[id] /\ sq[l].id = id BY <2>2 DEF Shows
    <3>2. CASE m[id] \notin dropped
      <4>1. PICK j \in DOMAIN r : r[j] = sq[l] BY <1>3, <3>1, <3>2
      <4> QED BY <1>2, <2>2, <3>1, <3>2, <4>1
    <3>3. CASE m[id] \in dropped
      <4>1. ASSUME NEW j \in DOMAIN r, r[j] # Nil, r[j].id = id PROVE FALSE
        <5>1. PICK p \in DOMAIN sq : r[j] = sq[p] /\ r[j] \notin dropped BY <1>3
        <5>2. p = l BY <2>2, <3>1, <4>1, <5>1 DEF OneSlot
        <5> QED BY <3>1, <3>3, <5>1, <5>2
      <4> QED BY <1>2, <3>3, <4>1
    <3> QED BY <3>2, <3>3
  <2> QED BY <2>1, <2>2
<1> QED BY <1>2, <1>4 DEF Shows, k

\* A session is appended.
LEMMA ShowsAppended ==
  ASSUME NEW sq \in Seq(Slot), OneSlot(sq), NEW m, Shows(sq, m), NEW s \in Session,
         \A j \in DOMAIN sq : sq[j] = Nil \/ sq[j].id # s.id
  PROVE  LET r == Append(sq, s)
         IN  /\ r \in Seq(Slot) /\ Len(r) = Len(sq) + 1 /\ OneSlot(r)
             /\ Shows(r, [m EXCEPT ![s.id] = s])
<1> DEFINE r == Append(sq, s)
           k == [m EXCEPT ![s.id] = s]
           n == Len(sq)
<1>1. s \in Slot /\ s # Nil /\ s.id \in Ids BY SessionFields DEF Slot
<1>2. /\ r \in Seq(Slot) /\ Len(r) = n + 1 /\ n \in Nat /\ DOMAIN sq = 1..n
      /\ r[n + 1] = s /\ \A j \in 1..n : r[j] = sq[j]
  BY <1>1
<1>3. m \in [Ids -> Slot] BY DEF Shows
<1>4. k \in [Ids -> Slot] /\ k[s.id] = s /\ \A id \in Ids : id # s.id => k[id] = m[id]
  BY <1>1, <1>3
<1> HIDE DEF r, k, n
<1>5. /\ DOMAIN r = 1..(n + 1) /\ n + 1 \in DOMAIN r /\ DOMAIN sq \subseteq DOMAIN r
      /\ \A j \in DOMAIN r : j = n + 1 \/ j \in DOMAIN sq
  BY <1>2
<1>6. OneSlot(r)
  <2>1. ASSUME NEW j \in DOMAIN sq PROVE r[j] = sq[j] /\ (r[j] = Nil \/ r[j].id # s.id) BY <1>2
  <2> QED BY <1>2, <1>5, <2>1 DEF OneSlot
<1>7. ASSUME NEW id \in Ids
      PROVE  \/ k[id] = Nil /\ \A j \in DOMAIN r : r[j] = Nil \/ r[j].id # id
             \/ k[id] # Nil /\ \E j \in DOMAIN r : r[j] = k[id] /\ r[j].id = id
  <2>1. CASE id = s.id BY <1>1, <1>2, <1>4, <1>5, <2>1
  <2>2. CASE id # s.id
    <3>1. CASE m[id] = Nil
      <4>1. \A j \in DOMAIN sq : sq[j] = Nil \/ sq[j].id # id BY <3>1 DEF Shows
      <4> QED BY <1>2, <1>4, <1>5, <2>2, <3>1, <4>1
    <3>2. CASE m[id] # Nil
      <4>1. PICK j \in DOMAIN sq : sq[j] = m[id] /\ sq[j].id = id BY <3>2 DEF Shows
      <4> QED BY <1>2, <1>4, <1>5, <2>2, <3>2, <4>1
    <3> QED BY <3>1, <3>2
  <2> QED BY <2>1, <2>2
<1> QED BY <1>2, <1>4, <1>6, <1>7 DEF Shows, r, k, n

-----------------------------------------------------------------------------
(* The inductive invariant and the steps.                                   *)

\* The array is well formed and so is the last result.
MemInv ==
  /\ slots \in Seq(Slot) /\ OneSlot(slots)
  /\ capacity \in Nat /\ Len(slots) <= capacity
  /\ now \in 0..MaxTime
  /\ ret.ok \in BOOLEAN /\ ret.out \in Seq(Session)

\* What a result holds.
LEMMA ResultFields ==
  ASSUME NEW op, NEW arg, NEW ok \in BOOLEAN, NEW out, ret' = Result(op, arg, ok, out)
  PROVE  ret'.ok \in BOOLEAN /\ ret'.ok = ok /\ ret'.out = out
BY Zenon DEF Result

\* find and what callers see before a step.
LEMMA Before ==
  ASSUME MemInv
  PROVE  /\ Shows(slots, Stored) /\ Stored \in [Ids -> Slot]
         /\ \A id \in Ids :
              \/ /\ find(id) = 0 /\ Stored[id] = Nil
                 /\ \A i \in DOMAIN slots : slots[i] = Nil \/ slots[i].id # id
              \/ /\ find(id) # 0 /\ find(id) \in DOMAIN slots
                 /\ Stored[id] = slots[find(id)] /\ Stored[id] # Nil
                 /\ Stored[id] \in Session /\ Stored[id].id = id
<1>1. slots \in Seq(Slot) BY DEF MemInv
<1>2. \A id : find(id) = FindIn(slots, id) BY DEF find, FindIn
<1>3. Stored = StoredIn(slots) BY <1>2 DEF Stored, StoredIn
<1>4. Shows(slots, Stored) BY <1>1, <1>3, StoredShows
<1>5. Stored \in [Ids -> Slot] BY <1>4 DEF Shows
<1>6. ASSUME NEW id \in Ids
      PROVE  \/ /\ find(id) = 0 /\ Stored[id] = Nil
                /\ \A i \in DOMAIN slots : slots[i] = Nil \/ slots[i].id # id
             \/ /\ find(id) # 0 /\ find(id) \in DOMAIN slots
                /\ Stored[id] = slots[find(id)] /\ Stored[id] # Nil
                /\ Stored[id] \in Session /\ Stored[id].id = id
  <2>1. Stored[id] = IF find(id) = 0 THEN Nil ELSE slots[find(id)] BY DEF Stored
  <2>2. CASE find(id) = 0 BY <1>1, <1>2, <2>1, <2>2, FindSlot
  <2>3. CASE find(id) # 0
    <3>1. /\ find(id) \in DOMAIN slots
          /\ slots[find(id)] # Nil /\ slots[find(id)].id = id
      BY <1>1, <1>2, <2>3, FindSlot
    <3>2. slots[find(id)] \in Slot BY <1>1, <3>1
    <3>3. slots[find(id)] \in Session BY <3>1, <3>2 DEF Slot
    <3> QED BY <2>1, <2>3, <3>1, <3>3
  <2> QED BY <2>2, <2>3
<1> QED BY <1>4, <1>5, <1>6

\* What callers see after it.
LEMMA Afterwards ==
  ASSUME slots' \in Seq(Slot), OneSlot(slots'), NEW m, Shows(slots', m)
  PROVE  Stored' = m
<1>1. Stored' = StoredIn(slots') BY DEF Stored, StoredIn, find, FindIn, SelectInSeq
<1> QED BY <1>1, StoredIs

\* An array that is left alone still shows the same.
LEMMA Unmoved ==
  ASSUME UNCHANGED slots
  PROVE  Stored' = Stored
BY DEF Stored, find, SelectInSeq

\* Overwriting the slot that find returned: what callers see is s, or nothing
\* when the copy failed.
LEMMA OverwriteStep ==
  ASSUME MemInv, NEW op, NEW s \in Session, find(s.id) # 0, Overwrite(op, find(s.id), s)
  PROVE  /\ slots' \in Seq(Slot) /\ OneSlot(slots') /\ Len(slots') = Len(slots)
         /\ ret'.ok \in BOOLEAN /\ ret'.out \in Seq(Session)
         /\ \E ok \in BOOLEAN :
              /\ ret' = Result(op, s, ok, <<>>)
              /\ \/ ok /\ Stored' = [Stored EXCEPT ![s.id] = s]
                 \/ ~ok /\ AllocMayFail /\ Stored' = [Stored EXCEPT ![s.id] = Nil]
<1> DEFINE i == find(s.id)
<1>1. s.id \in Ids BY SessionFields
<1>2. /\ i \in DOMAIN slots /\ slots[i] # Nil /\ slots[i].id = s.id
      /\ Shows(slots, Stored)
  BY <1>1, Before
<1>3. slots \in Seq(Slot) /\ OneSlot(slots) BY DEF MemInv
<1> HIDE DEF i
<1>4. CASE slots' = [slots EXCEPT ![i] = s] /\ ret' = Result(op, s, TRUE, <<>>)
  <2>1. /\ slots' \in Seq(Slot) /\ OneSlot(slots') /\ Len(slots') = Len(slots)
        /\ Shows(slots', [Stored EXCEPT ![s.id] = s])
    BY <1>2, <1>3, <1>4, ShowsOverwritten
  <2>2. Stored' = [Stored EXCEPT ![s.id] = s] BY <2>1, Afterwards
  <2>3. PICK ok \in {TRUE} : ret' = Result(op, s, ok, <<>>) BY <1>4, Zenon
  <2>4. ok \in BOOLEAN /\ ok BY Zenon
  <2>5. ret'.ok \in BOOLEAN /\ ret'.out = <<>> BY <2>3, <2>4, ResultFields
  <2>6. ret'.out \in Seq(Session) BY <2>5
  <2> QED BY <2>1, <2>2, <2>3, <2>4, <2>5, <2>6
<1>5. CASE AllocMayFail /\ slots' = [slots EXCEPT ![i] = Nil] /\ ret' = Result(op, s, FALSE, <<>>)
  <2>1. /\ slots' \in Seq(Slot) /\ OneSlot(slots') /\ Len(slots') = Len(slots)
        /\ Shows(slots', [Stored EXCEPT ![s.id] = Nil])
    BY <1>2, <1>3, <1>5, ShowsZeroed
  <2>2. Stored' = [Stored EXCEPT ![s.id] = Nil] BY <2>1, Afterwards
  <2>3. PICK ok \in {FALSE} : ret' = Result(op, s, ok, <<>>) BY <1>5, Zenon
  <2>4. ok \in BOOLEAN /\ ~ok BY Zenon
  <2>5. ret'.ok \in BOOLEAN /\ ret'.out = <<>> BY <2>3, <2>4, ResultFields
  <2>6. ret'.out \in Seq(Session) BY <2>5
  <2> QED BY <1>5, <2>1, <2>2, <2>3, <2>4, <2>5, <2>6
<1> QED BY <1>4, <1>5 DEF Overwrite, i

\* create replaces the session of that identifier.
LEMMA CreateReplaceStep ==
  ASSUME MemInv, NEW s \in Inputs, CreateReplace(s)
  PROVE  MemInv' /\ Contract!CreateCall
<1>1. s \in Session BY MemoryAssumption
<1>2. find(s.id) # 0 /\ Overwrite("create", find(s.id), s) /\ UNCHANGED <<capacity, now>>
  BY DEF CreateReplace
<1>3. /\ slots' \in Seq(Slot) /\ OneSlot(slots') /\ Len(slots') = Len(slots)
      /\ ret'.ok \in BOOLEAN /\ ret'.out \in Seq(Session)
  BY <1>1, <1>2, OverwriteStep
<1>4. PICK ok \in BOOLEAN :
        /\ ret' = Result("create", s, ok, <<>>)
        /\ \/ ok /\ Stored' = [Stored EXCEPT ![s.id] = s]
           \/ ~ok /\ AllocMayFail /\ Stored' = [Stored EXCEPT ![s.id] = Nil]
  BY <1>1, <1>2, OverwriteStep
<1>5. MemInv' BY <1>2, <1>3 DEF MemInv
<1>6. Contract!Create(s, ok)
  BY <1>2, <1>4 DEF Contract!Create, Contract!Put, Contract!Torn
<1>7. Contract!Outcome("create", s, ok, <<>>)
  BY <1>4, Zenon DEF Contract!Outcome, Contract!Result, Result
<1>8. Contract!CreateCall BY <1>6, <1>7 DEF Contract!CreateCall
<1> QED BY <1>5, <1>8

\* memory_store_grow makes room for one slot.
LEMMA GrownRoom ==
  ASSUME MemInv
  PROVE  Grown \in Nat /\ Grown >= Len(slots) + 1 /\ Grown >= capacity
<1>1. capacity \in Nat /\ Len(slots) \in Nat /\ Len(slots) <= capacity BY DEF MemInv
<1>2. InitialCapacity \in Nat /\ InitialCapacity >= 1 BY MemoryAssumption
<1> QED BY <1>1, <1>2 DEF Grown, Full

\* create appends a new session.
LEMMA CreateAppendStep ==
  ASSUME MemInv, NEW s \in Inputs, CreateAppend(s)
  PROVE  MemInv' /\ Contract!CreateCall
<1>1. s \in Session /\ s.id \in Ids BY MemoryAssumption, SessionFields
<1>2. /\ find(s.id) = 0 /\ slots' = Append(slots, s) /\ capacity' = Grown
      /\ ret' = Result("create", s, TRUE, <<>>) /\ UNCHANGED now
  BY DEF CreateAppend
<1>3. /\ slots \in Seq(Slot) /\ OneSlot(slots) /\ Shows(slots, Stored)
      /\ \A i \in DOMAIN slots : slots[i] = Nil \/ slots[i].id # s.id
  BY <1>1, <1>2, Before DEF MemInv
<1>4. /\ slots' \in Seq(Slot) /\ Len(slots') = Len(slots) + 1 /\ OneSlot(slots')
      /\ Shows(slots', [Stored EXCEPT ![s.id] = s])
  BY <1>1, <1>2, <1>3, ShowsAppended
<1>5. Stored' = [Stored EXCEPT ![s.id] = s] BY <1>4, Afterwards
<1>6. PICK ok \in {TRUE} : ret' = Result("create", s, ok, <<>>) BY <1>2, Zenon
<1>7. ok \in BOOLEAN /\ ok BY Zenon
<1>8. ret'.ok \in BOOLEAN /\ ret'.out = <<>> BY <1>6, <1>7, ResultFields
<1>9. capacity' \in Nat /\ Len(slots') <= capacity' BY <1>2, <1>4, GrownRoom
<1>10. ret'.out \in Seq(Session) BY <1>8
<1>11. MemInv' BY <1>2, <1>4, <1>8, <1>9, <1>10 DEF MemInv
<1>12. Contract!Create(s, ok) BY <1>2, <1>5, <1>7 DEF Contract!Create, Contract!Put
<1>13. Contract!Outcome("create", s, ok, <<>>)
  BY <1>6, Zenon DEF Contract!Outcome, Contract!Result, Result
<1>14. Contract!CreateCall BY <1>7, <1>12, <1>13 DEF Contract!CreateCall
<1> QED BY <1>11, <1>14

\* create fails: no room, or no copy.
LEMMA CreateFailsStep ==
  ASSUME MemInv, NEW s \in Inputs, CreateFails(s)
  PROVE  MemInv' /\ Contract!CreateCall
<1>1. s \in Session /\ s.id \in Ids BY MemoryAssumption, SessionFields
<1>2. /\ AllocMayFail /\ UNCHANGED <<slots, now>>
      /\ capacity' = capacity \/ capacity' = Grown
      /\ ret' = Result("create", s, FALSE, <<>>)
  BY DEF CreateFails
<1>3. Stored' = Stored /\ Stored \in [Ids -> Slot] BY <1>2, Unmoved, Before
<1>4. Stored' = [Stored EXCEPT ![s.id] = Stored[s.id]] BY <1>1, <1>3
<1>5. PICK ok \in {FALSE} : ret' = Result("create", s, ok, <<>>) BY <1>2, Zenon
<1>6. ok \in BOOLEAN /\ ~ok BY Zenon
<1>7. ret'.ok \in BOOLEAN /\ ret'.out = <<>> BY <1>5, <1>6, ResultFields
<1>8. ret'.out \in Seq(Session) BY <1>7
<1>9. capacity' \in Nat /\ Len(slots') <= capacity'
  <2>1. Len(slots) \in Nat /\ Len(slots) <= capacity /\ capacity \in Nat BY DEF MemInv
  <2>2. Grown \in Nat /\ Grown >= Len(slots) + 1 BY GrownRoom
  <2> QED BY <1>2, <2>1, <2>2
<1>10. MemInv' BY <1>2, <1>7, <1>8, <1>9 DEF MemInv
<1>11. Contract!Create(s, ok)
  BY <1>2, <1>4, <1>6 DEF Contract!Create, Contract!Put, Contract!Torn
<1>12. Contract!Outcome("create", s, ok, <<>>)
  BY <1>5, Zenon DEF Contract!Outcome, Contract!Result, Result
<1>13. Contract!CreateCall BY <1>6, <1>11, <1>12 DEF Contract!CreateCall
<1> QED BY <1>10, <1>13

\* update: of an unknown identifier, or in place.
LEMMA UpdateStep ==
  ASSUME MemInv, NEW s \in Inputs, Update(s)
  PROVE  MemInv' /\ Contract!UpdateCall
<1>1. s \in Session /\ s.id \in Ids BY MemoryAssumption, SessionFields
<1>2. UNCHANGED <<capacity, now>> BY DEF Update
<1>3. CASE find(s.id) = 0 /\ ret' = Result("update", s, FALSE, <<>>) /\ UNCHANGED slots
  <2>1. Stored' = Stored BY <1>3, Unmoved
  <2>2. Stored[s.id] = Nil BY <1>1, <1>3, Before
  <2>3. PICK ok \in {FALSE} : ret' = Result("update", s, ok, <<>>) BY <1>3, Zenon
  <2>4. ok \in BOOLEAN /\ ~ok BY Zenon
  <2>5. ret'.ok \in BOOLEAN /\ ret'.out = <<>> BY <2>3, <2>4, ResultFields
  <2>6. ret'.out \in Seq(Session) BY <2>5
  <2>7. MemInv' BY <1>2, <1>3, <2>5, <2>6 DEF MemInv
  <2>8. Contract!Update(s, ok) BY <1>2, <2>1, <2>2, <2>4 DEF Contract!Update
  <2>9. Contract!Outcome("update", s, ok, <<>>)
    BY <2>3, Zenon DEF Contract!Outcome, Contract!Result, Result
  <2>10. Contract!UpdateCall BY <2>4, <2>8, <2>9 DEF Contract!UpdateCall
  <2> QED BY <2>7, <2>10
<1>4. CASE find(s.id) # 0 /\ Overwrite("update", find(s.id), s)
  <2>1. /\ slots' \in Seq(Slot) /\ OneSlot(slots') /\ Len(slots') = Len(slots)
        /\ ret'.ok \in BOOLEAN /\ ret'.out \in Seq(Session)
    BY <1>1, <1>4, OverwriteStep
  <2>2. PICK ok \in BOOLEAN :
          /\ ret' = Result("update", s, ok, <<>>)
          /\ \/ ok /\ Stored' = [Stored EXCEPT ![s.id] = s]
             \/ ~ok /\ AllocMayFail /\ Stored' = [Stored EXCEPT ![s.id] = Nil]
    BY <1>1, <1>4, OverwriteStep
  <2>3. Stored[s.id] # Nil BY <1>1, <1>4, Before
  <2>4. MemInv' BY <1>2, <2>1 DEF MemInv
  <2>5. Contract!Update(s, ok)
    BY <1>2, <2>2, <2>3 DEF Contract!Update, Contract!Put, Contract!Torn
  <2>6. Contract!Outcome("update", s, ok, <<>>)
    BY <2>2, Zenon DEF Contract!Outcome, Contract!Result, Result
  <2>7. Contract!UpdateCall BY <2>5, <2>6 DEF Contract!UpdateCall
  <2> QED BY <2>4, <2>7
<1> QED BY <1>3, <1>4 DEF Update

\* An array with slots taken out is still well formed.
LEMMA WithoutKeeps ==
  ASSUME MemInv, NEW dropped, Without(slots, dropped, slots'), UNCHANGED <<capacity, now>>,
         ret'.ok \in BOOLEAN, ret'.out \in Seq(Session)
  PROVE  MemInv'
<1>1. slots' \in Seq(Slot) /\ Len(slots') <= Len(slots) /\ OneSlot(slots') BY DEF Without
<1>2. slots \in Seq(Slot) /\ Len(slots) <= capacity /\ capacity \in Nat BY DEF MemInv
<1>3. Len(slots') <= capacity BY <1>1, <1>2
<1> QED BY <1>1, <1>3 DEF MemInv

\* Removing the slot that find returned takes that session from the callers.
LEMMA RemoveStep ==
  ASSUME MemInv, NEW id \in Ids, find(id) # 0, slots' = remove_at(slots, find(id))
  PROVE  /\ Without(slots, {slots[find(id)]}, slots')
         /\ Stored' = [Stored EXCEPT ![id] = Nil]
<1> DEFINE s == slots[find(id)]
           m == [d \in Ids |-> IF Stored[d] \in {s} THEN Nil ELSE Stored[d]]
<1>1. slots \in Seq(Slot) /\ OneSlot(slots) BY DEF MemInv
<1>2. /\ Shows(slots, Stored) /\ Stored \in [Ids -> Slot]
      /\ find(id) \in DOMAIN slots /\ Stored[id] = s /\ s # Nil /\ s.id = id
  BY Before
<1>3. \A d \in Ids : Stored[d] # Nil => Stored[d].id = d BY Before
<1>4. Without(slots, {s}, slots') BY <1>1, <1>2, RemovedOne
<1>5. m = [Stored EXCEPT ![id] = Nil] BY <1>2, <1>3
<1>6. Shows(slots', m) BY <1>1, <1>2, <1>4, ShowsWithout
<1>7. slots' \in Seq(Slot) /\ OneSlot(slots') BY <1>4 DEF Without
<1> HIDE DEF m
<1>8. Stored' = m BY <1>6, <1>7, Afterwards
<1> QED BY <1>4, <1>5, <1>8

\* A get that returns nothing.
LEMMA GetNothing ==
  ASSUME NEW id \in Ids, ret' = Result("get", id, FALSE, <<>>), Contract!Get(id, Nil)
  PROVE  Contract!GetCall
<1>1. (Nil # Nil) = FALSE BY Zenon
<1>2. Contract!Outcome("get", id, Nil # Nil, IF Nil = Nil THEN <<>> ELSE <<Nil>>)
  BY <1>1, Zenon DEF Contract!Outcome, Contract!Result, Result
<1> QED BY <1>2, Zenon DEF Contract!GetCall

\* get finds nothing.
LEMMA GetMissingStep ==
  ASSUME MemInv, NEW id \in Ids, GetMissing(id)
  PROVE  MemInv' /\ Contract!GetCall
<1>1. /\ find(id) = 0 /\ ret' = Result("get", id, FALSE, <<>>)
      /\ UNCHANGED <<slots, capacity, now>>
  BY DEF GetMissing
<1>2. Stored' = Stored /\ Stored[id] = Nil BY <1>1, Unmoved, Before
<1>3. PICK ok \in {FALSE} : ret' = Result("get", id, ok, <<>>) BY <1>1, Zenon
<1>4. ok \in BOOLEAN /\ ~ok BY Zenon
<1>5. ret'.ok \in BOOLEAN /\ ret'.out = <<>> BY <1>3, <1>4, ResultFields
<1>6. ret'.out \in Seq(Session) BY <1>5
<1>7. MemInv' BY <1>1, <1>5, <1>6 DEF MemInv
<1>8. Contract!Get(id, Nil) BY <1>1, <1>2 DEF Contract!Get
<1>9. Contract!GetCall BY <1>1, <1>8, GetNothing
<1> QED BY <1>7, <1>9

\* get meets an expired session and removes it.
LEMMA GetExpiredStep ==
  ASSUME MemInv, NEW id \in Ids, GetExpired(id)
  PROVE  MemInv' /\ Contract!GetCall
<1>1. /\ find(id) # 0 /\ is_expired(slots[find(id)]) /\ slots' = remove_at(slots, find(id))
      /\ ret' = Result("get", id, FALSE, <<>>) /\ UNCHANGED <<capacity, now>>
  BY DEF GetExpired
<1>2. /\ Without(slots, {slots[find(id)]}, slots')
      /\ Stored' = [Stored EXCEPT ![id] = Nil]
  BY <1>1, RemoveStep
<1>3. Stored[id] # Nil /\ IsExpired(Stored[id], now) BY <1>1, Before DEF is_expired
<1>4. PICK ok \in {FALSE} : ret' = Result("get", id, ok, <<>>) BY <1>1, Zenon
<1>5. ok \in BOOLEAN /\ ~ok BY Zenon
<1>6. ret'.ok \in BOOLEAN /\ ret'.out = <<>> BY <1>4, <1>5, ResultFields
<1>7. ret'.out \in Seq(Session) BY <1>6
<1>8. MemInv' BY <1>1, <1>2, <1>6, <1>7, WithoutKeeps
<1>9. Contract!Get(id, Nil)
  BY <1>1, <1>2, <1>3 DEF Contract!Get, Contract!Put, IsExpired, Contract!IsExpired
<1>10. Contract!GetCall BY <1>1, <1>9, GetNothing
<1> QED BY <1>8, <1>10

\* get copies a live session.
LEMMA GetLiveStep ==
  ASSUME MemInv, NEW id \in Ids, GetLive(id)
  PROVE  MemInv' /\ Contract!GetCall
<1>1. /\ find(id) # 0 /\ ~is_expired(slots[find(id)])
      /\ UNCHANGED <<slots, capacity, now>>
  BY DEF GetLive
<1>2. /\ Stored' = Stored /\ Stored[id] = slots[find(id)] /\ Stored[id] # Nil
      /\ Stored[id] \in Session
  BY <1>1, Unmoved, Before
<1>3. CASE ret' = Result("get", id, TRUE, <<slots[find(id)]>>)
  <2>1. PICK ok \in {TRUE} : ret' = Result("get", id, ok, <<Stored[id]>>) BY <1>2, <1>3, Zenon
  <2>2. ok \in BOOLEAN /\ ok BY Zenon
  <2>3. ret'.ok \in BOOLEAN /\ ret'.out = <<Stored[id]>> BY <2>1, <2>2, ResultFields
  <2>4. ret'.out \in Seq(Session) BY <1>2, <2>3
  <2>5. MemInv' BY <1>1, <2>3, <2>4 DEF MemInv
  <2>6. ~IsExpired(Stored[id], now) BY <1>1, <1>2 DEF is_expired
  <2>7. Contract!Get(id, Stored[id])
    BY <1>1, <1>2, <2>6 DEF Contract!Get, IsExpired, Contract!IsExpired
  <2>8. Contract!Outcome("get", id, Stored[id] # Nil,
                         IF Stored[id] = Nil THEN <<>> ELSE <<Stored[id]>>)
    <3>1. (Stored[id] # Nil) = ok BY <1>2, <2>2, Zenon
    <3>2. (IF Stored[id] = Nil THEN <<>> ELSE <<Stored[id]>>) = <<Stored[id]>> BY <1>2, Zenon
    <3>3. Contract!Outcome("get", id, ok, <<Stored[id]>>)
      BY <2>1, Zenon DEF Contract!Outcome, Contract!Result, Result
    <3> QED BY <3>1, <3>2, <3>3, Zenon
  <2>9. Contract!GetCall BY <2>7, <2>8, Zenon DEF Contract!GetCall
  <2> QED BY <2>5, <2>9
<1>4. CASE AllocMayFail /\ ret' = Result("get", id, FALSE, <<>>)
  <2>1. PICK ok \in {FALSE} : ret' = Result("get", id, ok, <<>>) BY <1>4, Zenon
  <2>2. ok \in BOOLEAN /\ ~ok BY Zenon
  <2>3. ret'.ok \in BOOLEAN /\ ret'.out = <<>> BY <2>1, <2>2, ResultFields
  <2>4. ret'.out \in Seq(Session) BY <2>3
  <2>5. MemInv' BY <1>1, <2>3, <2>4 DEF MemInv
  <2>6. Contract!Get(id, Nil) BY <1>1, <1>2, <1>4 DEF Contract!Get
  <2>7. Contract!GetCall BY <1>4, <2>6, GetNothing
  <2> QED BY <2>5, <2>7
<1> QED BY <1>3, <1>4 DEF GetLive

\* delete, of a known identifier or not.
LEMMA DeleteStep ==
  ASSUME MemInv, NEW id \in Ids, Delete(id)
  PROVE  MemInv' /\ Contract!DeleteCall
<1>1. /\ slots' = IF find(id) # 0 THEN remove_at(slots, find(id)) ELSE slots
      /\ ret' = Result("delete", id, TRUE, <<>>) /\ UNCHANGED <<capacity, now>>
  BY DEF Delete
<1>2. PICK ok \in {TRUE} : ret' = Result("delete", id, ok, <<>>) BY <1>1, Zenon
<1>3. ok \in BOOLEAN /\ ok BY Zenon
<1>4. ret'.ok \in BOOLEAN /\ ret'.out = <<>> BY <1>2, <1>3, ResultFields
<1>5. ret'.out \in Seq(Session) BY <1>4
<1>6. MemInv' /\ Stored' = [Stored EXCEPT ![id] = Nil]
  <2>1. CASE find(id) = 0
    <3>1. UNCHANGED slots BY <1>1, <2>1
    <3>2. Stored' = Stored /\ Stored[id] = Nil /\ Stored \in [Ids -> Slot]
      BY <2>1, <3>1, Unmoved, Before
    <3>3. Stored' = [Stored EXCEPT ![id] = Nil] BY <3>2
    <3> QED BY <1>1, <1>4, <1>5, <3>1, <3>3 DEF MemInv
  <2>2. CASE find(id) # 0
    <3>1. slots' = remove_at(slots, find(id)) BY <1>1, <2>2
    <3>2. /\ Without(slots, {slots[find(id)]}, slots')
          /\ Stored' = [Stored EXCEPT ![id] = Nil]
      BY <2>2, <3>1, RemoveStep
    <3> QED BY <1>1, <1>4, <1>5, <3>2, WithoutKeeps
  <2> QED BY <2>1, <2>2
<1>7. Contract!Delete(id, ok) BY <1>1, <1>3, <1>6 DEF Contract!Delete, Contract!Put
<1>8. Contract!Outcome("delete", id, ok, <<>>)
  BY <1>2, Zenon DEF Contract!Outcome, Contract!Result, Result
<1>9. Contract!DeleteCall BY <1>3, <1>7, <1>8 DEF Contract!DeleteCall
<1> QED BY <1>6, <1>9

\* A sweep takes the sessions it drops from the callers.
LEMMA SweepStep ==
  ASSUME MemInv, NEW dropped, slots' = Sweep(slots, dropped)
  PROVE  /\ Without(slots, dropped, slots')
         /\ Stored' = [d \in Ids |-> IF Stored[d] \in dropped THEN Nil ELSE Stored[d]]
<1> DEFINE m == [d \in Ids |-> IF Stored[d] \in dropped THEN Nil ELSE Stored[d]]
<1>1. slots \in Seq(Slot) /\ OneSlot(slots) BY DEF MemInv
<1>2. Without(slots, dropped, slots') BY <1>1, SweepDone
<1>3. Shows(slots, Stored) BY Before
<1>4. Shows(slots', m) BY <1>1, <1>2, <1>3, ShowsWithout
<1>5. slots' \in Seq(Slot) /\ OneSlot(slots') BY <1>2 DEF Without
<1> HIDE DEF m
<1>6. Stored' = m BY <1>4, <1>5, Afterwards
<1> QED BY <1>2, <1>6 DEF m

\* The sessions that find reaches are the ones in the slots.
LEMMA SlotsAreStored ==
  ASSUME MemInv
  PROVE  /\ \A d \in Ids : Stored[d] # Nil => \E i \in DOMAIN slots : slots[i] = Stored[d]
         /\ \A i \in DOMAIN slots : slots[i] # Nil =>
              /\ slots[i] \in Session /\ slots[i].id \in Ids
              /\ Stored[slots[i].id] = slots[i]
<1>1. slots \in Seq(Slot) /\ OneSlot(slots) BY DEF MemInv
<1>2. \A d \in Ids : Stored[d] # Nil => \E i \in DOMAIN slots : slots[i] = Stored[d] BY Before
<1>3. ASSUME NEW i \in DOMAIN slots, slots[i] # Nil
      PROVE  slots[i] \in Session /\ slots[i].id \in Ids /\ Stored[slots[i].id] = slots[i]
  <2>1. slots[i] \in Slot BY <1>1
  <2>2. slots[i] \in Session BY <1>3, <2>1 DEF Slot
  <2>3. slots[i].id \in Ids BY <2>2, SessionFields
  <2> DEFINE d == slots[i].id
             j == find(d)
  <2>4. j \in DOMAIN slots /\ Stored[d] = slots[j] /\ Stored[d] # Nil /\ Stored[d].id = d
    BY <1>3, <2>3, Before
  <2> HIDE DEF j
  <2>5. i = j BY <1>1, <1>3, <2>4 DEF OneSlot
  <2> QED BY <2>2, <2>3, <2>4, <2>5
<1> QED BY <1>2, <1>3

\* delete_by_user_id removes the user's sessions.
LEMMA DeleteByUserIdStep ==
  ASSUME MemInv, NEW u \in Users, DeleteByUserId(u)
  PROVE  MemInv' /\ Contract!DeleteByUserIdCall
<1> DEFINE dropped == {s \in Range(slots) : has_user(s, u)}
<1>1. /\ slots' = Sweep(slots, dropped)
      /\ ret' = Result("delete_by_user_id", u, TRUE, <<>>) /\ UNCHANGED <<capacity, now>>
  BY DEF DeleteByUserId
<1>2. PICK ok \in {TRUE} : ret' = Result("delete_by_user_id", u, ok, <<>>) BY <1>1, Zenon
<1>3. ok \in BOOLEAN /\ ok BY Zenon
<1>4. ret'.ok \in BOOLEAN /\ ret'.out = <<>> BY <1>2, <1>3, ResultFields
<1>5. ret'.out \in Seq(Session) BY <1>4
<1>6. \A d \in Ids : Stored[d] \in dropped <=> d \in Contract!Owned(u)
  BY SlotsAreStored DEF Contract!Owned, has_user, Range
<1> HIDE DEF dropped
<1>7. /\ Without(slots, dropped, slots')
      /\ Stored' = [d \in Ids |-> IF Stored[d] \in dropped THEN Nil ELSE Stored[d]]
  BY <1>1, SweepStep
<1>8. MemInv' BY <1>1, <1>4, <1>5, <1>7, WithoutKeeps
<1>9. Contract!Remove(Contract!Owned(u)) BY <1>6, <1>7 DEF Contract!Remove
<1>10. Contract!Outcome("delete_by_user_id", u, ok, <<>>)
  BY <1>2, Zenon DEF Contract!Outcome, Contract!Result, Result
<1>11. Contract!DeleteByUserIdCall
  BY <1>1, <1>3, <1>9, <1>10 DEF Contract!DeleteByUserIdCall
<1> QED BY <1>8, <1>11

\* get_by_user_id purges every expired session and lists the user's live ones,
\* or fails for want of memory.
LEMMA GetByUserIdStep ==
  ASSUME MemInv, NEW u \in Users, GetByUserId(u)
  PROVE  MemInv' /\ Contract!GetByUserIdCall
<1> DEFINE dropped == {s \in Range(slots) : is_expired(s)}
           out == matches(slots', u)
           live == {Stored[d] : d \in Contract!Owned(u) \ Contract!Expired}
<1>1. slots' = Sweep(slots, dropped) /\ UNCHANGED <<capacity, now>> BY DEF GetByUserId
<1>2. \A d \in Ids : Stored[d] \in dropped <=> d \in Contract!Expired
  BY SlotsAreStored DEF Contract!Expired, is_expired, Range, IsExpired, Contract!IsExpired
<1> HIDE DEF dropped
<1>3. /\ Without(slots, dropped, slots')
      /\ Stored' = [d \in Ids |-> IF Stored[d] \in dropped THEN Nil ELSE Stored[d]]
  BY <1>1, SweepStep
<1>4. Contract!Remove(Contract!Expired) BY <1>2, <1>3 DEF Contract!Remove
<1>5. slots' \in Seq(Slot) /\ OneSlot(slots') BY <1>3 DEF Without
<1>6. Copied(slots', u, Len(slots'), out) BY <1>5, MatchesDone
<1> HIDE DEF out
<1>7. /\ out \in Seq(Session)
      /\ \A i, j \in DOMAIN out : out[i] = out[j] => i = j
      /\ \A j \in DOMAIN out : \E l \in DOMAIN slots' : out[j] = slots'[l] /\ has_user(slots'[l], u)
      /\ \A l \in DOMAIN slots' : has_user(slots'[l], u) => \E j \in DOMAIN out : out[j] = slots'[l]
  <2>1. DOMAIN slots' = 1..Len(slots') BY <1>5
  <2> QED BY <1>6, <2>1 DEF Copied
<1>8. {out[i] : i \in DOMAIN out} = live
  <2>1. ASSUME NEW i \in DOMAIN out PROVE out[i] \in live
    <3>1. PICK l \in DOMAIN slots' : out[i] = slots'[l] /\ has_user(slots'[l], u) BY <1>7
    <3>2. PICK p \in DOMAIN slots : slots'[l] = slots[p] /\ slots'[l] \notin dropped
      BY <1>3 DEF Without
    <3> DEFINE d == slots[p].id
    <3>3. slots[p] # Nil /\ slots[p].user_id = u BY <3>1, <3>2 DEF has_user
    <3>4. d \in Ids /\ Stored[d] = slots[p] BY <3>3, SlotsAreStored
    <3> HIDE DEF d
    <3>5. d \in Contract!Owned(u) BY <3>3, <3>4 DEF Contract!Owned
    <3>6. d \notin Contract!Expired BY <1>2, <3>2, <3>4
    <3> QED BY <3>1, <3>2, <3>4, <3>5, <3>6
  <2>2. ASSUME NEW d \in Contract!Owned(u) \ Contract!Expired
        PROVE  \E i \in DOMAIN out : out[i] = Stored[d]
    <3>1. d \in Ids /\ Stored[d] # Nil /\ Stored[d].user_id = u /\ Stored[d] \notin dropped
      BY <1>2 DEF Contract!Owned
    <3>2. PICK p \in DOMAIN slots : slots[p] = Stored[d] BY <3>1, SlotsAreStored
    <3>3. PICK l \in DOMAIN slots' : slots'[l] = slots[p] BY <1>3, <3>1, <3>2 DEF Without
    <3>4. has_user(slots'[l], u) BY <3>1, <3>2, <3>3 DEF has_user
    <3>5. PICK j \in DOMAIN out : out[j] = slots'[l] BY <1>7, <3>4
    <3> QED BY <3>2, <3>3, <3>5
  <2> QED BY <2>1, <2>2
<1>9. Contract!Lists(out, live)
  <2>1. Len(out) = Cardinality({out[i] : i \in DOMAIN out}) BY <1>7, ListedOnce
  <2> HIDE DEF live
  <2>2. Len(out) = Cardinality(live) BY <1>8, <2>1
  <2>3. Contract!Cardinality(live) = Cardinality(live)
    BY Zenon DEF Cardinality, Contract!Cardinality
  <2> QED BY <1>8, <2>2, <2>3 DEF Contract!Lists
<1> HIDE DEF live
<1>10. CASE ret' = Result("get_by_user_id", u, TRUE, out)
  <2>1. PICK ok \in {TRUE} : ret' = Result("get_by_user_id", u, ok, out) BY <1>10, Zenon
  <2>2. ok \in BOOLEAN /\ ok = TRUE BY Zenon
  <2>3. ret'.ok \in BOOLEAN /\ ret'.ok = ok /\ ret'.out = out BY <2>1, <2>2, ResultFields
  <2>4. MemInv' BY <1>1, <1>3, <1>7, <2>3, WithoutKeeps
  <2>5. Contract!Outcome("get_by_user_id", u, ret'.ok, ret'.out)
    BY <2>1, <2>3, Zenon DEF Contract!Outcome, Contract!Result, Result
  <2>6. ret'.ok = TRUE /\ Contract!Lists(ret'.out, live) BY <1>9, <2>2, <2>3, Zenon
  <2>7. Contract!GetByUserIdCall
    BY <1>1, <1>4, <2>5, <2>6, Zenon DEF Contract!GetByUserIdCall, live
  <2> QED BY <2>4, <2>7
<1>11. CASE AllocMayFail /\ ret' = Result("get_by_user_id", u, FALSE, <<>>)
  <2>1. PICK ok \in {FALSE} : ret' = Result("get_by_user_id", u, ok, <<>>) BY <1>11, Zenon
  <2>2. ok \in BOOLEAN /\ ok = FALSE BY Zenon
  <2>3. ret'.ok \in BOOLEAN /\ ret'.ok = ok /\ ret'.out = <<>> BY <2>1, <2>2, ResultFields
  <2>4. ret'.out \in Seq(Session) BY <2>3
  <2>5. MemInv' BY <1>1, <1>3, <2>3, <2>4, WithoutKeeps
  <2>6. Contract!Outcome("get_by_user_id", u, ret'.ok, ret'.out)
    BY <2>1, <2>3, Zenon DEF Contract!Outcome, Contract!Result, Result
  <2>7. ret'.ok = FALSE /\ AllocMayFail /\ ret'.out = <<>> BY <1>11, <2>2, <2>3, Zenon
  <2>8. Contract!GetByUserIdCall
    BY <1>1, <1>4, <2>6, <2>7, Zenon DEF Contract!GetByUserIdCall
  <2> QED BY <2>5, <2>8
<1> QED BY <1>10, <1>11, Zenon DEF GetByUserId, out

\* destroy and create: an empty array.
LEMMA RestartStep ==
  ASSUME MemInv, Restart
  PROVE  MemInv' /\ Contract!RestartCall
<1>1. /\ slots' = <<>> /\ capacity' = 0 /\ UNCHANGED now
      /\ ret' = Result("restart", Nil, TRUE, <<>>)
  BY DEF Restart
<1>2. PICK ok \in {TRUE} : ret' = Result("restart", Nil, ok, <<>>) BY <1>1, Zenon
<1>3. ok \in BOOLEAN BY Zenon
<1>4. ret'.ok \in BOOLEAN /\ ret'.out = <<>> BY <1>2, <1>3, ResultFields
<1>5. ret'.out \in Seq(Session) BY <1>4
<1>6. slots' \in Seq(Slot) /\ Len(slots') = 0 /\ DOMAIN slots' = {} BY <1>1
<1>7. OneSlot(slots') BY <1>6 DEF OneSlot
<1>8. MemInv'
  <2>1. capacity' \in Nat /\ Len(slots') <= capacity' /\ now' = now BY <1>1, <1>6
  <2> QED BY <1>4, <1>5, <1>6, <1>7, <2>1 DEF MemInv
<1>9. Shows(slots', [id \in Ids |-> Nil]) BY <1>6 DEF Shows, Slot
<1>10. Stored' = [id \in Ids |-> Nil] BY <1>6, <1>7, <1>9, Afterwards
<1>11. Contract!Remove(Ids) BY <1>10 DEF Contract!Remove
<1>12. Contract!Outcome("restart", Nil, TRUE, <<>>)
  BY <1>1, Zenon DEF Contract!Outcome, Contract!Result, Result
<1>13. Contract!RestartCall BY <1>1, <1>11, <1>12, Zenon DEF Contract!RestartCall
<1> QED BY <1>8, <1>13

\* Time passes.
LEMMA TickStep ==
  ASSUME MemInv, Tick
  PROVE  MemInv' /\ Contract!Tick /\ UNCHANGED ret
<1>1. now < MaxTime /\ now' = now + 1 /\ UNCHANGED <<slots, capacity, ret>> BY DEF Tick
<1>2. Stored' = Stored BY <1>1, Unmoved
<1>3. now' \in 0..MaxTime BY <1>1, MemoryAssumption DEF MemInv
<1>4. MemInv' BY <1>1, <1>3 DEF MemInv
<1>5. Contract!Tick BY <1>1, <1>2 DEF Contract!Tick
<1> QED BY <1>1, <1>4, <1>5

\* The store starts empty, and so does the contract.
LEMMA MemoryStarts ==
  ASSUME Init
  PROVE  MemInv /\ Contract!AbstractInit
<1>1. slots = <<>> /\ capacity = 0 /\ now = 0 /\ ret = Result("none", Nil, TRUE, <<>>)
  BY DEF Init
<1>2. slots \in Seq(Slot) /\ Len(slots) = 0 /\ DOMAIN slots = {} BY <1>1
<1>3. OneSlot(slots) BY <1>2 DEF OneSlot
<1>4. ret.ok = TRUE /\ ret.out = <<>> BY <1>1, Zenon DEF Result
<1>5. ret.ok \in BOOLEAN BY <1>4, Zenon
<1>6. ret.out \in Seq(Session) BY <1>4
<1>7. now \in 0..MaxTime BY <1>1, MemoryAssumption
<1>8. MemInv
  <2>1. capacity \in Nat /\ Len(slots) <= capacity BY <1>1, <1>2
  <2> QED BY <1>2, <1>3, <1>5, <1>6, <1>7, <2>1 DEF MemInv
<1>9. Shows(slots, Stored) BY <1>8, Before
<1>10. Stored = [id \in Ids |-> Nil] BY <1>2, <1>9 DEF Shows
<1>11. Contract!StoreInit BY <1>1, <1>10 DEF Contract!StoreInit
<1>12. ret = Contract!Result("none", Nil, TRUE, <<>>) BY <1>1, Zenon DEF Contract!Result, Result
<1> QED BY <1>8, <1>11, <1>12, Zenon DEF Contract!AbstractInit

\* Every step keeps the array well formed and is a step of the contract.
LEMMA MemoryStep ==
  ASSUME MemInv, [Next]_vars
  PROVE  MemInv' /\ [Contract!AbstractNext]_Contract!abstractVars
<1>1. CASE UNCHANGED vars
  <2>1. UNCHANGED <<slots, capacity, now, ret>> BY <1>1 DEF vars
  <2>2. Stored' = Stored BY <2>1, Unmoved
  <2>3. MemInv' BY <2>1 DEF MemInv
  <2>4. UNCHANGED Contract!abstractVars
    BY <2>1, <2>2 DEF Contract!abstractVars, Contract!storeVars
  <2> QED BY <2>3, <2>4
<1>2. ASSUME NEW s \in Inputs, CreateReplace(s)
      PROVE  MemInv' /\ Contract!AbstractNext
  BY <1>2, CreateReplaceStep DEF Contract!AbstractNext
<1>3. ASSUME NEW s \in Inputs, CreateAppend(s)
      PROVE  MemInv' /\ Contract!AbstractNext
  BY <1>3, CreateAppendStep DEF Contract!AbstractNext
<1>4. ASSUME NEW s \in Inputs, CreateFails(s)
      PROVE  MemInv' /\ Contract!AbstractNext
  BY <1>4, CreateFailsStep DEF Contract!AbstractNext
<1>5. ASSUME NEW s \in Inputs, Update(s)
      PROVE  MemInv' /\ Contract!AbstractNext
  BY <1>5, UpdateStep DEF Contract!AbstractNext
<1>6. ASSUME NEW id \in Ids, GetMissing(id)
      PROVE  MemInv' /\ Contract!AbstractNext
  BY <1>6, GetMissingStep DEF Contract!AbstractNext
<1>7. ASSUME NEW id \in Ids, GetExpired(id)
      PROVE  MemInv' /\ Contract!AbstractNext
  BY <1>7, GetExpiredStep DEF Contract!AbstractNext
<1>8. ASSUME NEW id \in Ids, GetLive(id)
      PROVE  MemInv' /\ Contract!AbstractNext
  BY <1>8, GetLiveStep DEF Contract!AbstractNext
<1>9. ASSUME NEW id \in Ids, Delete(id)
      PROVE  MemInv' /\ Contract!AbstractNext
  BY <1>9, DeleteStep DEF Contract!AbstractNext
<1>10. ASSUME NEW u \in Users, GetByUserId(u)
       PROVE  MemInv' /\ Contract!AbstractNext
  BY <1>10, GetByUserIdStep DEF Contract!AbstractNext
<1>11. ASSUME NEW u \in Users, DeleteByUserId(u)
       PROVE  MemInv' /\ Contract!AbstractNext
  BY <1>11, DeleteByUserIdStep DEF Contract!AbstractNext
<1>12. ASSUME Restart
       PROVE  MemInv' /\ Contract!AbstractNext
  BY <1>12, RestartStep DEF Contract!AbstractNext
<1>13. ASSUME Tick
       PROVE  MemInv' /\ Contract!AbstractNext
  BY <1>13, TickStep DEF Contract!AbstractNext
<1>14. ASSUME Next PROVE MemInv' /\ Contract!AbstractNext
  BY <1>2, <1>3, <1>4, <1>5, <1>6, <1>7, <1>8, <1>9, <1>10, <1>11, <1>12, <1>13, <1>14
  DEF Next
<1> QED BY <1>1, <1>14

-----------------------------------------------------------------------------
\* memory.c keeps its array well formed: one slot for each identifier, slots
\* that hold sessions or were zeroed, and never more slots than it allocated,
\* for every number of sessions, every first capacity and whatever allocation
\* fails.
THEOREM MemoryTypeCorrect == Spec => []MemoryTypeOK
<1>1. Init => MemInv BY MemoryStarts
<1>2. MemInv /\ [Next]_vars => MemInv' BY MemoryStep
<1>3. MemInv => MemoryTypeOK
  BY DEF MemInv, MemoryTypeOK, Slot, OneSlot, OneSlotPerId
<1> QED BY <1>1, <1>2, <1>3, PTL DEF Spec

\* memory.c implements the contract of store.h: whatever it does to its array,
\* with its swaps, sweeps and zeroed slots, its callers see only steps the
\* contract allows, and results that agree with them.
THEOREM MemoryImplementsStore == Spec => ImplementsStore
<1>1. Init => MemInv /\ Contract!AbstractInit BY MemoryStarts
<1>2. MemInv /\ [Next]_vars => MemInv' /\ [Contract!AbstractNext]_Contract!abstractVars
  BY MemoryStep
<1> QED BY <1>1, <1>2, PTL DEF Spec, ImplementsStore, Contract!StoreSpec
=============================================================================
