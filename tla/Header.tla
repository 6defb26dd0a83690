------------------------------- MODULE Header -------------------------------
(***************************************************************************)
(* The structured headers of header.c: the serialisers, the parser of a     *)
(* quoted string and the parser of Secure-Session-Skipped, one action per   *)
(* part of its loop, run by the wrapper on every request.                   *)
(*                                                                         *)
(* Two levels of text.  A quoted string is a sequence of characters, told   *)
(* apart as far as the scanners do: the quote, the backslash, white space   *)
(* and any other.  A list is a sequence of lexemes: what the parser skips   *)
(* or takes as one piece.  A quoted string that is closed is the lexeme     *)
(* "str", one that runs into the end of the text "open"; "bad" is any       *)
(* character with no part in the grammar.                                   *)
(***************************************************************************)
EXTENDS Allocation, FiniteSets, FiniteSetsExt, SequencesExt

CONSTANTS
  SkippedValues,  \* Secure-Session-Skipped values that requests come with
  EntryLists,     \* entries that clients serialize into one
  QuotedValues,   \* Secure-Session-Response values, as characters
  Registrations,  \* arguments of registration_serialize
  TornStrings,    \* values with bare quotes, and the lexemes each of them is
                  \* between two more
  TornTokens      \* reasons that are no token, and their lexemes

Lexeme(k, v) == [k |-> k, v |-> v]

Space == Lexeme("space", "")
Comma == Lexeme("comma", "")
Semi == Lexeme("semi", "")
Equal == Lexeme("equal", "")
Open == Lexeme("open", "")
Bad == Lexeme("bad", "")
Tok(name) == Lexeme("tok", name)
Str(v) == Lexeme("str", v)

\* A text: lexemes of these kinds, and no NULL for a string.
Kinds == {"space", "comma", "semi", "equal", "open", "bad", "tok", "str"}

IsText(v) ==
  /\ v \in Seq(Range(v))
  /\ \A i \in DOMAIN v : v[i].k \in Kinds /\ (v[i].k = "str" => v[i].v # Nil)

\* Two tokens side by side are one, and nothing follows an open string.
WellLexed(v) ==
  \A i \in 1..(Len(v) - 1) :
    v[i].k # "open" /\ ~(v[i].k = "tok" /\ v[i + 1].k = "tok")

\* What is left between two quotes of a torn value has no bare quote in it.
IsTorn(v) ==
  /\ IsText(v)
  /\ \A i \in DOMAIN v : v[i].k = "str" => v[i].v \notin DOMAIN TornStrings

\* What the scanner of a quoted string tells apart.
Char == {"quote", "backslash", "space", "other"}

ASSUME HeaderAssumption ==
  /\ \A v \in SkippedValues : IsText(v) /\ WellLexed(v)
  /\ \A s \in EntryLists :
       /\ s \in Seq(Range(s))
       /\ \A n \in DOMAIN s :
            s[n] = [reason |-> s[n].reason, session_id |-> s[n].session_id]
  /\ \A v \in DOMAIN TornStrings : IsTorn(TornStrings[v])
  /\ \A v \in DOMAIN TornTokens : IsTorn(TornTokens[v])
  /\ Nil \notin {0, -1, ""}
  /\ QuotedValues \subseteq Seq(Char) /\ Nil \notin Seq(Char)

VARIABLES
  source,   \* the entries that skipped was serialized from, or Nil
  skipped,  \* the Secure-Session-Skipped header of the request, or Nil
  quoted,   \* its Secure-Session-Response header, or Nil
  sent,     \* a registration header and the arguments it was made from
  scan      \* the locals of parse_session_skipped

headerVars == <<source, skipped, quoted, sent, scan>>

-----------------------------------------------------------------------------
\* Mutant of ClosingQuote: a backslash is a character like any other.
ClosingQuotePlain(t, i) ==
  LET later == {p \in i..Len(t) : t[p] = "quote"}
  IN IF later = {} THEN 0 ELSE Min(later)

\* Quoted strings.  What a scanner at position i meets as the closing quote:
\* a backslash takes the next character with it, unless it is the last.
ClosingQuote(t, i) ==
  LET from[p \in 1..(Len(t) + 2)] ==
        IF p > Len(t) THEN 0
        ELSE IF t[p] = "quote" THEN p
        ELSE IF t[p] = "backslash" /\ p < Len(t) THEN from[p + 2]
        ELSE from[p + 1]
  IN from[i]

\* The first position at or after i that is not white space.
AfterSpace(t, i) == Min({p \in i..Len(t) : t[p] # "space"} \cup {Len(t) + 1})

unquote(t) ==
  LET open == AfterSpace(t, 1)
      close == ClosingQuote(t, open + 1)
  IN IF /\ open <= Len(t) /\ t[open] = "quote"
        /\ close # 0
        /\ AfterSpace(t, close + 1) > Len(t)
     THEN SubSeq(t, open + 1, close - 1)
     ELSE Nil

\* session_response_serialize, session_id_serialize: nothing is escaped.
quote(t) == <<"quote">> \o t \o <<"quote">>

\* Mutant of strip_quotes: the last character goes whatever it is.
strip_first(t) ==
  IF Len(t) >= 1 /\ t[1] = "quote" THEN SubSeq(t, 2, Len(t)) ELSE t

\* What the wrapper uses in place of unquote.
strip_quotes(t) ==
  IF Len(t) >= 2 /\ t[1] = "quote" /\ t[Len(t)] = "quote"
  THEN SubSeq(t, 2, Len(t) - 1) ELSE t

-----------------------------------------------------------------------------
\* Serialisers.  Values are written as they are, nothing is escaped: one with
\* a bare quote in it ends early for a reader, and the rest of it is read as
\* something else.  (An even number of bare quotes: after an odd one, every
\* later quote of the header changes its meaning too.)
Given(v) == v \notin {Nil, ""}

Quoted(v) == IF v \in DOMAIN TornStrings THEN TornStrings[v] ELSE <<Str(v)>>

Bare(v) == IF v \in DOMAIN TornTokens THEN TornTokens[v] ELSE <<Tok(v)>>

Param(name, v) ==
  IF Given(v) THEN <<Semi, Tok(name), Equal>> \o Quoted(v) ELSE <<>>

RegistrationParams ==
  <<"path", "challenge", "authorization", "provider_key",
    "provider_session_id", "provider_url">>

\* The list of algorithms in parentheses is one item, as a token is.
registration_serialize(r) ==
  <<Lexeme("algorithms", r.algorithms)>>
    \o FlattenSeq([i \in DOMAIN RegistrationParams |->
                     Param(RegistrationParams[i], r.params[i])])

SkippedItem(e) ==
  (IF Given(e.reason) THEN Bare(e.reason) ELSE <<>>)
    \o Param("session_identifier", e.session_id)

\* Mutant of session_skipped_serialize: no separator.
skipped_serialize_joined(entries) ==
  FlattenSeq([i \in DOMAIN entries |->
    SkippedItem(entries[i]) \o (IF i < Len(entries) THEN <<Semi>> ELSE <<>>)])

session_skipped_serialize(entries) ==
  FlattenSeq([i \in DOMAIN entries |->
    SkippedItem(entries[i])
      \o (IF i < Len(entries) THEN <<Comma, Space>> ELSE <<>>)])

-----------------------------------------------------------------------------
\* parse_session_skipped
ValidReasons == {"unreachable", "server_error", "quota_exceeded"}

\* The end of the text.
End == Len(skipped) + 1

\* The first position from i on that holds none of kinds.
Skip(i, kinds) == Min({p \in i..Len(skipped) : skipped[p].k \notin kinds} \cup {End})

\* Whether the lexeme at position i is of kind k.
At(i, k) == i < End /\ skipped[i].k = k

NewScan ==
  [pc |-> "request", p |-> 1, reason |-> "", session_id |-> Nil,
   entries |-> <<>>, capacity |-> 0, reported |-> 0, rc |-> Nil]

\* Mutant of Failed: the entries read so far are handed out.
FailedPartly == [scan EXCEPT !.pc = "report", !.rc = -1]

\* fail: every entry so far is freed.
Failed ==
  [scan EXCEPT !.pc = "done", !.rc = -1, !.entries = <<>>, !.capacity = 0]

\* mg_str_dup, then parse_session_skipped on the copy.
ReadHeader ==
  /\ scan.pc = "request"
  /\ \/ skipped \notin {Nil, <<>>} /\ Allocated
        /\ scan' = [scan EXCEPT !.pc = "item"]
     \/ skipped \in {Nil, <<>>} /\ Allocated
        /\ scan' = [scan EXCEPT !.pc = "done"]
     \/ skipped \notin {Nil, <<>>} /\ NotAllocated
        /\ scan' = [scan EXCEPT !.pc = "done"]
  /\ UNCHANGED <<source, skipped, quoted, sent>>

\* Separators, then a reason token or the end.
ParseItem ==
  LET p == Skip(scan.p, {"space", "comma"})
  IN /\ scan.pc = "item"
     /\ scan' =
          IF p = End THEN [scan EXCEPT !.pc = "report", !.p = p, !.rc = 0]
          ELSE IF At(p, "tok")
            THEN [scan EXCEPT !.pc = "param", !.p = p + 1,
                              !.reason = skipped[p].v, !.session_id = Nil]
          ELSE Failed
     /\ Allocated
     /\ UNCHANGED <<source, skipped, quoted, sent>>

\* Mutant of ParseValue: the first session_identifier stays.
ParseValueOnce(key, val) ==
  \/ /\ key # "session_identifier" \/ scan.session_id # Nil
     /\ scan' = [scan EXCEPT !.p = val + 1] /\ Allocated
  \/ /\ key = "session_identifier" /\ scan.session_id = Nil
     /\ scan' = [scan EXCEPT !.p = val + 1, !.session_id = skipped[val].v]
     /\ Allocated

\* Mutant of ParseValue: a value that is not copied is not stepped over.
ParseValueStuck(key, val) ==
  \/ key # "session_identifier" /\ scan' = scan /\ Allocated
  \/ /\ key = "session_identifier"
     /\ scan' = [scan EXCEPT !.p = val + 1, !.session_id = skipped[val].v]
     /\ Allocated

\* The value of a parameter; only session_identifier is copied.  The copy
\* replaces an earlier one.
ParseValue(key, val) ==
  \/ /\ key # "session_identifier"
     /\ scan' = [scan EXCEPT !.p = val + 1] /\ Allocated
  \/ /\ key = "session_identifier"
     /\ scan' = [scan EXCEPT !.p = val + 1, !.session_id = skipped[val].v]
     /\ Allocated
  \/ key = "session_identifier" /\ NotAllocated /\ scan' = Failed

\* ; key = "value".  The key may be empty.
ParseParam ==
  LET key == Skip(scan.p + 1, {"space"})
      named == At(key, "tok")
      eq == Skip(IF named THEN key + 1 ELSE key, {"space"})
      val == Skip(eq + 1, {"space"})
  IN /\ scan.pc = "param" /\ At(scan.p, "semi")
     /\ IF At(eq, "equal") /\ At(val, "str")
        THEN ParseValue(IF named THEN skipped[key].v ELSE "", val)
        ELSE scan' = Failed /\ Allocated
     /\ UNCHANGED <<source, skipped, quoted, sent>>

Keepable == scan.reason \in ValidReasons /\ scan.session_id # Nil

\* No more parameters: the item becomes an entry or is dropped.
ParseItemEnd ==
  /\ scan.pc = "param" /\ ~At(scan.p, "semi")
  /\ \/ ~Keepable /\ Allocated
        /\ scan' = [scan EXCEPT !.pc = "item", !.session_id = Nil]
     \/ Keepable /\ Allocated
        /\ scan' = [scan EXCEPT !.pc = "item", !.session_id = Nil,
             !.entries = Append(@, [reason |-> scan.reason,
                                    session_id |-> scan.session_id]),
             !.capacity = grow_array(Len(scan.entries), @)]
     \/ Keepable /\ NotAllocated /\ scan' = Failed
  /\ UNCHANGED <<source, skipped, quoted, sent>>

ParseStep == ReadHeader \/ ParseItem \/ ParseParam \/ ParseItemEnd

HeaderInit ==
  /\ source = Nil /\ skipped = Nil /\ quoted = Nil /\ sent = Nil
  /\ scan = [NewScan EXCEPT !.pc = "idle"]

\* A request arrives.  It is one of four kinds, so that the cases of one
\* parser are not multiplied by those of another.
ReceiveRequest ==
  /\ scan.pc = "idle"
  /\ scan' = NewScan
  /\ \/ /\ skipped' \in SkippedValues \cup {Nil}
        /\ UNCHANGED <<source, quoted, sent>>
     \/ /\ source' \in EntryLists
        /\ skipped' = session_skipped_serialize(source')
        /\ UNCHANGED <<quoted, sent>>
     \/ quoted' \in QuotedValues /\ UNCHANGED <<source, skipped, sent>>
     \/ /\ sent' \in {[of |-> r, value |-> registration_serialize(r)] :
                        r \in Registrations}
        /\ UNCHANGED <<source, skipped, quoted>>
  /\ Allocated

-----------------------------------------------------------------------------
\* The headers, as conditions on every lexeme and the last one before it that
\* is not white space.
Before(v, i) == Max({p \in 1..(i - 1) : v[p].k # "space"} \cup {0})

KindBefore(v, i) == IF Before(v, i) = 0 THEN "start" ELSE v[Before(v, i)].k

IsKey(v, i) == v[i].k = "tok" /\ KindBefore(v, i) = "semi"

IsReason(v, i) == v[i].k = "tok" /\ KindBefore(v, i) # "semi"

\* What may stand before an item, a comma and the end.
ItemComplete(v, i) ==
  /\ KindBefore(v, i) \notin {"semi", "equal"}
  /\ KindBefore(v, i) = "tok" => IsReason(v, Before(v, i))

\* The language parse_session_skipped takes.  It is not the sf-list that
\* header.h names: items need no comma between them, a parameter may have no
\* name, and a parameter without a value, or with one that is not a string,
\* is refused.
Accepted(v) ==
  /\ ItemComplete(v, Len(v) + 1)
  /\ \A i \in DOMAIN v :
       /\ v[i].k \notin {"open", "bad"}
       /\ IsReason(v, i) \/ v[i].k = "comma" => ItemComplete(v, i)
       /\ v[i].k = "semi" => /\ i > 1
                             /\ v[i - 1].k \in {"tok", "str"}
                             /\ v[i - 1].k = "tok" => IsReason(v, i - 1)
       /\ v[i].k = "equal" => \/ KindBefore(v, i) = "semi"
                              \/ Before(v, i) # 0 /\ IsKey(v, Before(v, i))
       /\ v[i].k = "str" => KindBefore(v, i) = "equal"

\* What ends just before position i is an item.
ItemBefore(v, i) ==
  \/ KindBefore(v, i) = "str"
  \/ KindBefore(v, i) = "tok" /\ IsReason(v, Before(v, i))

\* The lists header.h describes: reasons, each with a session_identifier
\* string or without, separated by commas; white space only around a comma,
\* after a semicolon and at the ends.
DocumentedList(v) ==
  /\ KindBefore(v, Len(v) + 1) = "start" \/ ItemBefore(v, Len(v) + 1)
  /\ \A i \in DOMAIN v :
       \/ v[i].k = "space"
       \/ IsReason(v, i) /\ KindBefore(v, i) \in {"start", "comma"}
       \/ v[i].k = "semi" /\ i > 1 /\ IsReason(v, i - 1)
       \/ IsKey(v, i) /\ v[i].v = "session_identifier"
       \/ v[i].k = "equal" /\ i > 1 /\ IsKey(v, i - 1)
       \/ v[i].k = "str" /\ i > 1 /\ v[i - 1].k = "equal"
       \/ v[i].k = "comma" /\ ItemBefore(v, i)

\* The name of the parameter whose value is v[i].
KeyOf(v, i) ==
  LET b == Before(v, Before(v, i))
  IN IF v[b].k = "tok" THEN v[b].v ELSE ""

\* The values of the identifier parameters of the item that starts at i.
IdentifiersAt(v, i) ==
  {j \in (i + 1)..Len(v) :
     /\ v[j].k = "str" /\ KeyOf(v, j) = "session_identifier"
     /\ ~\E r \in (i + 1)..j : IsReason(v, r)}

\* The entries of an accepted header: one for every item with a reason of
\* the specification and an identifier.
EntriesOf(v) ==
  LET ids(i) == IdentifiersAt(v, i)
      upTo[i \in 0..Len(v)] ==
        IF i = 0 THEN <<>>
        ELSE IF IsReason(v, i) /\ v[i].v \in ValidReasons /\ ids(i) # {}
          THEN Append(upTo[i - 1], [reason |-> v[i].v, session_id |-> v[Max(ids(i))].v])
        ELSE upTo[i - 1]
  IN upTo[Len(v)]

\* The parser keeps its entries inside their array, and only entries with a
\* reason of the specification and an identifier.
HeaderTypeOK ==
  /\ scan.pc \in {"idle", "request", "item", "param", "report", "done"}
  /\ scan.rc \in {Nil, 0, -1}
  /\ Len(scan.entries) <= scan.capacity
  /\ \A n \in DOMAIN scan.entries :
       scan.entries[n].reason \in ValidReasons /\ scan.entries[n].session_id # Nil

\* The parser's loops take exactly the language Accepted, with its entries.
ParsesAccepted ==
  /\ scan.rc = 0 => Accepted(skipped) /\ scan.entries = EntriesOf(skipped)
  /\ scan.rc = -1 => noMem \/ ~Accepted(skipped)

\* Unless an allocation fails, every Secure-Session-Skipped header of the form
\* header.h describes is taken, with one entry for each of its items that has
\* a reason of the specification and an identifier, in order; of the other
\* headers, the parser's hand-written loops with their dozen exits take those
\* that Accepted describes, and no more.  Refusing the rest is what the code
\* does: header.h gives -1 for bad arguments and failed allocations only, and
\* a valid sf-list with a parameter such as ;x=1 is among the refused.
ReadsDocumentedLists ==
  /\ ParsesAccepted
  /\ scan.rc = -1 => noMem \/ ~DocumentedList(skipped)

\* The entries of a list that a parser keeps.
Readable(s) ==
  LET upTo[n \in 0..Len(s)] ==
        IF n = 0 THEN <<>>
        ELSE IF s[n].reason \in ValidReasons /\ Given(s[n].session_id)
          THEN Append(upTo[n - 1], s[n])
        ELSE upTo[n - 1]
  IN upTo[Len(s)]

\* An entry whose strings are read as what they are written as.
Plain(e) ==
  /\ Given(e.reason) /\ e.reason \notin DOMAIN TornTokens
  /\ e.session_id \notin DOMAIN TornStrings

\* A list comes back as the entries with a reason of the specification and an
\* identifier, in order, when all its strings are plain; an identifier with a
\* bare quote never comes back.
SkippedRoundTrip ==
  (source # Nil /\ scan.rc # Nil) =>
    LET back == scan.rc = 0 /\ scan.entries = Readable(source)
    IN /\ (\A n \in DOMAIN source : Plain(source[n])) => back \/ noMem
       /\ back => \A n \in DOMAIN Readable(source) :
            Readable(source)[n].session_id \notin DOMAIN TornStrings

\* Backslashes directly before position i.
BackslashesBefore(t, i) ==
  i - 1 - Max({p \in 1..(i - 1) : t[p] # "backslash"} \cup {0})

Escaped(t, i) == BackslashesBefore(t, i) % 2 = 1

\* unquote returns exactly the text between two quotes that only white space
\* surrounds, the second being the first that no backslash escapes; and it
\* undoes the serialisers for every text without a bare quote, although they
\* escape nothing.
UnquoteExact ==
  quoted # Nil =>
    LET t == quoted
        Between(i, j) ==
          /\ t[i] = "quote" /\ t[j] = "quote"
          /\ \A p \in 1..Len(t) : p < i \/ p > j => t[p] = "space"
          /\ LET s == SubSeq(t, i + 1, j)
             IN \A p \in DOMAIN s :
                  s[p] = "quote" => (Escaped(s, p) <=> p < Len(s))
        Torn == \/ \E p \in DOMAIN t : t[p] = "quote" /\ ~Escaped(t, p)
                \/ Escaped(t, Len(t) + 1)
    IN /\ IF \E i \in DOMAIN t : \E j \in (i + 1)..Len(t) : Between(i, j)
          THEN \E i \in DOMAIN t : \E j \in (i + 1)..Len(t) :
                 Between(i, j) /\ unquote(t) = SubSeq(t, i + 1, j - 1)
          ELSE unquote(t) = Nil
       /\ unquote(quote(t)) = t <=> ~Torn

\* The wrapper does not call the library's parsers but strips quotes itself:
\* on every header value the library accepts, white space around it apart,
\* both read the same text.
StripAgreesWithUnquote ==
  (/\ quoted # Nil /\ unquote(quoted) # Nil
   /\ quoted[1] # "space" /\ quoted[Len(quoted)] # "space")
  => strip_quotes(quoted) = unquote(quoted)

\* A registration header read as an item with parameters gives back the
\* arguments that are neither NULL nor empty, and no other, exactly when none
\* of them has a bare quote.
RegistrationReadsBack ==
  sent # Nil =>
    LET v == sent.value
        given == {i \in DOMAIN RegistrationParams : Given(sent.of.params[i])}
    IN (/\ Accepted([v EXCEPT ![1] = Tok("algorithms")])
        /\ {<<KeyOf(v, i), v[i].v>> : i \in {j \in DOMAIN v : v[j].k = "str"}} =
             {<<RegistrationParams[i], sent.of.params[i]>> : i \in given})
       <=> \A i \in given : sent.of.params[i] \notin DOMAIN TornStrings

\* What the serialisers write reads back as what was passed in, whatever is
\* left out of it and however many entries there are, as long as the reasons
\* are tokens and no string has a bare quote in it; and not otherwise, because
\* nothing is escaped (header.c:135-178, 268-270).
SerializedReadsBack == SkippedRoundTrip /\ RegistrationReadsBack
=============================================================================
