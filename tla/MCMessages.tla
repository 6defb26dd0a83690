----------------------------- MODULE MCMessages -----------------------------
(***************************************************************************)
(* Messages on a small instance: every well-lexed header of up to           *)
(* MaxLexemes lexemes, every serialized list of up to MaxEntries entries,   *)
(* and these lists with one lexeme removed or replaced.                     *)
(***************************************************************************)
EXTENDS Messages

CONSTANTS MaxLexemes, MaxEntries, MaxChars

Lexemes ==
  {Space, Comma, Semi, Equal, Open, Tok("unreachable"),
   Tok("session_identifier"), Str("a")}

\* Two values with bare quotes: the rest of the first makes the header
\* malformed, the rest of the second is one more parameter.
MCTornStrings ==
  "a\"b\"c" :> <<Str("a"), Tok("b"), Str("c")>>
    @@ "a\";x=\"b" :> <<Str("a"), Semi, Tok("x"), Equal, Str("b")>>

MCTornTokens == "not reached" :> <<Tok("not"), Space, Tok("reached")>>

Entries ==
  [reason : {"unreachable", "other", Nil} \cup DOMAIN MCTornTokens,
   session_id : {"a", "b", "", Nil} \cup DOMAIN MCTornStrings]

MCEntryLists == UNION {[1..n -> Entries] : n \in 0..2}
  \cup [1..MaxEntries -> [reason : {"unreachable"}, session_id : {"a", "b"}]]

\* Serialized lists of entries that a parser keeps.
Sound == {session_skipped_serialize(s) :
            s \in UNION {[1..n -> [reason : {"unreachable"}, session_id : {"a", "b"}]] :
                           n \in 1..2}}

Without(v, i) == SubSeq(v, 1, i - 1) \o SubSeq(v, i + 1, Len(v))

Damaged ==
  UNION {{Without(v, i) : i \in DOMAIN v}
           \cup {[v EXCEPT ![i] = l] : i \in DOMAIN v, l \in Lexemes \cup {Bad}} :
           v \in Sound}

\* An item with the identifier given twice.
Repeated == {<<Tok("unreachable")>> \o Param("session_identifier", "a")
               \o <<Semi, Space, Tok("session_identifier"), Equal, Str("b")>>}

MCSkippedValues ==
  {v \in UNION {[1..n -> Lexemes] : n \in 0..MaxLexemes}
           \cup Damaged \cup Repeated : WellLexed(v)}

MCQuotedValues ==
  UNION {[1..n -> Char] : n \in 1..MaxChars}

MCRegistrations ==
  [algorithms : {<<"ES256">>, <<"ES256", "RS256">>},
   params : [1..6 -> {Nil, "x"}] \cup [1..6 -> {"", "x"}]
              \cup [1..6 -> {"x"} \cup DOMAIN MCTornStrings]]

MCCredentials ==
  {[type |-> "cookie", name |-> "n", attributes |-> Nil],
   [type |-> "cookie", name |-> "n", attributes |-> "Path=/"]}

MCRules == {[type |-> "include", domain |-> "*", path |-> "/"],
            [type |-> "exclude", domain |-> Nil, path |-> "/static"]}
=============================================================================
