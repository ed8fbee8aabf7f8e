-------------------------------- MODULE Query --------------------------------
(***************************************************************************)
(* The query language (src/query.rs): Query::parse and Query::matches.     *)
(*                                                                         *)
(* The text of a query is a sequence of tokens: a comparison, a search     *)
(* term, `and', `or', a parenthesis, a bare word (what the halves of a     *)
(* quoted string with an `and' in it are, as quotes are not looked at) or  *)
(* the star.  A value is its text and whether it is a number.              *)
(***************************************************************************)
EXTENDS Naturals, Sequences, FiniteSets

Comparison(path, op, num, val) ==
    [t |-> "cmp", path |-> path, op |-> op, value |-> [num |-> num, val |-> val]]
SearchFor(word) == [t |-> "search", word |-> word]
Sign(s) == [t |-> s]   \* "and", "or", "(", ")", "word", "*"

\* Error, or a query that matches no document: its path or its value is a piece
\* of the text of the query.
Error == [q |-> "error"]
Nothing == [q |-> "nothing"]

-----------------------------------------------------------------------------
Count(ts, n, s) == Cardinality({k \in 1 .. n : ts[k].t = s})

\* find_balanced: the places not inside parentheses.
Balanced(ts, n) == Count(ts, n, "(") = Count(ts, n, ")")
First(S) == CHOOSE n \in S : \A m \in S : n <= m

\* Where the text can be split at a combinator, which has a blank on each side.
Splits(ts, s) == {n \in 2 .. (Len(ts) - 1) : ts[n].t = s /\ Balanced(ts, n)}

\* Comparison operators are looked for in this order.
Operators == <<">=", "<=", ">", "<", "==">>
Ordering(op) == op # "=="

\* The comparison that is left when there is nothing to split.
ParseComparison(ts) ==
    LET at(op) == {n \in 1 .. Len(ts) : ts[n].t = "cmp" /\ ts[n].op = op /\ Balanced(ts, n)}
        found == {k \in DOMAIN Operators : at(Operators[k]) # {}}
        n == First(at(Operators[First(found)]))
        c == ts[n]
    IN CASE found = {} -> Error
         [] found # {} /\ Ordering(c.op) /\ (n < Len(ts) \/ ~c.value.num) -> Error
         [] found # {} /\ Len(ts) = 1 -> [q |-> "compare", c |-> c]
         [] OTHER -> Nothing

\* The words InvertedIndex::tokenize finds in a token; "other" stands for those
\* of the combinators and comparisons.
WordsOf(tok) ==
    IF tok.t = "search" THEN {tok.word}
    ELSE IF tok.t \in {"(", ")", "*"} THEN {} ELSE {"other"}

\* A text that starts with a search is one search up to its last parenthesis.
ParseSearch(ts) ==
    IF ts[Len(ts)].t \notin {"search", ")"} THEN Error
    ELSE [q |-> "search",
          words |-> UNION {WordsOf(ts[n]) : n \in 1 .. Len(ts)}
                      \cup IF Count(ts, Len(ts), "search") > 1 THEN {"other"} ELSE {}]

Both(kind, l, r) == IF Error \in {l, r} THEN Error ELSE [q |-> kind, l |-> l, r |-> r]

RECURSIVE Parse_OrFirst(_)
\* Mutant: the text is split at the first `or' before the first `and'.
Parse_OrFirst(ts) ==
    IF ts = <<>> THEN Error
    ELSE IF ts = <<Sign("*")>> THEN [q |-> "all"]
    ELSE IF ts[1].t = "search" THEN ParseSearch(ts)
    ELSE IF \E s \in {"and", "or"} : Splits(ts, s) # {}
    THEN LET s == IF Splits(ts, "or") # {} THEN "or" ELSE "and"
             n == First(Splits(ts, s))
         IN Both(s, Parse_OrFirst(SubSeq(ts, 1, n - 1)), Parse_OrFirst(SubSeq(ts, n + 1, Len(ts))))
    ELSE ParseComparison(ts)

RECURSIVE Parse(_)
Parse(ts) ==
    IF ts = <<>> THEN Error
    ELSE IF ts = <<Sign("*")>> THEN [q |-> "all"]
    ELSE IF ts[1].t = "search" THEN ParseSearch(ts)
    ELSE IF \E s \in {"and", "or"} : Splits(ts, s) # {}
    THEN LET s == IF Splits(ts, "and") # {} THEN "and" ELSE "or"
             n == First(Splits(ts, s))
         IN Both(s, Parse(SubSeq(ts, 1, n - 1)), Parse(SubSeq(ts, n + 1, Len(ts))))
    ELSE ParseComparison(ts)

-----------------------------------------------------------------------------
(* A document: the values of its fields and its words.                     *)

Compare(c, doc) ==
    LET got == doc.fields[c.path] IN
    /\ c.path \in DOMAIN doc.fields
    /\ IF c.op = "==" THEN got = c.value
       ELSE /\ got.num
            /\ CASE c.op = ">" -> got.val > c.value.val
                 [] c.op = "<" -> got.val < c.value.val
                 [] c.op = ">=" -> got.val >= c.value.val
                 [] c.op = "<=" -> got.val <= c.value.val

RECURSIVE Matches(_, _)
Matches(query, doc) ==
    CASE query.q = "all" -> TRUE
      [] query.q = "nothing" -> FALSE
      [] query.q = "compare" -> Compare(query.c, doc)
      [] query.q = "search" -> query.words \subseteq doc.words
      [] query.q = "and" -> Matches(query.l, doc) /\ Matches(query.r, doc)
      [] query.q = "or" -> Matches(query.l, doc) \/ Matches(query.r, doc)

-----------------------------------------------------------------------------
(* What a query is meant to say: a conjunction of disjunctions.            *)

Operands(ts) == {n \in 1 .. Len(ts) : ts[n].t \in {"cmp", "search"}}
Ands(ts) == {n \in 1 .. Len(ts) : ts[n].t = "and"}
SamePart(ts, m, n) == \A k \in Ands(ts) : (m < k) = (n < k)

\* Operands and combinators alternate, orderings compare with numbers, and a
\* search is the last operand of the query, or the last but not the first of
\* those between two `and'.
WellFormed(ts) ==
    /\ Len(ts) % 2 = 1
    /\ \A n \in 1 .. Len(ts) :
         IF n % 2 = 1 THEN n \in Operands(ts) ELSE ts[n].t \in {"and", "or"}
    /\ \A n \in Operands(ts) :
         /\ ts[n].t = "cmp" => ~Ordering(ts[n].op) \/ ts[n].value.num
         /\ ts[n].t = "search" /\ n < Len(ts) =>
              n > 1 /\ ts[n - 1].t = "or" /\ ts[n + 1].t = "and"

Holds(tok, doc) == IF tok.t = "search" THEN tok.word \in doc.words ELSE Compare(tok, doc)
Means(ts, doc) ==
    \A n \in Operands(ts) : \E m \in Operands(ts) : SamePart(ts, m, n) /\ Holds(ts[m], doc)
=============================================================================
