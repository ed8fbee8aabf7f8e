------------------------------- MODULE MCCApi -------------------------------
(* Instances of CApi for TLC. *)
EXTENDS CApi, TLC

CONSTANTS c1, c2, t1, t2

\* Three operands that are true of documents independently, and a bad one.
A == Comparison("a", "==", FALSE, 1)
B == Comparison("b", ">=", TRUE, 1)
S == SearchFor("w")
Bad == Comparison("b", "<", FALSE, 1)

Body(n) ==
    [fields |-> ("a" :> [num |-> FALSE, val |-> n % 2])
             @@ ("b" :> [num |-> TRUE, val |-> (n \div 2) % 2]),
     words |-> IF n < 4 THEN {} ELSE {"w"}]
MCBodies == {Body(7)}
\* Documents 0 to 7 with every mix of the operands, and a free id.
MCFiles == {[n \in 0 .. 8 |-> IF n = 8 THEN None ELSE Body(n)]}

And == Sign("and")
Or == Sign("or")
Operand == {A, B, S}
Combinator == {And, Or}
Regular ==
    {<<x>> : x \in Operand}
    \cup {<<x, f, y>> : x, y \in Operand, f \in Combinator}
    \cup {<<x, f, y, g, z>> : x, y, z \in Operand, f, g \in Combinator}
Token == {A, Bad, S, And, Or, Sign("("), Sign(")"), Sign("word"), Sign("*")}
Irregular ==
    {<<x>> : x \in Token} \cup {<<x, y>> : x, y \in Token}
    \cup {<<x, And, y>> : x, y \in {Bad, Sign("word")}}
    \cup {<<Sign("("), A, f, B, Sign(")"), And, S>> : f \in Combinator}
MCQueries == Regular \cup Irregular \cup {<<>>}

Interchangeable == Permutations(Callers) \cup Permutations(Threads)
=============================================================================
