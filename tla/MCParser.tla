------------------------------ MODULE MCParser ------------------------------
(* Instances of Parser for TLC: short texts of every kind, longer expressions,
   and sequences of when-conditions. *)
EXTENDS Parser

CONSTANTS MaxLexemes,     \* the length of the arbitrary texts
          MaxOperators,   \* operators and brackets in an expression
          MaxWhens        \* when-conditions in a function

MCIdentifier == {"a", "b", "c", "d", "e", "f", "g"}
MCUserVariable == {"user1"}
Name == <<"a", "b", "c", "d", "e", "f", "g">>

Lexeme == {"a", "-", "+", "**", "?", ":", "(", ")", "]"}
ArbitraryText == UNION {[1..n -> Lexeme] : n \in 1..MaxLexemes}

\* Well-formed expressions with n operators over one name.
RECURSIVE Expression(_)

Expression(n) ==
  IF n = 0 THEN {<<"a">>}
  ELSE LET inner == Expression(n - 1)
       IN  {<<op>> \o e : op \in {"-", "!"}, e \in inner}
           \cup {<<"(">> \o e \o <<")">> : e \in inner}
           \cup UNION {{l \o <<op>> \o r : op \in {"**", "*", "-", "<", "&&"},
                          l \in Expression(k), r \in Expression(n - 1 - k)} :
                       k \in 0..(n - 1)}
           \cup UNION {UNION {{x \o <<"?">> \o y \o <<":">> \o z :
                                 x \in Expression(k), y \in Expression(j),
                                 z \in Expression(n - 1 - k - j)} :
                              j \in 0..(n - 1 - k)} : k \in 0..(n - 1)}

\* The names of a text made different from each other.
Named(t) ==
  [i \in DOMAIN t |-> IF t[i] = "a"
                      THEN Name[Cardinality({j \in 1..i : t[j] = "a"})]
                      ELSE t[i]]
ExpressionText == {Named(e) : e \in UNION {Expression(n) : n \in 0..MaxOperators}}

\* The conditions of a sequence are different symbols, the first one negated.
Condition(n) == IF n = 1 THEN <<"!", "a", "&&", "e">> ELSE <<Name[n]>>
Conclusion ==
  { <<>>, <<"&&">>, <<"Fold", "Force">>, <<"Set", "user1">>, <<"RaiseTo", "Force">>,
    <<"RaiseBy", "a", "+", "b", "%", "Force">>,
    <<"Return", "a", "Force">>, <<"Return", "a">> }

RECURSIVE WhenText(_)

WhenText(n) ==
  IF n = 0 THEN {<<>>}
  ELSE {t \o <<"WHEN">> \o Condition(n) \o c : t \in WhenText(n - 1), c \in Conclusion}

MCText == ArbitraryText \cup ExpressionText
          \cup UNION {WhenText(n) : n \in 1..MaxWhens}
=============================================================================
