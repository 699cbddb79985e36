------------------------------- MODULE Parser -------------------------------
(***************************************************************************)
(* The formula parser: CFormulaParser reads a function by recursive        *)
(* descent, with every operator taken as right-associative and of one      *)
(* priority; CParseTreeRotator then turns the tree until the priorities    *)
(* hold; CParseTreeNode evaluates it.  What becomes of the when-conditions *)
(* of an OpenPPL function is in WhenConditions; the parser finds them in   *)
(* the text, and adds the trees of the conditions and of the actions.      *)
(*                                                                         *)
(* A text is the sequence of its lexemes.  A node of a tree is the         *)
(* sequence <<type, first sibbling, ...>>, a NULL pointer is <<>>.         *)
(***************************************************************************)
EXTENDS WhenConditions, FiniteSets

CONSTANTS Identifier,     \* names of symbols and functions
          UserVariable,   \* names that start with "user" or "me_"
          Text            \* the function texts that are parsed

VARIABLES text,      \* the text of the function
          at,        \* the position of the next token
          tree,      \* the body of an OH-script function
          nodes,     \* the condition and the action of each when-condition
          symbols    \* which symbols are true in the last evaluation

parser == <<text, at, tree, nodes, symbols>>

Null == <<>>

(***************************************************************************)
(* The tables of TokenizerConstants.                                       *)
(***************************************************************************)
Unary == {"neg", "!", "~", "bitcount"}
Level == << {"?"}, {"||"}, {"^^"}, {"&&"}, {"|"}, {"^"}, {"&"},
            {"==", "!=", "~~"}, {"<", "<=", ">", ">="}, {"<<", ">>"},
            {"+", "-"}, {"*", "/", "%"}, Unary, {"**"} >>
Binary == UNION {Level[p] : p \in {2, 3, 4, 5, 6, 7, 8, 9, 10, 11, 12, 14}}
OpenBracket == {"(", "[", "{"}
CloseBracket == {")", "]", "}"}
RightAssociative == {"**", "?"}
Priority(op) == IF op \in OpenBracket THEN 0
                ELSE CHOOSE p \in DOMAIN Level : op \in Level[p]

ElementaryAction == {"Fold"}
Action == ElementaryAction \cup {"RaiseTo", "RaiseBy", "Return", "Set"}
\* Actions are identifiers too, unless they are keywords.
Operand == Identifier \cup UserVariable \cup (Action \ {"Return", "Set"})

\* The next token: a minus is binary only behind an operand or a bracket.
Token(t, i) ==
  IF i > Len(t) THEN "end"
  ELSE IF t[i] = "-" /\ ~(i > 1 /\ t[i-1] \in Operand \cup CloseBracket)
       THEN "neg"
       ELSE t[i]
After(t, i) == IF i > Len(t) THEN i ELSE i + 1

\* The switch in ExpectMatchingBracketClose falls through.
Closing(open) == CASE open = "(" -> {")", "]", "}"}
                   [] open = "[" -> {"]", "}"}
                   [] open = "{" -> {"}"}

(***************************************************************************)
(* Expressions.  A parsing function returns the node, the position of the  *)
(* next token and whether there was an error.                              *)
(***************************************************************************)
Parsed(node, i, bad) == [node |-> node, at |-> i, error |-> bad]
Wrap(type, e) == [e EXCEPT !.node = <<type, @>>]

\* Takes one token, which has to be in the set expected.
Expect(t, e, expected) ==
  Parsed(e.node, After(t, e.at), e.error \/ Token(t, e.at) \notin expected)

RECURSIVE ParseExpression(_, _)

ParseBracketExpression(t, i) ==
  Wrap(t[i], Expect(t, ParseExpression(t, i + 1), Closing(t[i])))

ParseUnaryExpression(t, i) == Wrap(Token(t, i), ParseExpression(t, i + 1))

\* Behind "condition ?".
ParseConditionalPartialThenElseExpressions(t, condition) ==
  LET middle == ParseExpression(t, condition.at + 1)
      then == Expect(t, middle, {":"})
      else == IF Token(t, middle.at) = ":" THEN ParseExpression(t, then.at)
                                           ELSE Parsed(Null, then.at, TRUE)
  IN  Parsed(<<"?", condition.node, then.node, else.node>>, else.at,
             condition.error \/ then.error \/ else.error)

\* Mutant: a percentage sign is always an operator.
IsPercentageOfPotNever(t, i) == FALSE

\* RaiseBy 60% Force: the percentage sign has no second operand.
IsPercentageOfPot(t, i) == Token(t, i) = "%" /\ Token(t, i + 1) = "Force"

ParseExpression(t, i) ==
  LET token == Token(t, i)
      first == CASE token \in OpenBracket -> ParseBracketExpression(t, i)
                 [] token \in Unary -> ParseUnaryExpression(t, i)
                 [] token \in Operand -> Parsed(<<token>>, i + 1, FALSE)
                 [] OTHER -> Parsed(Null, i, TRUE)
      op == Token(t, first.at)
      second == ParseExpression(t, first.at + 1)
  IN  CASE token \notin OpenBracket \cup Unary \cup Operand -> first
        [] op \in Binary /\ ~IsPercentageOfPot(t, first.at) ->
             Parsed(<<op, first.node, second.node>>, second.at,
                    first.error \/ second.error)
        [] op = "?" -> ParseConditionalPartialThenElseExpressions(t, first)
        [] OTHER -> first

(***************************************************************************)
(* When-conditions.                                                        *)
(***************************************************************************)
HasBetsize(t, i) == Token(t, i) \in Operand \cup OpenBracket

ParseOpenPPLRaiseToExpression(t, i) ==
  IF HasBetsize(t, i) THEN Wrap("RaiseTo", ParseExpression(t, i))
                      ELSE Parsed(Null, i, TRUE)

ParseOpenPPLRaiseByExpression(t, i) ==
  LET amount == ParseExpression(t, i)
  IN  CASE ~HasBetsize(t, i) -> Parsed(Null, i, TRUE)
        [] HasBetsize(t, i) /\ Token(t, amount.at) = "%" ->
             [Wrap("RaiseByPercentage", amount) EXCEPT !.at = @ + 1]
        [] OTHER -> Wrap("RaiseBy", amount)

ParseOpenPPLUserVar(t, i) ==
  IF Token(t, i) \in UserVariable THEN Parsed(<<"Set", <<t[i]>>>>, i + 1, FALSE)
                                  ELSE Parsed(Null, After(t, i), TRUE)

ParseOpenPPLAction(t, i) ==
  CASE t[i] = "Return" -> Expect(t, ParseExpression(t, i + 1), {"Force"})
    [] t[i] = "RaiseTo" -> Expect(t, ParseOpenPPLRaiseToExpression(t, i + 1), {"Force"})
    [] t[i] = "RaiseBy" -> Expect(t, ParseOpenPPLRaiseByExpression(t, i + 1), {"Force"})
    [] t[i] = "Set" -> ParseOpenPPLUserVar(t, i + 1)
    [] OTHER -> Expect(t, Parsed(<<t[i]>>, i + 1, FALSE), {"Force"})

\* What the second sibbling points to.
SecondSibbling(action) == CASE action = Null -> "broken"
                            [] action # Null /\ action[1] = "Set" -> "set"
                            [] OTHER -> "action"

(***************************************************************************)
(* CParseTreeRotator.                                                      *)
(***************************************************************************)
IsOperator(node) ==
  node # Null /\ node[1] \in Unary \cup Binary \cup OpenBracket \cup {"?"}
LeftMost(node) == node[2]
RightMost(node) == node[Len(node)]

\* Mutant: operators of one priority are left as they were parsed.
NeedsLeftRotationIfLower(node) ==
  /\ IsOperator(node)
  /\ IsOperator(RightMost(node))
  /\ RightMost(node)[1] \notin OpenBracket \cup Unary
  /\ Priority(RightMost(node)[1]) < Priority(node[1])

NeedsLeftRotation(node) ==
  /\ IsOperator(node)
  /\ IsOperator(RightMost(node))
  /\ RightMost(node)[1] \notin OpenBracket \cup Unary
  /\ \/ Priority(RightMost(node)[1]) < Priority(node[1])
     \/ /\ Priority(RightMost(node)[1]) = Priority(node[1])
        /\ node[1] \notin RightAssociative

\* The right operand becomes the root, and the node its left operand, which is
\* turned on as long as necessary.
RECURSIVE RotateLeftAsLongAsNecessary(_)

RotateLeft(node) ==
  [RightMost(node) EXCEPT ![2] =
     RotateLeftAsLongAsNecessary(
       [node EXCEPT ![Len(node)] = LeftMost(RightMost(node))])]

RotateLeftAsLongAsNecessary(node) ==
  IF NeedsLeftRotation(node) THEN RotateLeft(node) ELSE node

\* The sibblings first, bottom-up, then the node itself.
RECURSIVE RotateTree(_)

RotateTree(node) ==
  RotateLeftAsLongAsNecessary(
    [i \in DOMAIN node |-> IF i = 1 THEN node[1] ELSE RotateTree(node[i])])

(***************************************************************************)
(* CParseTreeNode: evaluation.  The conditions evaluated here are logical  *)
(* ones; true is the set of symbols that are not zero.  A NULL pointer, as *)
(* an error leaves it, evaluates to zero (the assertions that forbid it    *)
(* are not in a release).                                                  *)
(***************************************************************************)
RECURSIVE Value(_, _)

Value(node, true) ==
  CASE node = Null -> FALSE
    [] node[1] \in OpenBracket -> Value(node[2], true)
    [] node[1] = "!"  -> ~Value(node[2], true)
    [] node[1] = "&&" -> Value(node[2], true) /\ Value(node[3], true)
    [] node[1] = "||" -> Value(node[2], true) \/ Value(node[3], true)
    [] node[1] = "?"  -> IF Value(node[2], true) THEN Value(node[3], true)
                                                 ELSE Value(node[4], true)
    [] OTHER -> node[1] \in true

(***************************************************************************)
(* The life of a function.                                                 *)
(***************************************************************************)
ParserInit ==
  /\ Init
  /\ text \in Text
  /\ at = 1
  /\ tree = Null
  /\ nodes = <<>>
  /\ symbols = {}

IsOpenPPL == Token(text, 1) = "WHEN"

ParseOpenPPLWhenCondition ==
  /\ Token(text, at) = "WHEN"
  /\ LET condition == ParseExpression(text, at + 1)
         token == Token(text, condition.at)
         action == IF token \in Action THEN ParseOpenPPLAction(text, condition.at)
                   ELSE Parsed(Null, condition.at, token \notin {"WHEN", "end"})
     IN  /\ ParseWhenCondition(IF token \in Action THEN SecondSibbling(action.node)
                                                   ELSE "none",
                               condition.error \/ action.error)
         /\ nodes' = Append(nodes, [condition |-> condition.node,
                                    action |-> action.node])
         /\ at' = action.at
  /\ UNCHANGED <<text, tree, symbols>>

ParseOpenPPLFunction ==
  \/ ParseOpenPPLWhenCondition
  \/ Token(text, at) # "WHEN" /\ BeginPatching /\ UNCHANGED parser
  \/ BackPatch /\ UNCHANGED parser
  \/ EndOfSequence(Token(text, at) # "end") /\ UNCHANGED parser

ParseOHScriptFunction ==
  /\ ~IsOpenPPL
  /\ LET body == ParseExpression(text, 1)
     IN  /\ ParseSingleExpression(body.error \/ Token(text, body.at) # "end")
         /\ tree' = body.node
         /\ at' = body.at
  /\ UNCHANGED <<text, nodes, symbols>>

Rotate ==
  \/ /\ RotateSingleExpression
     /\ tree' = RotateTree(tree)
     /\ UNCHANGED <<text, at, nodes, symbols>>
  \/ BeginRotation /\ UNCHANGED parser
  \/ /\ RotateWhenCondition
     /\ nodes' = [nodes EXCEPT ![Head(pending)].condition = RotateTree(@),
                               ![Head(pending)].action = RotateTree(@)]
     /\ UNCHANGED <<text, at, tree, symbols>>
  \/ EndRotation /\ UNCHANGED parser

\* CFunction::Evaluate of an OpenPPL function, with errors or without.
EvaluateFunction ==
  \/ /\ BeginEvaluation
     /\ symbols' \in SUBSET (Identifier \cap {text[i] : i \in DOMAIN text})
     /\ UNCHANGED <<text, at, tree, nodes>>
  \/ /\ EvaluateWhenCondition(Value(nodes[current].condition, symbols))
     /\ UNCHANGED parser
  \/ EndEvaluation /\ UNCHANGED parser

ParserNext ==
  ParseOpenPPLFunction \/ ParseOHScriptFunction \/ Rotate \/ EvaluateFunction

ParserSpec == ParserInit /\ [][ParserNext]_<<vars, parser>>
-----------------------------------------------------------------------------
(***************************************************************************)
(* The language as the manual defines it (oh_script_syntax.html): the      *)
(* operators in the order of their precedence, with their associativity.   *)
(***************************************************************************)
DocumentedLevel ==
  << {"**"}, {"!", "~", "bitcount", "neg"}, {"*", "/", "%"}, {"+", "-"},
     {"<<", ">>"}, {"<", ">", "<=", ">="}, {"==", "!=", "~~"}, {"&"}, {"^"},
     {"|"}, {"&&"}, {"^^"}, {"||"} >>
Precedence(op) == CHOOSE k \in DOMAIN DocumentedLevel : op \in DocumentedLevel[k]
Infix == UNION {DocumentedLevel[k] : k \in (DOMAIN DocumentedLevel) \ {2}}
Prefix == DocumentedLevel[2]
Partner(open) == CASE open = "(" -> ")" [] open = "[" -> "]" [] open = "{" -> "}"

Tokens(t) == [i \in DOMAIN t |-> Token(t, i)]
Before(s, k) == SubSeq(s, 1, k - 1)
Between(s, k, m) == SubSeq(s, k + 1, m - 1)
Behind(s, k) == SubSeq(s, k + 1, Len(s))

RECURSIVE IsExpression(_)

SplitsAt(s, k) ==
  s[k] \in Infix /\ IsExpression(Before(s, k)) /\ IsExpression(Behind(s, k))

IsConditional(s, k, m) ==
  /\ k < m /\ s[k] = "?" /\ s[m] = ":"
  /\ IsExpression(Before(s, k))
  /\ IsExpression(Between(s, k, m))
  /\ IsExpression(Behind(s, m))

IsExpression(s) ==
  /\ s # <<>>
  /\ \/ Len(s) = 1 /\ s[1] \in Operand
     \/ s[1] \in Prefix /\ IsExpression(Tail(s))
     \/ /\ s[1] \in OpenBracket /\ s[Len(s)] = Partner(s[1])
        /\ IsExpression(Between(s, 1, Len(s)))
     \/ \E k \in DOMAIN s : SplitsAt(s, k)
     \/ \E k, m \in DOMAIN s : IsConditional(s, k, m)

\* The tree of an expression: the operator of lowest precedence is the root,
\* the last of them where they associate from left to right.
RECURSIVE DocumentedTree(_)

DocumentedTree(s) ==
  LET splits == {k \in DOMAIN s : SplitsAt(s, k)}
      lowest == {k \in splits : \A j \in splits : Precedence(s[j]) <= Precedence(s[k])}
      root == IF s[CHOOSE k \in lowest : TRUE] = "**"
              THEN CHOOSE k \in lowest : \A j \in lowest : k <= j
              ELSE CHOOSE k \in lowest : \A j \in lowest : j <= k
      question == CHOOSE k \in DOMAIN s :
                    /\ \E m \in DOMAIN s : IsConditional(s, k, m)
                    /\ \A j \in 1..(k-1) : \A m \in DOMAIN s : ~IsConditional(s, j, m)
      colon == CHOOSE m \in DOMAIN s : IsConditional(s, question, m)
  IN  CASE \E k, m \in DOMAIN s : IsConditional(s, k, m) ->
             <<"?", DocumentedTree(Before(s, question)),
                    DocumentedTree(Between(s, question, colon)),
                    DocumentedTree(Behind(s, colon))>>
        [] Len(s) = 1 -> s
        [] s[1] \in Prefix /\ \A k \in splits : Precedence(s[k]) < Precedence(s[1]) ->
             <<s[1], DocumentedTree(Tail(s))>>
        [] splits # {} ->
             <<s[root], DocumentedTree(Before(s, root)), DocumentedTree(Behind(s, root))>>
        [] OTHER -> <<s[1], DocumentedTree(Between(s, 1, Len(s)))>>

IsAction(s) ==
  LET final == Len(s)
      amount == SubSeq(s, 2, final - 1)
      percentage == SubSeq(s, 2, final - 2)
  IN  \/ final = 2 /\ s[1] = "Set" /\ s[2] \in UserVariable
      \/ /\ final >= 2 /\ s[final] = "Force"
         /\ \/ final = 2 /\ s[1] \in ElementaryAction
            \/ s[1] = "Return" /\ IsExpression(amount)
            \/ /\ s[1] \in {"RaiseTo", "RaiseBy"} /\ s[2] \notin Prefix
               /\ IsExpression(amount)
            \/ /\ s[1] = "RaiseBy" /\ s[2] \notin Prefix /\ s[final-1] = "%"
               /\ IsExpression(percentage)

RECURSIVE IsWhenSequence(_)

IsWhenSequence(s) ==
  \/ s = <<>>
  \/ /\ s[1] = "WHEN"
     /\ \E k \in 2..Len(s) :
          /\ IsExpression(SubSeq(s, 2, k))
          /\ \E m \in k..Len(s) :
               /\ m = k \/ IsAction(SubSeq(s, k + 1, m))
               /\ IsWhenSequence(Behind(s, m))

IsFunction(s) == IsExpression(s) \/ IsWhenSequence(s)

\* The text with all its brackets made round.
Rounded(s) == [i \in DOMAIN s |-> CASE s[i] \in OpenBracket -> "("
                                    [] s[i] \in CloseBracket -> ")"
                                    [] OTHER -> s[i]]

\* The tokens of a tree, from left to right.
RECURSIVE Yield(_)

Yield(node) ==
  CASE node[1] \in OpenBracket -> <<node[1]>> \o Yield(node[2]) \o <<Partner(node[1])>>
    [] node[1] \in Prefix -> <<node[1]>> \o Yield(node[2])
    [] node[1] \in Infix -> Yield(node[2]) \o <<node[1]>> \o Yield(node[3])
    [] node[1] = "?" ->
         Yield(node[2]) \o <<"?">> \o Yield(node[3]) \o <<":">> \o Yield(node[4])
    [] OTHER -> node

\* The expression in the tree of an action.
ExpressionOf(action) ==
  IF action[1] \in {"RaiseTo", "RaiseBy", "RaiseByPercentage", "Set"} THEN action[2]
                                                                    ELSE action
-----------------------------------------------------------------------------
(* The parser reports an error for every text that is no function, and for no
   other: every function of the manual's language is accepted, and what is
   accepted is one once all its brackets are made round (the parser takes some
   closing brackets of another kind, ExpectMatchingBracketClose). *)
AcceptsFormulas ==
  phase = "parsed" =>
    /\ IsFunction(Tokens(text)) => ~error
    /\ ~error => IsFunction(Rounded(Tokens(text)))

\* Has the tree the form that the manual defines for its tokens?
AsDocumented(node) == node = DocumentedTree(Yield(node))

(* The rotations turn the right-recursive tree of the parser into the tree the
   precedences and associativities of the manual define, for OH-script functions
   and for the conditions and the amounts of OpenPPL functions; no token is lost
   (CParseTreeRotator.cpp:157). *)
TreeFollowsPrecedence ==
  phase = "ready" /\ IsFunction(Tokens(text)) =>
    /\ ~IsOpenPPL => tree = DocumentedTree(Tokens(text))
    /\ \A n \in DOMAIN nodes :
         /\ AsDocumented(nodes[n].condition)
         /\ nodes[n].action # Null => AsDocumented(ExpressionOf(nodes[n].action))
=============================================================================
