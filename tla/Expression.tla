----------------------------- MODULE Expression -----------------------------
(***************************************************************************)
(* The expression language: the parser of ExpressionParser, the nodes of   *)
(* the syntax tree with their values and representations, the functions,   *)
(* and the two converters, as a user applies them to a text.               *)
(*                                                                         *)
(* A text is a sequence of tokens.  A double is a quotient <<n, d>> with   *)
(* d > 0, an infinity, <<1, 0>> or <<-1, 0>>, or NaN, <<0, 0>>.  There is  *)
(* no negative zero and no rounding.                                       *)
(***************************************************************************)
EXTENDS Integers, Sequences, SequencesExt

CONSTANTS
  Literals,   \* tokens of literals
  Amount,     \* the value of each
  Shown,      \* the tokens that representLiteral() writes for each
  Variables,  \* names of variables
  Setting,    \* the value of each in the environment
  Operators,  \* binary operators in use
  MaxTokens,  \* bound: length of a text
  MaxHeight   \* bound: height of a tree

Doubles == {x \in Int \X Nat : x[2] = 0 => x[1] \in {-1, 0, 1}}
NaN == <<0, 0>>

VARIABLES
  source,     \* the text
  tree,       \* what has been made of it
  stage       \* "written", "parsed", "extracted", "added", or "thrown"

vars == <<source, tree, stage>>

Functions == {"sum", "max", "ifnan", "ifzero"}
PrefixOperators == {"!", "-"}
BinaryOperators ==
  {"*", "/", "+", "-", ">", "<", ">=", "<=", "==", "!=", "&&", "||"}

ASSUME LanguageAssumption ==
  /\ Amount \in [Literals -> Doubles] /\ Setting \in [Variables -> Doubles]
  /\ "NaN" \in Literals /\ Amount["NaN"] = NaN /\ Shown["NaN"] = <<"NaN">>
  /\ MaxHeight \in Nat

(* A tree is no higher than its text is long, its expansion at most by one.*)
ASSUME BoundsAssumption ==
  MaxTokens \in Nat /\ 3 <= MaxTokens /\ MaxTokens < MaxHeight

(* A token is of one kind, except that a variable may have the name of a   *)
(* function.                                                               *)
ASSUME TokenAssumption ==
  /\ Literals \cap (Functions \cup Variables) = {}
  /\ (Literals \cup Variables) \cap (PrefixOperators \cup BinaryOperators) = {}
  /\ (Literals \cup Variables) \cap {"(", ")", ",", "?", ":", "end"} = {}

Node(kind, text, args) == [kind |-> kind, text |-> text, args |-> args]
Parenthesized(e) == Node("parentheses", "", <<e>>)
NoTree == Node("none", "", <<>>)

(* The kinds of nodes: what is written in one and how many parts it has.   *)
Texts ==
  [literal |-> Literals, variable |-> Variables, function |-> Functions,
   unary |-> PrefixOperators, binary |-> BinaryOperators,
   parentheses |-> {""}, conditional |-> {""}]
Counts ==
  [literal |-> {0}, variable |-> {0}, function |-> Nat, unary |-> {1},
   binary |-> {2}, parentheses |-> {1}, conditional |-> {3}]

(* The trees made of the trees in T.                                       *)
Made(T) ==
  {e \in [kind : DOMAIN Texts, text : UNION {Texts[k] : k \in DOMAIN Texts},
          args : Seq(T)] :
     e.text \in Texts[e.kind] /\ Len(e.args) \in Counts[e.kind]}

(* The trees up to a height.                                               *)
TreesTo[n \in 0 .. MaxHeight] == IF n = 0 THEN {} ELSE Made(TreesTo[n - 1])

Trees == TreesTo[MaxHeight]

(* What a function says of the parts of a tree.                            *)
OfParts(f, e) == [i \in DOMAIN e.args |-> f[e.args[i]]]

NodesOf(e, ns) == {e} \cup UNION {ns[i] : i \in DOMAIN ns}
Nodes[e \in Trees] == NodesOf(e, OfParts(Nodes, e))

-----------------------------------------------------------------------------
(* The parser: OperatorTable, all binary operators to the left, the        *)
(* conditional to the right.                                               *)
Level(o) ==
  CASE o \in {"*", "/"} -> 70
    [] o \in {"+", "-"} -> 60
    [] o \in {">", "<", ">=", "<="} -> 50
    [] o \in {"==", "!="} -> 40
    [] o = "&&" -> 30
    [] o = "||" -> 20
    [] OTHER -> 0

(* What is parsed from position at: a tree, or the trees of a list, and the*)
(* position behind it, or 0.                                               *)
Parsed(e, at) == [tree |-> e, at |-> at]
Failed == Parsed(NoTree, 0)
Fails(p) == p.at = 0

Token(ts, i) == IF i \in DOMAIN ts THEN ts[i] ELSE "end"

(* What parse makes of the text from i on, at a level.                     *)
At(parse, i, level) == parse[<<"level", i, level>>]

(* What was parsed becomes the arguments of a node if token t follows.     *)
Closed(ts, p, t, kind, text, args) ==
  IF ~Fails(p) /\ Token(ts, p.at) = t
  THEN Parsed(Node(kind, text, args), p.at + 1) ELSE Failed

(* identifier(arguments), identifier, literal or (expression).             *)
ParseUnit(ts, parse, i) ==
  LET t == Token(ts, i) IN
  IF t = "(" THEN
    LET p == At(parse, i + 1, 10)
    IN Closed(ts, p, ")", "parentheses", "", <<p.tree>>)
  ELSE IF t \in Functions \cup Variables /\ Token(ts, i + 1) = "(" THEN
    IF Token(ts, i + 2) = ")" THEN Parsed(Node("function", t, <<>>), i + 3)
    ELSE LET p == parse[<<"arguments", i + 2, 10>>]
         IN Closed(ts, p, ")", "function", t, p.tree)
  ELSE IF t \in Functions \cup Variables THEN Parsed(Node("variable", t, <<>>), i + 1)
  ELSE IF t \in Literals THEN Parsed(Node("literal", t, <<>>), i + 1)
  ELSE Failed

ParseArguments(ts, parse, i) ==
  LET p == At(parse, i, 10)
      more == parse[<<"arguments", p.at + 1, 10>>]
  IN IF Fails(p) THEN Failed
     ELSE IF Token(ts, p.at) # "," THEN Parsed(<<p.tree>>, p.at)
     ELSE IF Fails(more) THEN Failed
     ELSE Parsed(<<p.tree>> \o more.tree, more.at)

ParsePrefix(ts, parse, i) ==
  IF Token(ts, i) \in PrefixOperators
  THEN LET p == At(parse, i + 1, 80)
       IN IF Fails(p) THEN Failed
          ELSE Parsed(Node("unary", ts[i], <<p.tree>>), p.at)
  ELSE ParseUnit(ts, parse, i)

ParseConditional(ts, parse, i) ==
  LET c == At(parse, i, 20) IN
  IF Fails(c) \/ Token(ts, c.at) # "?" THEN c
  ELSE LET t == At(parse, c.at + 1, 10) IN
       IF Fails(t) \/ Token(ts, t.at) # ":" THEN Failed
       ELSE LET f == At(parse, t.at + 1, 10)
            IN IF Fails(f) THEN Failed
               ELSE Parsed(Node("conditional", "", <<c.tree, t.tree, f.tree>>), f.at)

(* The operators of the level that follow, with their operands.            *)
ParseRest(ts, parse, i, level) ==
  LET o == Token(ts, i)
      r == At(parse, i + 1, level + 10)
      more == parse[<<"rest", r.at, level>>]
  IN IF Level(o) # level THEN Parsed(<<>>, i)
     ELSE IF Fails(r) THEN Failed
     ELSE IF Fails(more) THEN Failed
     ELSE Parsed(<<[operator |-> o, tree |-> r.tree]>> \o more.tree, more.at)

(* They group to the left.                                                 *)
Grouped(e, rest) ==
  LET upTo[k \in 0 .. Len(rest)] ==
        IF k = 0 THEN e
        ELSE Node("binary", rest[k].operator, <<upTo[k - 1], rest[k].tree>>)
  IN upTo[Len(rest)]

ParseInfix(ts, parse, i, level) ==
  LET p == At(parse, i, level + 10)
      rest == parse[<<"rest", p.at, level>>]
  IN IF Fails(p) THEN Failed
     ELSE IF Fails(rest) THEN Failed
     ELSE Parsed(Grouped(p.tree, rest.tree), rest.at)

ParseLevel(ts, parse, i, level) ==
  IF level = 10 THEN ParseConditional(ts, parse, i)
  ELSE IF level = 80 THEN ParsePrefix(ts, parse, i)
  ELSE ParseInfix(ts, parse, i, level)

Levels == {10, 20, 30, 40, 50, 60, 70, 80}
Goals(ts) == {"level", "rest", "arguments"} \X (1 .. Len(ts) + 1) \X Levels

ParseGoal(ts, parse, goal) ==
  CASE goal[1] = "level" -> ParseLevel(ts, parse, goal[2], goal[3])
    [] goal[1] = "rest" -> ParseRest(ts, parse, goal[2], goal[3])
    [] goal[1] = "arguments" -> ParseArguments(ts, parse, goal[2])

(* The whole text must be used up.                                         *)
Parse(ts) ==
  LET parse[goal \in Goals(ts)] == ParseGoal(ts, parse, goal)
      p == At(parse, 1, 10)
  IN IF p.at = Len(ts) + 1 THEN p.tree ELSE NoTree

-----------------------------------------------------------------------------
(* Values.                                                                 *)
True == <<1, 1>>
False == NaN
Test(x) == x # NaN
Truth(b) == IF b THEN True ELSE False

Quotient(n, d) ==
  IF d = 0 THEN <<IF n > 0 THEN 1 ELSE IF n < 0 THEN -1 ELSE 0, 0>> ELSE <<n, d>>

Negative(x) == <<-x[1], x[2]>>

Add(x, y) ==
  IF x[2] = 0 /\ y[2] = 0 THEN IF x = y THEN x ELSE NaN
  ELSE Quotient(x[1] * y[2] + y[1] * x[2], x[2] * y[2])

Multiply(x, y) == Quotient(x[1] * y[1], x[2] * y[2])

Reciprocal(y) ==
  IF y[1] < 0 THEN Quotient(-y[2], -y[1]) ELSE Quotient(y[2], y[1])

Calculator(o, x, y) ==
  CASE o = "+" -> Add(x, y)
    [] o = "-" -> Add(x, Negative(y))
    [] o = "*" -> Multiply(x, y)
    [] o = "/" -> Multiply(x, Reciprocal(y))

Greater(x, y) ==
  IF x[2] = 0 /\ y[2] = 0 THEN x[1] > 0 /\ y[1] < 0
  ELSE x[1] * y[2] > y[1] * x[2]

Same(x, y) == Test(x) /\ Test(y) /\ ~Greater(x, y) /\ ~Greater(y, x)

(* The same number, or both NaN.                                           *)
Agree(x, y) == Same(x, y) \/ (~Test(x) /\ ~Test(y))

Comparator(o, x, y) ==
  Truth(CASE o = ">" -> Greater(x, y)
          [] o = "<" -> Greater(y, x)
          [] o = ">=" -> Greater(x, y) \/ Same(x, y)
          [] o = "<=" -> Greater(y, x) \/ Same(x, y)
          [] o = "==" -> Same(x, y)
          [] o = "!=" -> ~Same(x, y))

Bool(o, x, y) ==
  Truth(CASE o = "&&" -> Test(x) /\ Test(y)
          [] o = "||" -> Test(x) \/ Test(y))

Binary(o, x, y) ==
  CASE Level(o) \in {60, 70} -> Calculator(o, x, y)
    [] Level(o) \in {40, 50} -> Comparator(o, x, y)
    [] OTHER -> Bool(o, x, y)

Unary(o, x) == IF o = "-" THEN Negative(x) ELSE Truth(~Test(x))

(* The argument a function picks, by its index; 0 is none.                 *)
IfNaN(xs) == SelectInSeq(xs, Test)

IfZero(xs) == SelectInSeq(xs, LAMBDA x : Test(x) /\ ~Same(x, <<0, 1>>))

MaxOf(xs) ==
  LET upTo[n \in 0 .. Len(xs)] ==
        IF n = 0 THEN 0
        ELSE LET m == upTo[n - 1]
             IN IF Test(xs[n]) /\ (m = 0 \/ Greater(xs[n], xs[m])) THEN n ELSE m
  IN upTo[Len(xs)]

SumOf(xs) ==
  LET upTo[n \in 0 .. Len(xs)] ==
        IF n = 0 THEN <<0, 1>> ELSE Add(upTo[n - 1], xs[n])
  IN upTo[Len(xs)]

Picked(f, xs) ==
  CASE f = "max" -> MaxOf(xs)
    [] f = "ifnan" -> IfNaN(xs)
    [] f = "ifzero" -> IfZero(xs)

Evaluate(f, xs) ==
  IF f = "sum" THEN SumOf(xs)
  ELSE IF Picked(f, xs) = 0 THEN NaN ELSE xs[Picked(f, xs)]

(* The value of a node from those of its parts.                            *)
ValueOf(e, v) ==
  CASE e.kind = "literal" -> Amount[e.text]
    [] e.kind = "variable" -> Setting[e.text]
    [] e.kind = "binary" -> Binary(e.text, v[1], v[2])
    [] e.kind = "unary" -> Unary(e.text, v[1])
    [] e.kind = "parentheses" -> v[1]
    [] e.kind = "conditional" -> IF Test(v[1]) THEN v[2] ELSE v[3]
    [] e.kind = "function" -> Evaluate(e.text, v)

Value[e \in Trees] == ValueOf(e, OfParts(Value, e))

-----------------------------------------------------------------------------
(* Representations: as written, and expanded, with the values of variables *)
(* and the branches and arguments that count.                              *)
Separated(s, tss) ==
  LET upTo[i \in 0 .. Len(tss)] ==
        IF i = 0 THEN <<>>
        ELSE IF i = 1 THEN tss[1] ELSE upTo[i - 1] \o s \o tss[i]
  IN upTo[Len(tss)]

Between(ts) == <<"(">> \o ts \o <<")">>

(* A value is written as a literal, or as one behind a minus.              *)
LiteralsOf(x) == {l \in Literals : Amount[l] \in {x, Negative(x)}}

RepresentValue(x) ==
  LET l == CHOOSE k \in LiteralsOf(x) : TRUE
  IN IF Amount[l] = x THEN Shown[l] ELSE <<"-">> \o Shown[l]

(* Faulty: the arguments of a sum stand without parentheses.               *)
RepresentCallBare(f, tss, xs) ==
  IF f = "sum" THEN Separated(<<"+">>, tss)
  ELSE IF Picked(f, xs) = 0 THEN <<"NaN">> ELSE Between(tss[Picked(f, xs)])

RepresentCall(f, tss, xs) ==
  IF f = "sum" THEN Between(Separated(<<"+">>, tss))
  ELSE IF Picked(f, xs) = 0 THEN <<"NaN">> ELSE Between(tss[Picked(f, xs)])

(* Faulty: parentheses are taken for granted.                              *)
RepresentParenthesesNot(ts) == ts
RepresentParentheses(ts) == Between(ts)

RepresentOf(e, r) ==
  CASE e.kind = "literal" -> Shown[e.text]
    [] e.kind = "variable" -> <<e.text>>
    [] e.kind = "binary" -> r[1] \o <<e.text>> \o r[2]
    [] e.kind = "unary" -> <<e.text>> \o r[1]
    [] e.kind = "parentheses" -> RepresentParentheses(r[1])
    [] e.kind = "conditional" -> r[1] \o <<"?">> \o r[2] \o <<":">> \o r[3]
    [] e.kind = "function" -> <<e.text>> \o Between(Separated(<<",">>, r))

Represent[e \in Trees] == RepresentOf(e, OfParts(Represent, e))

ExpandOf(e, r) ==
  LET v == OfParts(Value, e) IN
  CASE e.kind = "variable" -> RepresentValue(Setting[e.text])
    [] e.kind = "conditional" -> IF Test(v[1]) THEN r[2] ELSE r[3]
    [] e.kind = "function" -> RepresentCall(e.text, r, v)
    [] OTHER -> RepresentOf(e, r)

Expand[e \in Trees] == ExpandOf(e, OfParts(Expand, e))

-----------------------------------------------------------------------------
(* The converters.                                                         *)
(* Faulty: the branch that does not count.                                 *)
ChosenOther(e) == IF Test(Value[e.args[1]]) THEN 3 ELSE 2

(* The branch that counts.                                                 *)
Chosen(e) == IF Test(Value[e.args[1]]) THEN 2 ELSE 3

(* Only sum has no extract(): the call throws.                             *)
ExtractableOf(e, ok) ==
  IF e.kind = "conditional" THEN ok[Chosen(e)]
  ELSE (e.kind = "function" => e.text # "sum") /\ \A i \in DOMAIN e.args : ok[i]

Extractable[e \in Trees] == ExtractableOf(e, OfParts(Extractable, e))

(* The argument a function picks is extracted already.                     *)
ExtractOf(e, es) ==
  LET picked == Picked(e.text, [i \in DOMAIN e.args |-> Value[es[i]]]) IN
  CASE e.kind = "parentheses" -> es[1]
    [] e.kind = "conditional" -> es[Chosen(e)]
    [] e.kind = "function" ->
         IF picked = 0 THEN Node("literal", "NaN", <<>>) ELSE es[picked]
    [] OTHER -> [e EXCEPT !.args = es]

Extract[e \in Trees] == ExtractOf(e, OfParts(Extract, e))

(* The ParenthesesAdder has the table of the parser once more.             *)
Priority(e) ==
  IF e.kind = "binary" THEN Level(e.text) ELSE 80

(* Faulty: no parentheses around an operator of the same priority on the   *)
(* right.                                                                  *)
CompareRightEqual(e) == Priority(e) > Priority(e.args[2])

CompareLeft(e) == Priority(e) > Priority(e.args[1])
CompareRight(e) == Priority(e) >= Priority(e.args[2])

AddOf(e, es) ==
  IF e.kind # "binary" THEN [e EXCEPT !.args = es]
  ELSE [e EXCEPT !.args =
          <<IF CompareLeft(e) THEN Parenthesized(es[1]) ELSE es[1],
            IF CompareRight(e) THEN Parenthesized(es[2]) ELSE es[2]>>]

AddParentheses[e \in Trees] == AddOf(e, OfParts(AddParentheses, e))

-----------------------------------------------------------------------------
(* The user writes a text, parses it and applies the converters.           *)

Operand == {<<t>> : t \in Literals \cup Variables}

(* The longer texts made of a text, with an operand or without.            *)
LongerWith(ts, a) ==
  {ts \o <<o>> \o a : o \in Operators}
    \cup {a \o <<o>> \o ts : o \in Operators}
    \cup {<<f>> \o Between(ts \o <<",">> \o a) : f \in Functions}
    \cup {ts \o <<"?">> \o a \o <<":">> \o a, a \o <<"?">> \o a \o <<":">> \o ts,
          a \o <<"?">> \o ts \o <<":">> \o a}

Longer(ts) ==
  {<<o>> \o ts : o \in PrefixOperators}
    \cup {Between(ts)}
    \cup {<<f>> \o Between(ts) : f \in Functions}
    \cup UNION {LongerWith(ts, a) : a \in Operand}

Init ==
  /\ source \in Operand \cup {<<f, "(", ")">> : f \in Functions}
  /\ tree = NoTree
  /\ stage = "written"

Write(ts) ==
  /\ stage = "written"
  /\ Len(ts) <= MaxTokens
  /\ source' = ts
  /\ UNCHANGED <<tree, stage>>

ParseText ==
  /\ stage = "written"
  /\ \E e \in {Parse(source)} : e \in Trees /\ tree' = e
  /\ stage' = "parsed"
  /\ UNCHANGED source

ExtractTree ==
  /\ stage \in {"parsed", "added"}
  /\ Extractable[tree]
  /\ tree' = Extract[tree]
  /\ stage' = "extracted"
  /\ UNCHANGED source

ExtractThrows ==
  /\ stage \in {"parsed", "added"}
  /\ ~Extractable[tree]
  /\ stage' = "thrown"
  /\ UNCHANGED <<source, tree>>

AddToTree ==
  /\ stage \in {"parsed", "extracted"}
  /\ \E e \in {AddParentheses[tree]} : e \in Trees /\ tree' = e
  /\ stage' = "added"
  /\ UNCHANGED source

Next ==
  \/ \E ts \in Longer(source) : Write(ts)
  \/ ParseText \/ ExtractTree \/ ExtractThrows \/ AddToTree

Spec == Init /\ [][Next]_vars

-----------------------------------------------------------------------------
(* An operator that takes a part of its operand when written out: the      *)
(* ParenthesesAdder never looks at what is under a prefix.                 *)
Exposed(e) ==
  \E d \in Nodes[e] : d.kind = "unary" /\ d.args[1].kind = "binary"

(* Literals that are written as they are read.                             *)
Plain(e) == \A d \in Nodes[e] : d.kind = "literal" => Shown[d.text] = <<d.text>>

(* A tree is written as the text it was parsed from, although binary       *)
(* operators write no parentheses of their own.                            *)
RepresentsSource ==
  stage = "parsed" /\ Plain(tree) => Represent[tree] = source

(* Converters keep the value.                                              *)
ConvertersKeepValue ==
  [][stage # "written" => Agree(Value[tree'], Value[tree])]_vars

(* Extracted, with parentheses added, and written out, a tree is parsed as *)
(* what it is: the parentheses are enough.                                 *)
Restorable(e) == Parse(Represent[e]) = e

ParenthesesSuffice ==
  stage = "added" /\ Plain(tree) /\ ~Exposed(tree) => Restorable(tree)

(* Variables with values that are written as literals of these values.    *)
Settled(e) ==
  \A d \in Nodes[e] : d.kind = "variable" =>
    /\ LiteralsOf(Setting[d.text]) # {}
    /\ \A l \in LiteralsOf(Setting[d.text]) : \E k \in Literals :
         Amount[k] = Amount[l] /\ Shown[l] = <<k>> /\ Shown[k] = <<k>>

(* The expanded representation is an expression of the same value, unless  *)
(* an operator that binds less than the plus, or a conditional, of which a *)
(* branch is left, stands in a sum, or a sum is empty.                     *)
Summable(e) ==
  \A d \in Nodes[e] : d.kind = "function" /\ d.text = "sum" =>
    /\ d.args # <<>>
    /\ \A i \in DOMAIN d.args :
         d.args[i].kind # "conditional" /\ Priority(d.args[i]) >= Level("+")

ExpansionKeepsValue ==
  stage = "parsed" /\ Plain(tree) /\ Settled(tree) /\ Summable(tree) =>
    LET e == Parse(Expand[tree])
    IN e \in Trees /\ Agree(Value[e], Value[tree])

(* What was extracted is restored: with parentheses added, the text has    *)
(* the value of the tree.                                                  *)
AddedIsRestored ==
  stage = "added" /\ Plain(tree) =>
    Agree(Value[Parse(Represent[tree])], Value[tree])
=============================================================================
