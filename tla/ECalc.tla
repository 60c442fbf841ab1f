-------------------------------- MODULE ECalc --------------------------------
(***************************************************************************)
(* The calculator (userland/ecalc.c): a recursive-descent evaluator over   *)
(* the tokens of a line, in 16-bit integers, and the value `ans' kept from *)
(* one line to the next.  A token is its kind and, for a number, its       *)
(* value.  A parsing operator returns the value and the tokens left.       *)
(***************************************************************************)
EXTENDS Integers, Sequences, FiniteSetsExt
LOCAL INSTANCE Bitwise

CONSTANTS
  CalcLines,         \* the lines typed, as sequences of tokens
  DIV0,              \* what the division routine leaves for a divisor 0
  MaxEvals           \* bound on the lines evaluated in one session

VARIABLE calc        \* the result, the one before it, the line; NoCalc when not running

NoCalc == [running |-> FALSE]
NoLine == <<>>

Int16(v) == LET w == v % 65536 IN IF w >= 32768 THEN w - 65536 ELSE w
BitOp(kind, x, y) ==
  LET a == x % 65536  b == y % 65536
  IN  Int16(CASE kind = "AND" -> a & b [] kind = "OR" -> a | b [] kind = "XOR" -> a ^^ b)
\* C division truncates towards zero.
Div(x, y) ==
  LET Abs(v) == IF v < 0 THEN -v ELSE v  q == Abs(x) \div Abs(y)
  IN  IF y = 0 THEN DIV0 ELSE Int16(IF (x < 0) = (y < 0) THEN q ELSE -q)
ipow(x, y) ==
  LET power[n \in 0 .. y] == IF n = 0 THEN 1 ELSE Int16(power[n - 1] * x)
  IN  IF y < 0 THEN 0 ELSE power[y]

\* next_token: the current token, EOF behind the last one, and the tokens after it.
Token(t) == IF t = <<>> THEN "EOF" ELSE Head(t).kind
Advance(t) == IF t = <<>> THEN t ELSE Tail(t)
Parsed(v, t) == [val |-> v, rest |-> t]
----------------------------------------------------------------------------
Bitwise3 == {"OR", "AND", "XOR"}
Apply(op, x, y) ==
  CASE op \in Bitwise3 -> BitOp(op, x, y) [] op = "DIV" -> Div(x, y) [] op = "EXP" -> ipow(x, y)
    [] op = "ADD" -> Int16(x + y) [] op = "SUB" -> Int16(x - y) [] op = "MUL" -> Int16(x * y)

\* parse_expr, parse_or, parse_xor, parse_and, parse_term and parse_exponent, each above the
\* next: the operators it looks for, and whether it loops or takes one operator only, so that
\* a second & behind the first is left over.
ParserLevels ==
  <<[ops |-> {"ADD", "SUB"}, loop |-> TRUE], [ops |-> {"OR"}, loop |-> FALSE],
    [ops |-> {"XOR"}, loop |-> FALSE], [ops |-> {"AND"}, loop |-> FALSE],
    [ops |-> {"MUL", "DIV"}, loop |-> TRUE], [ops |-> {"EXP"}, loop |-> TRUE]>>

RECURSIVE parse_factor(_, _), ParseLevel(_, _, _), Operations(_, _, _)

\* A missing operand is reported and counts as 0; nothing is consumed.
parse_factor(t, ans) ==
  LET inner == ParseLevel(1, Advance(t), ans)
      operand == parse_factor(Advance(t), ans)
  IN  CASE Token(t) = "NUM"  -> Parsed(Head(t).v, Advance(t))
        [] Token(t) = "LPAR" -> Parsed(inner.val, IF Token(inner.rest) = "RPAR" THEN Advance(inner.rest)
                                                                                ELSE inner.rest)
        [] Token(t) = "ADD"  -> operand
        [] Token(t) = "SUB"  -> Parsed(Int16(-operand.val), operand.rest)
        [] Token(t) = "NOT"  -> Parsed(-operand.val - 1, operand.rest)
        [] Token(t) = "ANS"  -> Parsed(ans, Advance(t))
        [] OTHER             -> Parsed(0, t)

\* A level's first operand, then its operators; left is what has been parsed.
ParseLevel(n, t, ans) ==
  IF n > Len(ParserLevels) THEN parse_factor(t, ans) ELSE Operations(n, ParseLevel(n + 1, t, ans), ans)

\* Mutant: the right side is the rest of the line at this level.
Operations_Right(n, left, ans) ==
  LET op == Token(left.rest)  right == ParseLevel(n, Advance(left.rest), ans)
  IN  IF op \in ParserLevels[n].ops THEN Parsed(Apply(op, left.val, right.val), right.rest) ELSE left

Operations(n, left, ans) ==
  LET op == Token(left.rest)
      right == ParseLevel(n + 1, Advance(left.rest), ans)
      both == Parsed(Apply(op, left.val, right.val), right.rest)
  IN  IF op \notin ParserLevels[n].ops THEN left
      ELSE IF ParserLevels[n].loop THEN Operations(n, both, ans) ELSE both
parse_expr(t, ans) == ParseLevel(1, t, ans)
----------------------------------------------------------------------------
CalcInit == calc = NoCalc

CalcStart ==
  /\ calc = NoCalc
  /\ calc' = [running |-> TRUE, result |-> 0, prev |-> 0, line |-> NoLine, evals |-> 0]

\* main: the line is parsed from its first token; tokens left over are ignored.
Calculate(line) ==
  /\ calc.running /\ calc.evals < MaxEvals
  /\ calc' = [calc EXCEPT !.prev = calc.result, !.line = line, !.evals = @ + 1,
                          !.result = parse_expr(line, calc.result).val]
----------------------------------------------------------------------------
\* The reference: a line means its loosest operator, the last of several, applied to what
\* stands on both sides of it.  The levels are those of the comment over the parser.
Levels == <<{"OR"}, {"AND"}, {"XOR"}, {"ADD", "SUB"}, {"MUL", "DIV"}, {"EXP"}>>
Depth(t, k) ==
  Cardinality({j \in 1 .. k : t[j].kind = "LPAR"}) - Cardinality({j \in 1 .. k : t[j].kind = "RPAR"})
Binary(t) ==
  {k \in 2 .. Len(t) : t[k].kind \in UNION {Levels[n] : n \in 1 .. 6} /\ t[k - 1].kind \in {"NUM", "ANS", "RPAR"}}

RECURSIVE Meaning(_, _)
Meaning(t, ans) ==
  LET Open == {k \in Binary(t) : Depth(t, k) = 0}
      level == Min({n \in 1 .. 6 : \E k \in Open : t[k].kind \in Levels[n]})
      k == Max({j \in Open : t[j].kind \in Levels[level]})
      rest == Meaning(Tail(t), ans)
  IN  IF Open # {} THEN Apply(t[k].kind, Meaning(SubSeq(t, 1, k - 1), ans), Meaning(SubSeq(t, k + 1, Len(t)), ans))
      ELSE CASE t[1].kind = "NUM" -> t[1].v
             [] t[1].kind = "ANS" -> ans
             [] t[1].kind = "ADD" -> rest
             [] t[1].kind = "SUB" -> Int16(-rest)
             [] t[1].kind = "NOT" -> -rest - 1
             [] t[1].kind = "LPAR" -> Meaning(SubSeq(t, 2, Len(t) - 1), ans)

\* Operands and operators alternate and parentheses match.
WellFormed(t) ==
  LET value == {"NUM", "ANS"}
      Starts(k) == t[k].kind \in value \cup {"LPAR", "ADD", "SUB", "NOT"}
  IN  /\ t # <<>> /\ Starts(1) /\ t[Len(t)].kind \in value \cup {"RPAR"}
      /\ Depth(t, Len(t)) = 0 /\ \A k \in DOMAIN t : Depth(t, k) >= 0
      /\ \A k \in 1 .. Len(t) - 1 :
           IF t[k].kind \in value \cup {"RPAR"} THEN k + 1 \in Binary(t) \/ t[k + 1].kind = "RPAR" ELSE Starts(k + 1)

\* A bitwise operator beside another one, or beside + or -, within the same parentheses.
Mixed(t) ==
  \E j, k \in Binary(t) :
    /\ j # k /\ t[j].kind \in Bitwise3 /\ t[k].kind \in Bitwise3 \cup {"ADD", "SUB"}
    /\ Depth(t, j) = Depth(t, k)
    /\ \A i \in (IF j < k THEN j .. k ELSE k .. j) : Depth(t, i) >= Depth(t, j)

\* The evaluator computes the documented meaning of every well-formed line, with the result of
\* the line before it as ans, for nested parentheses, unary operators, chains of operators of
\* one level, overflow and division of negative numbers; only lines that mix bitwise
\* operators with others of the lower levels are left out.
CalculatesMeaning ==
  calc.running /\ calc.evals > 0 =>
    (WellFormed(calc.line) /\ ~Mixed(calc.line) => calc.result = Meaning(calc.line, calc.prev))
=============================================================================
