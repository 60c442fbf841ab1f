----------------------------- MODULE MCUserland -----------------------------
(***************************************************************************)
(* Userland for TLC.                                                       *)
(***************************************************************************)
EXTENDS Userland

Run(name, words) == [kind |-> "run", name |-> name, words |-> words]
MCCommands ==
  {[Typing EXCEPT !.kind = k] : k \in {"empty", "builtin", "unknown"}}
  \cup {Run("EDIT", <<<<1>>>>), Run("EDIT", <<<<1>>, <<2, 3>>>>), Run("ECALC", <<<<1>>>>)}
  \cup {Run("PROG", w) : w \in {<<<<1, 2, 3, 4, 5, 6, 7, 8, 9>>>>, <<<<1, 2>>, <<3>>, <<4, 5, 6, 7>>>>,
                                <<<<1>>, <<2>>, <<3>>, <<4>>>>}}
  \cup {Run("NONE", <<<<1>>>>)}
MCVectors == {<<>>, <<<<9>>, <<8, 7>>>>}
MCCodes == {0, -1}

\* Lines of up to two characters, typed straight and with corrections.
MCKeys ==
  {<<".">>, <<"a", "b">>, <<"b", "BS", "BS">>, <<"a", "b", "BS", "BS", "b">>}
\* Empty, a last line without a newline, one too long with CR LF, an empty line and too many lines.
MCFiles == {<<>>, <<"a", "n", "b">>, <<"a", "b", "a", "r", "n">>, <<"n", "b", "n", "a", "b">>}

N(v) == [kind |-> "NUM", v |-> v]
K(kind) == [kind |-> kind, v |-> 0]
Ops == {"ADD", "SUB", "MUL", "DIV", "EXP", "AND", "OR", "XOR"}
MCLines ==
  {<<N(7), K(p), N(2), K(q), N(3)>> : p \in Ops, q \in Ops}
  \cup {<<N(7), K(p), K("LPAR"), N(2), K(q), N(3), K("RPAR")>> : p \in Ops, q \in Ops}
  \cup {<<K("LPAR"), N(7), K(p), N(2), K("RPAR"), K(q), N(3)>> : p \in Ops, q \in Ops}
  \cup {<<K(u), N(7), K(p), K(w), N(2)>> : u \in {"SUB", "NOT", "ADD"}, p \in Ops, w \in {"SUB", "NOT"}}
  \cup {<<K("ANS"), K(p), N(300)>> : p \in Ops \ {"EXP"}}
  \cup {<<N(300), K("MUL"), N(300)>>, <<N(32767), K("ADD"), N(1)>>, <<N(7), K("DIV"), N(0)>>}
  \* an operand, a parenthesis or an operator is missing
  \cup {<<>>, <<N(7), K("ADD")>>, <<K("LPAR"), N(7)>>, <<K("RPAR")>>, <<N(7), N(2)>>}
=============================================================================
