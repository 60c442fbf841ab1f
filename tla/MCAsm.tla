------------------------------- MODULE MCAsm -------------------------------
(***************************************************************************)
(* AsmRun for TLC: every instruction the assembler supports, with each     *)
(* kind of operand that the processor allows and line_codegen accepts,     *)
(* those it takes for another included, and sources with labels.           *)
(***************************************************************************)
EXTENDS AsmRun

Num(n) == [s |-> "num", n |-> n]
At(n) == [s |-> "(num)", n |-> n]
Lab(k) == [s |-> "lab", n |-> k]
LabAt(k) == [s |-> "(lab)", n |-> k]
Texts(S) == {T(s) : s \in S}
Line(op, a, b) == [op |-> op, a |-> a, b |-> b]
Lines(op, A, B) == {Line(op, a, b) : a \in A, b \in B}
Label(k) == Line("label", Lab(k), NoArg)
HALT == Line("HALT", NoArg, NoArg)
None == {NoArg}

R8 == Texts({"B", "C", "D", "E", "H", "L", "A"})
M8 == Texts({"(HL)"})
R16 == Texts({"BC", "DE", "HL", "SP"})
Index == Texts({"IX", "IY"})
Indexed == [s : {"(IX+num)", "(IY+num)"}, n : {-2, 3}]
Conds == Texts({"NZ", "Z", "NC", "C", "PO", "PE", "P", "M"})
A == Texts({"A"})

\* Accepted, but taken for lines with the operand 0.
TakenWrong ==
  Lines("LD", A, M8 \cup Texts({"I", "R"})) \cup Lines("LD", M8, A)
  \cup Lines("LD", Texts({"BC", "DE", "SP"}) \cup Index, {At(310)})
  \cup UNION {Lines(op, A, Indexed) : op \in {"ADD", "ADC", "SBC"}}
  \cup UNION {Lines(op, Indexed, None) : op \in {"SUB", "AND", "OR", "XOR", "CP"}}
  \cup Lines("JP", Texts({"(IX)", "(IY)"}), None)
  \cup {Line("IN", T("A"), T("(C)")), Line("OUT", T("(C)"), T("A"))}
Loads ==
  (Lines("LD", R8, R8 \cup Indexed \cup {Num(200)}) \cup Lines("LD", R8 \ A, M8)
   \cup Lines("LD", M8, (R8 \ A) \cup {Num(200)}) \cup Lines("LD", Indexed, R8 \cup {Num(200)})
   \cup Lines("LD", A, Texts({"(BC)", "(DE)"}) \cup {At(310)})
   \cup Lines("LD", Texts({"(BC)", "(DE)"}) \cup {At(310)}, A)
   \cup Lines("LD", Texts({"HL"}), {At(310)}) \cup Lines("LD", {At(310)}, Texts({"HL", "IX", "IY"}))
   \cup Lines("LD", Texts({"SP"}), Texts({"HL", "IX", "IY"}))
   \cup Lines("LD", R16 \cup Index, {Num(40000)}))
Sums ==
  Lines("INC", R8 \cup M8 \cup R16 \cup Index, None) \cup Lines("DEC", R8 \cup M8 \cup R16 \cup Index, None)
  \cup UNION {Lines(op, A, R8 \cup M8 \cup {Num(200)}) : op \in {"ADD", "ADC", "SBC"}}
  \cup UNION {Lines(op, R8 \cup M8 \cup {Num(200)}, None) : op \in {"SUB", "AND", "OR", "XOR", "CP"}}
  \cup Lines("ADD", Texts({"HL"}), R16) \cup Lines("ADD", Index, Texts({"BC", "DE", "SP"}))
Others ==
  Lines("PUSH", Texts({"BC", "DE", "HL", "AF"}) \cup Index, None)
  \cup Lines("POP", Texts({"BC", "DE", "HL", "AF"}) \cup Index, None)
  \cup {Line("EX", T("AF"), T("AF'")), Line("EX", T("DE"), T("HL")), Line("EX", T("(SP)"), T("HL"))}
  \cup {Line("RST", Num(32), NoArg), Line("JP", T("(HL)"), NoArg), Line("JR", Num(5), NoArg), Line("JR", Num(300), NoArg)}
  \cup Lines("IN", A, {At(128)}) \cup Lines("OUT", {At(129)}, A)
  \cup Lines("RET", Conds \cup None, None)
  \cup {Line(op, NoArg, NoArg) : op \in DOMAIN Plain \cup {"LD", "JR", "MUL"}}

\* References to a label behind and before the line, through every kind of operand.
ToLabel(k) ==
  Lines("JP", {Lab(k)}, None) \cup Lines("JP", Conds, {Lab(k)})
  \cup Lines("CALL", {Lab(k)}, None) \cup Lines("CALL", Conds, {Lab(k)})
  \cup Lines("JR", {Lab(k)}, None) \cup Lines("JR", Texts({"NZ", "Z", "NC", "C"}), {Lab(k)})
  \cup Lines("DJNZ", {Lab(k)}, None) \cup Lines("LD", Texts({"HL", "IX"}), {Lab(k)})
  \cup Lines("LD", A, {LabAt(k)}) \cup Lines("LD", {LabAt(k)}, A) \cup Lines("LD", Texts({"HL"}), {LabAt(k)})

MCSources ==
  {<<line>> : line \in Loads \cup Sums \cup Others \cup TakenWrong}
  \cup {<<line, Line("LD", Index1, Num(1)), Label(1), HALT>> : line \in ToLabel(1), Index1 \in Texts({"IX"})}
  \cup {<<Label(1), Line("INC", T("A"), NoArg), line, Label(2), HALT>> : line \in ToLabel(1) \cup ToLabel(2)}
  \* a third label, a label defined twice, one that is missing, jumps that are too far
  \cup {<<Label(1), Label(2), Label(3), Line("JP", Lab(1), NoArg)>>,
        <<Label(1), Line("INC", T("A"), NoArg), Label(1), Line("JP", Lab(1), NoArg)>>,
        <<Line("JP", Lab(3), NoArg)>>, <<Line("JR", Num(500), NoArg)>>, <<Line("DJNZ", Num(500), NoArg)>>,
        <<Line("JP", T("Q"), Num(500))>>, <<Line("LD", T("(HL)"), T("(HL)")), Label(1)>>}
\* The rest of a line from inside it: another instruction, another label, nothing known.
MCTails == {Line("OR", T("B"), NoArg), Label(2), Line("MUL", NoArg, NoArg)}

\* BC, DE, HL, IX and IY point into the memory behind the code.
MCRegs == [k \in 0 .. 7 |-> <<1, 49, 1, 47, 1, 45, 0, 9>>[k + 1]]
MCFlags == {{}, {"C", "Z", "S", "PV"}}
MCRoms == {<<>>}
MCDisks == {NoDisk}
=============================================================================
