------------------------------- MODULE M80asm -------------------------------
(***************************************************************************)
(* The assembler (userland/m80asm.c): two passes over the lines of a       *)
(* source, the first to place the labels, the second to emit the code.     *)
(* A line is its operation and two arguments.  An argument is its text s   *)
(* and a number n: "num" and "(num)" stand for any numeral, "lab" and      *)
(* "(lab)" for the label n, "(IX+num)" for a displacement; every other     *)
(* text stands for itself.  Integers are those of the target, 16 bits.     *)
(* On Manux the lseek that rewinds the source passes SEEK_SET = 0, which   *)
(* mfs_seek does not know: the position is then any (an unassigned         *)
(* variable), so a pass may begin at any line and inside one.  Built for   *)
(* Linux, it rewinds.                                                      *)
(***************************************************************************)
EXTENDS Integers, Sequences, FiniteSetsExt

CONSTANTS
  Sources,           \* the programs given to the assembler
  Tails,             \* the lines that the rest of a line, read from inside it, may look like
  Orgs,              \* the addresses given with --org
  MAX_LABELS         \* the size of labels[]

ASSUME SourceAssumption ==
  /\ Sources \subseteq Seq([op : STRING, a : [s : STRING, n : Int], b : [s : STRING, n : Int]])
  /\ Orgs \subseteq Nat

VARIABLE asm         \* the source and org, pass, pc, current line, labels and output; head is
                     \* the tail a pass begins with; rewound: the passes began at the first line

NoText == ""
NoArg == [s |-> NoText, n |-> 0]
T(text) == [s |-> text, n |-> 0]
Uint16(v) == v % 65536
Int16(v) == LET w == Uint16(v) IN IF w >= 32768 THEN w - 65536 ELSE w
AsByte(v) == v % 256
AsWord(v) == <<v % 256, (v \div 256) % 256>>

Lookup(table, a) == IF a.s \in DOMAIN table THEN table[a.s] ELSE -1
Reg8Table == [B |-> 0, C |-> 1, D |-> 2, E |-> 3, H |-> 4, L |-> 5, A |-> 7]
reg8(a) == IF a.s = "(HL)" THEN 6 ELSE Lookup(Reg8Table, a)
reg16(a) == Lookup([BC |-> 0, DE |-> 1, HL |-> 2, SP |-> 3, AF |-> 3], a)
index_reg(a) == Lookup([IX |-> 221, IY |-> 253], a)
jrcond(a) == Lookup([NZ |-> 0, Z |-> 1, NC |-> 2, C |-> 3], a)
jpcond(a) == Lookup([NZ |-> 0, Z |-> 1, NC |-> 2, C |-> 3, PO |-> 4, PE |-> 5, P |-> 6, M |-> 7], a)

\* strtol of a text that is not a number is 0, inside parentheses too.
Parenthesised == {"(num)", "(lab)", "(HL)", "(BC)", "(DE)", "(SP)", "(C)", "(IX)", "(IY)",
                  "(IX+num)", "(IY+num)"}
strtol(a) == IF a.s = "num" THEN Int16(a.n) ELSE 0
mem_addr(a) == IF a.s = "(num)" THEN Int16(a.n) ELSE IF a.s \in Parenthesised THEN 0 ELSE -1
index_addr(a) == a.s \in {"(IX+num)", "(IY+num)"} /\ a.n \in -128 .. 127
index_prefix(a) == IF a.s = "(IX+num)" THEN 221 ELSE 253

\* The address of a label is an int; -1, also the address FFFFh, is "not found".
get_label_addr(labels, id) ==
  LET at == {k \in DOMAIN labels : labels[k].id = id}
  IN  IF at = {} THEN -1 ELSE Int16(labels[Min(at)].address)
\* is_label and is_label_ptr, which rewrite the argument's text in the second pass
Resolved(labels, a) ==
  IF a.s \in {"lab", "(lab)"} /\ get_label_addr(labels, a.n) # -1
  THEN [s |-> IF a.s = "lab" THEN "num" ELSE "(num)", n |-> get_label_addr(labels, a.n)]
  ELSE a
----------------------------------------------------------------------------
\* What a line emits is decided by the first of its rules that applies: the condition, the
\* bytes, and whether line_codegen then returns 0.
Emit(cond, bytes) == [cond |-> cond, bytes |-> bytes, ok |-> TRUE]
Fail(cond, bytes) == [cond |-> cond, bytes |-> bytes, ok |-> FALSE]
NoRule == Fail(TRUE, <<>>)

Plain == [NOP |-> 0, HALT |-> 118, DI |-> 243, EI |-> 251, CPL |-> 47, SCF |-> 55, CCF |-> 63,
          DAA |-> 39, RLCA |-> 7, RRCA |-> 15, RLA |-> 23, RRA |-> 31, EXX |-> 217]

LD(a, b) ==
  LET ra == reg8(a)  rb == reg8(b)
  IN  << Emit(index_addr(b) /\ ra \notin {-1, 6}, <<index_prefix(b), 70 + 8 * ra, AsByte(b.n)>>),
         Emit(index_addr(a) /\ rb \notin {-1, 6}, <<index_prefix(a), 112 + rb, AsByte(a.n)>>),
         Emit(index_addr(a), <<index_prefix(a), 54, AsByte(a.n), AsByte(strtol(b))>>),
         Emit(a.s = "A" /\ b.s = "(BC)", <<10>>), Emit(a.s = "A" /\ b.s = "(DE)", <<26>>),
         Emit(a.s = "(BC)" /\ b.s = "A", <<2>>),  Emit(a.s = "(DE)" /\ b.s = "A", <<18>>),
         Emit(a.s = "A" /\ mem_addr(b) >= 0, <<58>> \o AsWord(mem_addr(b))),
         Emit(a.s = "HL" /\ mem_addr(b) >= 0, <<42>> \o AsWord(mem_addr(b))),
         Emit(b.s = "A" /\ mem_addr(a) >= 0, <<50>> \o AsWord(mem_addr(a))),
         Emit(b.s = "HL" /\ mem_addr(a) >= 0, <<34>> \o AsWord(mem_addr(a))),
         Emit(index_reg(b) # -1 /\ mem_addr(a) >= 0, <<index_reg(b), 34>> \o AsWord(mem_addr(a))),
         Emit(a.s = "SP" /\ b.s = "HL", <<249>>),
         Fail(ra = 6 /\ rb = 6, <<>>),
         Emit(ra # -1 /\ rb # -1, <<64 + 8 * ra + rb>>),
         Emit(ra # -1, <<6 + 8 * ra, AsByte(strtol(b))>>),
         Emit(a.s = "SP" /\ index_reg(b) # -1, <<index_reg(b), 249>>),
         Emit(reg16(a) # -1, <<1 + 16 * reg16(a)>> \o AsWord(strtol(b))),
         Emit(index_reg(a) # -1, <<index_reg(a), 33>> \o AsWord(strtol(b))) >>

\* INC and DEC, PUSH and POP: opcodes for an 8-bit, a 16-bit and an index register.
Count(a, op8, op16, opx) ==
  << Emit(reg8(a) # -1, <<op8 + 8 * reg8(a)>>), Emit(reg16(a) # -1, <<op16 + 16 * reg16(a)>>),
     Emit(index_reg(a) # -1, <<index_reg(a), opx>>) >>
Stack(a, op16, opx) ==
  << Emit(reg16(a) # -1, <<op16 + 16 * reg16(a)>>), Emit(index_reg(a) # -1, <<index_reg(a), opx>>) >>

\* An operation on A with a register or an immediate operand.
Arith(b, base) == << Emit(reg8(b) # -1, <<base + reg8(b)>>), Emit(TRUE, <<base + 70, AsByte(strtol(b))>>) >>
ADD(a, b) ==
  << Emit(a.s = "A" /\ reg8(b) # -1, <<128 + reg8(b)>>),
     Emit(a.s = "A", <<198, AsByte(strtol(b))>>),
     Emit(a.s = "HL" /\ reg16(b) # -1, <<9 + 16 * reg16(b)>>),
     Emit(index_reg(a) # -1 /\ reg16(b) # -1, <<index_reg(a), 9 + 16 * reg16(b)>>) >>
OnA(a, b, base) == <<Fail(a.s # "A", <<>>)>> \o Arith(b, base)

\* JP and CALL with and without a condition
Absolute(a, b, cond_op, op) ==
  << Fail(b.s # NoText /\ jpcond(a) = -1, <<>>),
     Emit(b.s # NoText, <<cond_op + 8 * jpcond(a)>> \o AsWord(strtol(b))),
     Emit(a.s # NoText, <<op>> \o AsWord(strtol(a))) >>

\* Mutant: the first pass leaves no byte for the offset.
emit_rel_NoByte(pass, pc, op, a) ==
  LET num == strtol(a)  offset == Int16(num - (pc + 2))
      value == IF num \in -128 .. 255 THEN num ELSE offset
  IN  << Emit(pass = 0, <<op>>),
         Fail(num \notin -128 .. 255 /\ offset \notin -128 .. 127, <<op>>),
         Emit(TRUE, <<op, AsByte(value)>>) >>

\* Mutant: the offset counts from the instruction itself.
emit_rel_FromOpcode(pass, pc, op, a) ==
  LET num == strtol(a)  offset == Int16(num - pc)
      value == IF num \in -128 .. 255 THEN num ELSE offset
  IN  << Emit(pass = 0, <<op, 0>>),
         Fail(num \notin -128 .. 255 /\ offset \notin -128 .. 127, <<op>>),
         Emit(TRUE, <<op, AsByte(value)>>) >>

\* A number that fits a byte is the offset itself, any other the address to reach.  The first
\* pass leaves a byte; out of range only the opcode is emitted.
emit_rel(pass, pc, op, a) ==
  LET num == strtol(a)  offset == Int16(num - (pc + 2))
      value == IF num \in -128 .. 255 THEN num ELSE offset
  IN  << Emit(pass = 0, <<op, 0>>),
         Fail(num \notin -128 .. 255 /\ offset \notin -128 .. 127, <<op>>),
         Emit(TRUE, <<op, AsByte(value)>>) >>
JR(pass, pc, a, b) ==
  IF b.s = NoText THEN IF a.s = NoText THEN <<>> ELSE emit_rel(pass, pc, 24, a)
  ELSE IF jrcond(a) = -1 THEN <<>> ELSE emit_rel(pass, pc, 32 + 8 * jrcond(a), b)

Rules(pass, pc, op, a, b) ==
  CASE op = "LD"   -> LD(a, b)
    [] op = "INC"  -> Count(a, 4, 3, 35)
    [] op = "DEC"  -> Count(a, 5, 11, 43)
    [] op = "ADD"  -> ADD(a, b)
    [] op = "ADC"  -> OnA(a, b, 136)
    [] op = "SBC"  -> OnA(a, b, 152)
    [] op = "SUB"  -> Arith(a, 144)
    [] op = "AND"  -> Arith(a, 160)
    [] op = "XOR"  -> Arith(a, 168)
    [] op = "OR"   -> Arith(a, 176)
    [] op = "CP"   -> Arith(a, 184)
    [] op = "PUSH" -> Stack(a, 197, 229)
    [] op = "POP"  -> Stack(a, 193, 225)
    [] op = "RST"  -> << Emit(strtol(a) \in 0 .. 56, <<199 + strtol(a)>>) >>
    [] op = "JP"   -> << Emit(a.s = "(HL)", <<233>>) >> \o Absolute(a, b, 194, 195)
    [] op = "JR"   -> JR(pass, pc, a, b)
    [] op = "DJNZ" -> emit_rel(pass, pc, 16, a)
    [] op = "CALL" -> Absolute(a, b, 196, 205)
    [] op = "RET"  -> << Fail(a.s # NoText /\ jpcond(a) = -1, <<>>),
                         Emit(a.s # NoText, <<192 + 8 * jpcond(a)>>), Emit(TRUE, <<201>>) >>
    [] op = "IN"   -> << Emit(a.s = "A" /\ b.s # NoText, <<219, AsByte(mem_addr(b))>>) >>
    [] op = "OUT"  -> << Emit(b.s = "A" /\ a.s # NoText, <<211, AsByte(mem_addr(a))>>) >>
    [] op = "EX"   -> << Emit(a.s = "AF" /\ b.s = "AF'", <<8>>),
                         Emit(a.s = "DE" /\ b.s = "HL", <<235>>),
                         Emit(a.s = "(SP)" /\ b.s = "HL", <<227>>) >>
    [] OTHER -> IF op \in DOMAIN Plain THEN << Emit(TRUE, <<Plain[op]>>) >> ELSE <<>>

Codegen(pass, pc, labels, line) ==
  LET a == IF pass = 1 THEN Resolved(labels, line.a) ELSE line.a
      b == IF pass = 1 THEN Resolved(labels, line.b) ELSE line.b
      rules == Rules(pass, pc, line.op, a, b) \o <<NoRule>>
  IN  rules[Min({k \in DOMAIN rules : rules[k].cond})]
----------------------------------------------------------------------------
\* Where the lseek of a pass may leave the file: before a line, inside one, or at the end.
\* Behind the end mfs_read gives the rest of the block, taken for empty lines.
NoHead == [op |-> NoText, a |-> NoArg, b |-> NoArg]
FirstByte == [line |-> 1, head |-> NoHead]
Beginnings(src) ==
  [line : 1 .. Len(src) + 1, head : {NoHead}] \cup [line : 1 .. Len(src), head : Tails]

AsmInit ==
  \E src \in Sources, org \in Orgs : \E at \in Beginnings(src) :
    asm = [src |-> src, org |-> org, pass |-> 0, pc |-> org, line |-> at.line, head |-> at.head,
           labels |-> <<>>, out |-> <<>>, failed |-> FALSE, rewound |-> at = FirstByte, phase |-> "lines"]

InPass == asm.phase = "lines" /\ ~asm.failed /\ asm.line <= Len(asm.src)
\* The line that is read next.
Current == IF asm.head = NoHead THEN asm.src[asm.line] ELSE asm.head

\* A line that is a label: recorded in the first pass, ignored in the second.
LabelLine ==
  /\ InPass /\ Current.op = "label"
  /\ asm' = IF asm.pass = 0 /\ Len(asm.labels) >= MAX_LABELS THEN [asm EXCEPT !.failed = TRUE]
            ELSE [asm EXCEPT !.line = @ + 1, !.head = NoHead,
                             !.labels = IF asm.pass = 0
                                        THEN Append(@, [id |-> Current.a.n, address |-> asm.pc])
                                        ELSE @]

\* Any other line: pc counts in both passes, bytes are written in the second.
CodeLine ==
  /\ InPass /\ Current.op # "label"
  /\ LET rule == Codegen(asm.pass, asm.pc, asm.labels, Current)
     IN  asm' = [asm EXCEPT !.pc = Uint16(@ + Len(rule.bytes)),
                            !.out = IF asm.pass = 1 THEN @ \o rule.bytes ELSE @,
                            !.line = IF rule.ok THEN @ + 1 ELSE @,
                            !.head = NoHead,
                            !.failed = ~rule.ok]

\* The end of the file or an error ends a pass; the second pass runs in both cases.
PassEnds == asm.phase = "lines" /\ (asm.failed \/ asm.line > Len(asm.src))
SecondPass ==
  /\ PassEnds /\ asm.pass = 0
  /\ \E at \in Beginnings(asm.src) :
       asm' = [asm EXCEPT !.pass = 1, !.pc = asm.org, !.line = at.line, !.head = at.head, !.failed = FALSE,
                          !.rewound = asm.rewound /\ at = FirstByte]
Finish == PassEnds /\ asm.pass = 1 /\ asm' = [asm EXCEPT !.phase = "assembled"]

AsmNext == LabelLine \/ CodeLine \/ SecondPass \/ Finish
=============================================================================
