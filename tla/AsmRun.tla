------------------------------- MODULE AsmRun -------------------------------
(***************************************************************************)
(* The assembler and the emulated processor together: a source is          *)
(* assembled, its output loaded at its origin and run, and each            *)
(* instruction is compared with what its source line says.                 *)
(***************************************************************************)
EXTENDS Z80, M80asm

CONSTANTS
  StartRegs, StartIx, StartIy, StartSp,   \* the processor when the program is started
  StartFlags                              \* the flags it may find then

Running == asm.phase = "running"

RunInit == Init /\ AsmInit

Assemble == AsmNext /\ UNCHANGED vars

\* The program is placed at its origin and entered there.  Bound: one is not started whose
\* source was not read from its first byte in both passes.
StartProgram ==
  /\ asm.phase = "assembled" /\ asm.rewound
  /\ asm' = [asm EXCEPT !.phase = "running"]
  /\ \E f \in StartFlags :
       machine' = [machine EXCEPT
         !.regs = StartRegs, !.ix = StartIx, !.iy = StartIy, !.sp = StartSp, !.flags = f, !.pc = asm.org,
         !.mem = [a \in DOMAIN @ |-> IF a - asm.org + 1 \in DOMAIN asm.out
                                     THEN asm.out[a - asm.org + 1] ELSE (7 * a) % 251]]
  /\ UNCHANGED <<interrupt_pending, typed>>

\* The program is followed while it stays in its own code.  Bound: a run of MaxRun instructions.
CONSTANT MaxRun
Run == /\ Running
       /\ machine.pc - asm.org + 1 \in DOMAIN asm.out
       /\ machine.r < MaxRun
       /\ execute
       /\ UNCHANGED asm

RunNext == Assemble \/ StartProgram \/ Run
RunSpec == RunInit /\ [][RunNext]_<<vars, asm>>
----------------------------------------------------------------------------
\* What the texts mean, by the processor's manual rather than by either program.
Value(a) == IF a.s \in {"lab", "(lab)"}
            THEN asm.labels[Min({k \in DOMAIN asm.labels : asm.labels[k].id = a.n})].address ELSE a.n
Pairs == [BC |-> 0, DE |-> 1, HL |-> 2]
Registers == [A |-> 7, B |-> 0, C |-> 1, D |-> 2, E |-> 3, H |-> 4, L |-> 5]
Read16(s, a) ==
  CASE a.s \in DOMAIN Pairs -> Pair(s, Pairs[a.s])
    [] a.s = "SP" -> s.sp
    [] a.s = "AF" -> AF(s)
    [] a.s = "AF'" -> 256 * s.shadow_regs[REG_A] + FlagByte(s.shadow_flags)
    [] a.s = "IX" -> s.ix
    [] a.s = "IY" -> s.iy
    [] a.s = "(SP)" -> mread16(s, s.sp)
    [] a.s \in {"num", "lab"} -> Value(a) % 65536
    [] a.s \in {"(num)", "(lab)"} -> mread16(s, Value(a))
Read8(s, a) ==
  CASE a.s = "(HL)" -> mread8(s, HL(s))
    [] a.s = "(BC)" -> mread8(s, BC(s))
    [] a.s = "(DE)" -> mread8(s, DE(s))
    [] a.s = "(IX+num)" -> mread8(s, (s.ix + a.n) % 65536)
    [] a.s = "(IY+num)" -> mread8(s, (s.iy + a.n) % 65536)
    [] a.s \in {"(num)", "(lab)"} -> mread8(s, Value(a))
    [] a.s \in {"num", "lab"} -> Value(a) % 256
    [] OTHER -> s.regs[Registers[a.s]]
IsWide(a) == a.s \in {"BC", "DE", "HL", "SP", "IX", "IY"}

Holds(f, cond) ==
  CASE cond.s = "NZ" -> "Z" \notin f  [] cond.s = "Z" -> "Z" \in f
    [] cond.s = "NC" -> "C" \notin f  [] cond.s = "C" -> "C" \in f
    [] cond.s = "PO" -> "PV" \notin f [] cond.s = "PE" -> "PV" \in f
    [] cond.s = "P"  -> "S" \notin f  [] cond.s = "M" -> "S" \in f
    [] OTHER -> TRUE

\* The effect of a line on the values, s and t being the machine before and after it and n its
\* length.
Effect(s, t, op, a, b, n) ==
  LET carry == IF "C" \in s.flags THEN 1 ELSE 0
      Moves(d) == IF IsWide(a) THEN Read16(t, a) = (Read16(s, a) + d) % 65536
                               ELSE Read8(t, a) = (Read8(s, a) + d) % 256
      Adds(d) == t.regs[REG_A] = (s.regs[REG_A] + d) % 256
      \* a rotation of A by one place to the left (1) or right (-1), `bit' coming in
      Rotates(d, bit) ==
        LET in == IF d = 1 THEN 0 ELSE 7  out == 7 - in
        IN  /\ BitSet[t.regs[REG_A]] = {k + d : k \in BitSet[s.regs[REG_A]] \ {out}} \cup {in : x \in {bit} \cap {1}}
            /\ "C" \in t.flags <=> out \in BitSet[s.regs[REG_A]]
      Pushes == t.sp = s.sp - 2 /\ mread16(t, t.sp) = s.pc + n
      Bits(F(_, _)) == BitSet[t.regs[REG_A]] = F(BitSet[s.regs[REG_A]], BitSet[Read8(s, a)])
  IN  CASE op = "LD" -> IF IsWide(a) \/ IsWide(b) THEN Read16(t, a) = Read16(s, b)
                                                  ELSE Read8(t, a) = Read8(s, b)
        [] op = "INC" -> Moves(1)
        [] op = "DEC" -> Moves(-1)
        [] op = "ADD" -> IF IsWide(a) THEN Moves(Read16(s, b)) ELSE Adds(Read8(s, b))
        [] op = "ADC" -> Adds(Read8(s, b) + carry)
        [] op = "SUB" -> Adds(-Read8(s, a))
        [] op = "SBC" -> Adds(-Read8(s, b) - carry)
        [] op = "AND" -> Bits(LAMBDA x, y : x \cap y)
        [] op = "OR"  -> Bits(LAMBDA x, y : x \cup y)
        [] op = "XOR" -> Bits(LAMBDA x, y : (x \ y) \cup (y \ x))
        [] op = "CP"  -> Adds(0) /\ (("Z" \in t.flags) <=> Read8(s, a) = s.regs[REG_A])
        [] op = "PUSH" -> Read16(t, T("(SP)")) = Read16(s, a) /\ t.sp = s.sp - 2
        [] op = "POP" -> Read16(t, a) = Read16(s, T("(SP)")) /\ t.sp = s.sp + 2
        [] op = "EX" -> Read16(t, a) = Read16(s, b) /\ Read16(t, b) = Read16(s, a)
        [] op = "IN" -> t.regs[REG_A] = input_value(s, b.n)
        [] op = "OUT" -> t = [output_handler(s, a.n, s.regs[REG_A]) EXCEPT !.pc = t.pc, !.r = t.r]
        [] op = "CALL" -> IF b.s = NoText \/ Holds(s.flags, a) THEN Pushes ELSE t.sp = s.sp
        [] op = "RST" -> Pushes
        [] op = "RET" -> t.sp = IF a.s = NoText \/ Holds(s.flags, a) THEN s.sp + 2 ELSE s.sp
        [] op = "DJNZ" -> t.regs[REG_B] = (s.regs[REG_B] - 1) % 256
        [] op \in {"JP", "JR", "NOP"} -> t = [s EXCEPT !.pc = t.pc, !.r = t.r]
        [] op = "HALT" -> t.halt
        [] op = "DI" -> ~t.iff1 /\ ~t.iff2
        [] op = "EI" -> t.iff1 /\ t.iff2
        [] op = "CPL" -> BitSet[t.regs[REG_A]] = (0 .. 7) \ BitSet[s.regs[REG_A]]
        [] op = "SCF" -> "C" \in t.flags /\ Adds(0)
        [] op = "CCF" -> ("C" \in t.flags <=> carry = 0) /\ Adds(0)
        [] op = "RLCA" -> Rotates(1, Bit(s.regs[REG_A], 7))
        [] op = "RLA" -> Rotates(1, carry)
        [] op = "RRCA" -> Rotates(-1, Bit(s.regs[REG_A], 0))
        [] op = "RRA" -> Rotates(-1, carry)
        [] op = "EXX" -> \A k \in 0 .. 5 : t.regs[k] = s.shadow_regs[k] /\ t.shadow_regs[k] = s.regs[k]
\* The registers a line may change; the others keep their values.
Named(a) == CASE a.s \in DOMAIN Registers -> {Registers[a.s]}
              [] a.s \in DOMAIN Pairs -> {2 * Pairs[a.s], 2 * Pairs[a.s] + 1}
              [] OTHER -> {REG_A : x \in {a.s} \cap {"AF"}}
Changed(op, a, b) ==
  CASE op \in {"LD", "INC", "DEC", "ADD", "POP"} -> Named(a)
    [] op = "EX" -> Named(a) \cup Named(b)
    [] op = "EXX" -> 0 .. 5
    [] op = "DJNZ" -> {REG_B}
    [] op \in {"ADC", "SUB", "SBC", "AND", "OR", "XOR", "IN", "CPL", "RLCA", "RLA", "RRCA", "RRA"} -> {REG_A}
    [] OTHER -> {}
Keeps(s, t, op, a, b) ==
  /\ \A k \in (0 .. 7) \ Changed(op, a, b) : t.regs[k] = s.regs[k]
  /\ a.s # "IX" => t.ix = s.ix
  /\ a.s # "IY" => t.iy = s.iy

\* Where the processor goes on, from the line at address pc that is n bytes long.
Target(s, op, a, b, n) ==
  LET dest == IF b.s = NoText THEN a ELSE b
      next == (s.pc + n) % 65536
      Rel == IF dest.s = "num" /\ dest.n \in -128 .. 127 THEN (next + dest.n) % 65536 ELSE Value(dest)
  IN  CASE op = "JP" /\ a.s = "(HL)" -> HL(s)
        [] op \in {"JP", "CALL"} /\ a.s # "(HL)" ->
             IF b.s = NoText \/ Holds(s.flags, a) THEN Value(dest) % 65536 ELSE next
        [] op = "JR" -> IF b.s = NoText \/ Holds(s.flags, a) THEN Rel ELSE next
        [] op = "DJNZ" -> IF s.regs[REG_B] # 1 THEN Rel ELSE next
        [] op = "RET" -> IF a.s = NoText \/ Holds(s.flags, a) THEN mread16(s, s.sp) ELSE next
        [] op = "RST" -> a.n
        [] OTHER -> next

\* The line whose code starts at an address, by the lengths of what the second pass emitted.
Length(k, pc) == Len(Codegen(1, pc, asm.labels, asm.src[k]).bytes)
Address ==
  LET at[k \in 1 .. Len(asm.src) + 1] == IF k = 1 THEN asm.org ELSE
        at[k - 1] + IF asm.src[k - 1].op = "label" THEN 0 ELSE Length(k - 1, at[k - 1])
  IN  at
\* A program may write over itself; then its lines no longer say what it does.
Intact(from, to) == \A p \in from .. to - 1 : machine.mem[p] = asm.out[p - asm.org + 1]

\* Lines of the processor's language that the assembler accepts but takes for another: an
\* operand it does not know is read as the number or the address 0 (strtol and mem_addr).
Indexes == {"(IX+num)", "(IY+num)"}
MisreadFirst(op, a, b) ==
  \/ op = "LD" /\ a.s = "(HL)" /\ b.s = "A"
  \/ op \in {"SUB", "AND", "OR", "XOR", "CP"} /\ a.s \in Indexes
  \/ op = "JP" /\ a.s \in {"(IX)", "(IY)"}
  \/ op = "OUT" /\ a.s = "(C)"
MisreadSecond(op, a, b) ==
  \/ op = "LD" /\ a.s = "A" /\ b.s \in {"(HL)", "I", "R"}
  \/ op = "LD" /\ IsWide(a) /\ a.s # "HL" /\ b.s \in {"(num)", "(lab)"}
  \/ op \in {"ADD", "ADC", "SBC"} /\ b.s \in Indexes
  \/ op = "IN" /\ b.s = "(C)"
Zero(a) == [s |-> IF a.s \in {"(HL)", "(C)"} THEN "(num)" ELSE "num", n |-> 0]
TakenFor(line) ==
  [line EXCEPT !.a = IF MisreadFirst(line.op, line.a, line.b) THEN Zero(@) ELSE @,
               !.b = IF MisreadSecond(line.op, line.a, line.b) THEN Zero(@) ELSE @]

\* Only sources read from the first byte in both passes, without errors and whose labels are
\* all defined say what they mean.  DAA, which bemu80 does not implement, is left out.
Defined(a) == a.s \in {"lab", "(lab)"} => \E k \in DOMAIN asm.labels : asm.labels[k].id = a.n
Correct ==
  /\ asm.rewound /\ ~asm.failed
  /\ \A k \in DOMAIN asm.src : Defined(asm.src[k].a) /\ Defined(asm.src[k].b) /\ asm.src[k].op # "DAA"

\* No source comes up to 8000h with four bytes for each line.  Above, an address is a negative
\* int, which the tests addr >= 0 of LD take for no address, in the second pass only.
CodeEndsLow == \A src \in Sources, org \in Orgs : org + 4 * Len(src) < 32768

\* When both passes begin at the first byte (the lseek of main rewinds), the second pass
\* reaches every label at the address that the first pass gave it, so that references forwards
\* and backwards name the code behind the label.
PassesAgree ==
  asm.rewound /\ asm.pass = 1 /\ InPass /\ asm.src[asm.line].op = "label" =>
    \A k \in DOMAIN asm.labels :
      asm.labels[k].id = asm.src[asm.line].a.n
        /\ (\A j \in 1 .. k - 1 : asm.labels[j].id # asm.labels[k].id)
        /\ (\A j \in 1 .. asm.line - 1 :
              asm.src[j].op = "label" => asm.src[j].a.n # asm.labels[k].id)
      => asm.labels[k].address = asm.pc

\* Code assembled from a correct source does on the emulated processor what its lines say:
\* every instruction has the effect its mnemonic and operands name, leaves the other registers
\* alone, and goes on at the next line, at its label or at its address.  The lines named in
\* MisreadFirst and MisreadSecond do instead what they do with 0 for the operand.
RunsAsWritten ==
  [][Run /\ Correct =>
       \A k \in DOMAIN asm.src :
         asm.src[k].op # "label" /\ Address[k] = machine.pc /\ Intact(Address[k], Address[k + 1]) =>
           LET line == TakenFor(asm.src[k])
               n == Address[k + 1] - Address[k]
           IN  /\ Effect(machine, machine', line.op, line.a, line.b, n)
               /\ Keeps(machine, machine', line.op, line.a, line.b)
               /\ machine'.pc = Target(machine, line.op, line.a, line.b, n)
    ]_<<vars, asm>>
=============================================================================
