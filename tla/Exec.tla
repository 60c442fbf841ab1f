-------------------------------- MODULE Exec --------------------------------
(***************************************************************************)
(* Starting programs and system calls (kernel.c, system_call.asm,          *)
(* kmain.asm, shell.c): the three stacks, the words in which the kernel    *)
(* keeps stack pointers, and the program information header.  Stacks are   *)
(* words of one memory and grow downwards; code addresses are numbers too. *)
(* An interrupt leaves every stack as it found it and is left out.         *)
(***************************************************************************)
EXTENDS Integers, Sequences, FiniteSetsExt

CONSTANTS
  KERNEL_STACK, SHELL_STACK, USER_STACK,   \* the tops of the three stacks
  Files,             \* the programs on the disk
  Unknown,           \* names that are not on the disk
  ARGV_SIZE,         \* bytes for the argument strings and their pointers
  MAX_ARGS,
  Commands,          \* the lines typed at the shell: a kind, a file name, the words
  Spawned,           \* the names user programs give to execv
  Vectors,           \* the argument vectors the kernel may find when a user program calls it
  Codes,             \* exit codes
  MaxDepth           \* bound: words a user program keeps on its stack

ASSUME StackAssumption ==
  /\ KERNEL_STACK \in Nat /\ SHELL_STACK \in Nat /\ USER_STACK \in Nat /\ MaxDepth \in Nat
  /\ KERNEL_STACK >= 12 /\ Codes \subseteq Int
  /\ Spawned \subseteq Files \cup Unknown
  /\ SHELL_STACK > KERNEL_STACK + 12 /\ USER_STACK > SHELL_STACK + MaxDepth + 4

VARIABLES
  m,                 \* the processor and the kernel's words
  loaded,            \* the program in the user area
  pih,               \* the program information header
  command,           \* the line the shell is working on
  nested             \* a user program has called execv since the shell last did

vars == <<m, loaded, pih, command, nested>>

\* Code addresses: where the kernel starts, the entries of the shell and of user programs and
\* the points behind their system calls.
KERNEL_ENTRY == 1000
SHELL_AREA == 1100
SHELL_CALL == 1101
SHELL_EXEC == 1102
USER_AREA == 1200
USER_CALL == 1201
USER_EXEC == 1202
PANIC == 1300
REG == 7             \* what is saved of a register nobody looks at
NoFile == "none"
Typing == [kind |-> "none", name |-> NoFile, words |-> <<>>]

InShell == m.pc \in {SHELL_AREA, SHELL_CALL, SHELL_EXEC}
InUser == m.pc \in {USER_AREA, USER_CALL, USER_EXEC}
----------------------------------------------------------------------------
Push(s, w) == [s EXCEPT !.sp = @ - 1, !.mem[s.sp - 1] = w]
Pop(s, n) == [s EXCEPT !.sp = @ + n]
Top(s, n) == s.mem[s.sp + n]
Ret(s) == [Pop(s, 1) EXCEPT !.pc = Top(s, 0)]

\* The C wrapper reaches RST 20h with the return point pushed; hl is the first argument.
Rst20(s, here) == Push(s, here)

\* SYSCALL_DISPATCH: to the kernel's stack, registers saved (AF, BC, DE, HL, IX, IY).
SYSCALL_DISPATCH(s, hl) ==
  LET k == [s EXCEPT !.SAVED_SP = s.sp, !.sp = s.KERNEL_SP]
  IN  [Push(Push(Push(Push(Push(Push(k, REG), REG), REG), hl), REG), REG) EXCEPT !.TMP_REG1 = hl]
\* A number above SYSCALL_COUNT: error 2, straight back to the caller's stack.
INVALID_SYSCALL(s, hl) ==
  LET k == [s EXCEPT !.SAVED_SP = s.sp, !.sp = s.KERNEL_SP]
  IN  Ret([Pop(Push(Push(k, hl), REG), 2) EXCEPT !.HL = 2, !.sp = s.sp])

\* Back to user space, with the registers popped before or not.
SYSCALL_END_SKIP(s) == Ret([s EXCEPT !.KERNEL_SP = s.sp, !.sp = s.SAVED_SP])
SYSCALL_END(s) == SYSCALL_END_SKIP([Pop(s, 6) EXCEPT !.HL = s.SYSCALL_RET])
SYSCALL_END_NO_RET(s) == SYSCALL_END_SKIP([Pop(s, 6) EXCEPT !.HL = Top(s, 2)])

\* Mutant: the caller's stack is returned to.
SYS_EXIT_Caller(s) == SYSCALL_END_NO_RET([s EXCEPT !.SYSCALL_RET = s.TMP_REG1])

SYS_EXIT(s) == SYSCALL_END_NO_RET([s EXCEPT !.SAVED_SP = s.SHELL_SP, !.SYSCALL_RET = s.TMP_REG1])
\* The calls of a C function: SYS_WRITE, SYS_READ and SYS_SEEK push three arguments for it, SYS_OPEN
\* two, SYS_CLOSE (like SYS_RAND, SYS_LIST, SYS_FILESIZE and SYS_REMOVE) none.
SYS_WRITE(s, result) ==
  LET called == Push(Push(Push(s, REG), REG), s.TMP_REG1)
  IN  SYSCALL_END(Pop([called EXCEPT !.SYSCALL_RET = result], 3))
SYS_OPEN(s, result) ==
  LET called == Push(Push(s, REG), s.TMP_REG1)
  IN  SYSCALL_END([Pop(called, 2) EXCEPT !.SYSCALL_RET = result])
SYS_CLOSE(s, result) == SYSCALL_END([s EXCEPT !.SYSCALL_RET = result])
\* SYS_GETS, SYS_PUTS, SYS_PUTH and SYS_GETINFO return nothing.
SYS_VOID(s) == SYSCALL_END_NO_RET(s)

\* Mutant: the registers saved for the caller stay on the kernel's stack.
SYS_EXECV_Dirty(s, found) ==
  LET called == Push(Push([s EXCEPT !.SHELL_SP = s.SAVED_SP], REG), s.TMP_REG1)
      back == Pop([called EXCEPT !.SYSCALL_RET = IF found THEN 0 ELSE -1], 2)
      user == [back EXCEPT !.TMP_REG1 = back.sp, !.mem[USER_STACK - 1] = USER_AREA, !.SAVED_SP = USER_STACK - 1]
  IN  IF found THEN SYSCALL_END_SKIP(user) ELSE SYSCALL_END(back)

\* The caller's stack pointer becomes the shell's before the program is known to exist.
SYS_EXECV(s, found) ==
  LET called == Push(Push([s EXCEPT !.SHELL_SP = s.SAVED_SP], REG), s.TMP_REG1)
      back == Pop([called EXCEPT !.SYSCALL_RET = IF found THEN 0 ELSE -1], 2)
      user == [back EXCEPT !.TMP_REG1 = back.sp, !.mem[USER_STACK - 1] = USER_AREA, !.SAVED_SP = USER_STACK - 1]
  IN  IF found THEN SYSCALL_END_SKIP(Pop(user, 6)) ELSE SYSCALL_END(back)
----------------------------------------------------------------------------
\* Mutant: no room for the NULL behind the pointers.
TablePos_NoNull(argc) == ARGV_SIZE - argc * 2

\* execv: the words that fit are copied one behind the other, each with its terminator, then
\* a table of pointers and a NULL is written at the end.
TablePos(argc) == ARGV_SIZE - (argc + 1) * 2
Offsets(argv) ==
  LET off[k \in 1 .. Len(argv) + 1] == IF k = 1 THEN 0 ELSE off[k - 1] + Len(argv[k - 1]) + 1 IN off
Argc(argv) ==
  Max({0} \cup {k \in 1 .. Len(argv) :
         k <= MAX_ARGS /\ Offsets(argv)[k + 1] <= ARGV_SIZE - 2 * MAX_ARGS})
PihHigh == 79        \* the high byte of the addresses in the header
BuildPih(argv) ==
  LET n == Argc(argv)  off == Offsets(argv)
      Text(c) == LET w == {k \in 1 .. n : c \in off[k] .. off[k] + Len(argv[k]) - 1}
                 IN  IF w = {} THEN 0 ELSE argv[Min(w)][c - off[Min(w)] + 1]
      Table(c) == LET k == (c - TablePos(n)) \div 2
                  IN  IF k = n THEN 0 ELSE IF (c - TablePos(n)) % 2 = 0 THEN off[k + 1] ELSE PihHigh
  IN  [argc |-> n, argv |-> [c \in 0 .. ARGV_SIZE - 1 |-> IF c >= TablePos(n) THEN Table(c) ELSE Text(c)]]
\* The words of a line that the shell passes on.
Arguments(c) == SubSeq(c.words, 1, Min({Len(c.words), MAX_ARGS}))

\* The numbers of the header are bytes.  A typed line fits the shell's buffer, which is shorter
\* than the room in front of the longest table.
Kinds == {"none", "empty", "builtin", "unknown", "run", "started"}
ShellLine == [kind : Kinds, name : Files \cup Unknown \cup {NoFile}, words : Seq(Seq(Nat \ {0}))]
ArgumentsFit(argv) == Offsets(argv)[Len(argv) + 1] <= TablePos(MAX_ARGS)
ASSUME LineAssumption ==
  /\ MAX_ARGS \in Nat /\ ARGV_SIZE \in 2 * (MAX_ARGS + 1) .. 256
  /\ \A c \in Commands : c \in ShellLine /\ ArgumentsFit(Arguments(c))
EmptyPih == [argc |-> 0, argv |-> [c \in 0 .. ARGV_SIZE - 1 |-> 0]]

Found(name) == name \in Files

\* A system call from the point here, with first argument hl and the handler's own part.  For
\* execv, argv is the vector as it is read, after the program has been loaded: the shell's lies
\* outside the user area, but a user program's own words are overwritten with its code.
Exec(here, name, argv) ==
  /\ m' = SYS_EXECV(SYSCALL_DISPATCH(Rst20(m, here), REG), Found(name))
  /\ loaded' = IF Found(name) THEN name ELSE loaded
  /\ pih' = IF Found(name) THEN BuildPih(argv) ELSE pih
CallResults(s, here) ==
  LET d == SYSCALL_DISPATCH(Rst20(s, here), REG)
  IN  {SYS_WRITE(d, 0), SYS_OPEN(d, 0), SYS_CLOSE(d, 0), SYS_VOID(d), INVALID_SYSCALL(Rst20(s, here), REG)}
Call(here) ==
  /\ m' \in CallResults(m, here)
  /\ UNCHANGED <<loaded, pih>>
----------------------------------------------------------------------------
\* The power is on: KERNEL_ENTRY has set the kernel's stack.
ExecInit ==
  /\ m = [pc |-> KERNEL_ENTRY, sp |-> KERNEL_STACK, HL |-> 0, KERNEL_SP |-> KERNEL_STACK, SAVED_SP |-> 0,
          SHELL_SP |-> 0, SYSCALL_RET |-> 0, TMP_REG1 |-> 0, mem |-> [a \in 0 .. USER_STACK |-> 0]]
  /\ loaded = NoFile /\ pih = EmptyPih /\ command = Typing /\ nested = FALSE

\* kernel_main: the shell is loaded and jumped to, unless the disk, the descriptors or the
\* shell are missing.
Boot(ok) ==
  /\ m.pc = KERNEL_ENTRY
  /\ m' = IF ok THEN [m EXCEPT !.pc = SHELL_AREA, !.sp = SHELL_STACK, !.SHELL_SP = SHELL_STACK]
                ELSE [m EXCEPT !.pc = PANIC]
  /\ UNCHANGED <<loaded, pih, command, nested>>

\* The shell reads a line (one of its system calls).
ShellRead(c) ==
  /\ InShell /\ command = Typing
  /\ m' = SYS_WRITE(SYSCALL_DISPATCH(Rst20(m, SHELL_CALL), REG), 0)
  /\ command' = c
  /\ UNCHANGED <<loaded, pih, nested>>

\* The empty line is skipped; an unknown command is answered with a system call, a built-in
\* one (uname, ls, cat, clear, help) makes any number of them.
ShellBuiltin ==
  /\ InShell /\ command.kind \in {"empty", "builtin", "unknown"}
  /\ IF command.kind = "empty" THEN UNCHANGED <<m, loaded, pih>> ELSE Call(SHELL_CALL)
  /\ command' = Typing \/ (command.kind = "builtin" /\ UNCHANGED command)
  /\ UNCHANGED nested

\* ./name: the words, at most MAX_ARGS of them, are the argument vector.
ShellExec ==
  /\ InShell /\ command.kind = "run"
  /\ Exec(SHELL_EXEC, command.name, Arguments(command))
  /\ command' = [command EXCEPT !.kind = "started"]
  /\ nested' = FALSE

\* execv returns in the shell: the code is -1 for a missing file, or the exit code.
ShellReturned ==
  /\ InShell /\ command.kind = "started"
  /\ command' = Typing
  /\ UNCHANGED <<m, loaded, pih, nested>>

\* A user program calls functions, makes system calls, passes control on, and exits.
UserFrame ==
  /\ InUser /\ m.sp > USER_STACK - MaxDepth
  /\ m' = Push(m, REG)
  /\ UNCHANGED <<loaded, pih, command, nested>>
UserReturn ==
  /\ InUser /\ m.sp < USER_STACK
  /\ m' = Pop(m, 1)
  /\ UNCHANGED <<loaded, pih, command, nested>>
UserCall == InUser /\ Call(USER_CALL) /\ UNCHANGED <<command, nested>>
\* seen: what the new program's bytes have made of the argument vector
UserExec(name, seen) ==
  /\ InUser /\ Exec(USER_EXEC, name, seen)
  /\ nested' = TRUE /\ UNCHANGED command
UserExit(code) ==
  /\ InUser
  /\ m' = SYS_EXIT(SYSCALL_DISPATCH(Rst20(m, USER_CALL), code))
  /\ UNCHANGED <<loaded, pih, command, nested>>

ShellStep == (\E c \in Commands : ShellRead(c)) \/ ShellBuiltin \/ ShellExec \/ ShellReturned
UserStep == \/ UserFrame \/ UserReturn \/ UserCall
            \/ \E name \in Spawned, seen \in Vectors : UserExec(name, seen)
            \/ \E code \in Codes : UserExit(code)
ExecNext == (\E ok \in BOOLEAN : Boot(ok)) \/ ShellStep \/ UserStep
ExecSpec == ExecInit /\ [][ExecNext]_vars
----------------------------------------------------------------------------
\* main's view of its arguments: the C runtime finds the table by the formula from argc in
\* 8-bit arithmetic, and a string ends at its zero.
CrtTable(argc) == (ARGV_SIZE - 2 * (argc + 1)) % 256
ArgumentsSeen ==
  LET pos == CrtTable(pih.argc)
      End(c) == Min({e \in c .. ARGV_SIZE - 1 : pih.argv[e] = 0})
      Str(c) == [k \in 1 .. End(c) - c |-> pih.argv[c + k - 1]]
  IN  [k \in 1 .. pih.argc |-> Str(pih.argv[pos + 2 * (k - 1)])]

\* Whenever the shell or a program runs, no system call has left anything on the kernel's
\* stack: valid, invalid and failed ones, exits and started programs all pop what they pushed,
\* so that no sequence of calls moves KERNEL_SP through the kernel's memory.  The shell, each
\* time it goes on, finds its own stack as it was.
StacksBalanced ==
  /\ InShell \/ InUser => m.KERNEL_SP = KERNEL_STACK
  /\ InShell => m.sp = SHELL_STACK

\* A program started by the shell that starts none itself returns to the shell: behind the
\* shell's execv and with the program's exit code, whatever it left on its stack.
ExitReturnsToShell ==
  [][\A code \in Codes : UserExit(code) /\ ~nested => m'.pc = SHELL_EXEC /\ m'.HL = code]_vars

\* SYS_EXIT "returns to shell", whatever the program has called before.
AlwaysReturnsToShell == [][\A code \in Codes : UserExit(code) => m'.pc = SHELL_EXEC]_vars

\* A program the shell starts is the file that was named and sees the words of the command
\* line, each unbroken: the strings and the pointer table never meet for a line that fits the
\* shell's buffer, and the C runtime finds the table where the kernel has put it.
ArgumentsArrive ==
  m.pc = USER_AREA /\ ~nested =>
    /\ loaded = command.name
    /\ ArgumentsSeen = Arguments(command)
=============================================================================
