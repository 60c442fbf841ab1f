---------------------------- MODULE Exec_proofs ----------------------------
(***************************************************************************)
(* Proofs about Exec, for stacks of every size and place: what each system *)
(* call leaves of the kernel's, the shell's and the program's stack.       *)
(***************************************************************************)
EXTENDS Exec, TLAPS, NaturalsInduction, WellFoundedInduction

\* The part of the assumption that the stacks' arithmetic rests on.
LEMMA Sizes ==
  /\ KERNEL_STACK \in Nat /\ SHELL_STACK \in Nat /\ USER_STACK \in Nat /\ MaxDepth \in Nat
  /\ KERNEL_STACK >= 12 /\ SHELL_STACK > KERNEL_STACK + 12 /\ USER_STACK > SHELL_STACK + MaxDepth + 4
BY StackAssumption

USE Sizes

Addr == 0 .. USER_STACK
Machine == [pc : Int, sp : Int, HL : Int, KERNEL_SP : Int, SAVED_SP : Int, SHELL_SP : Int,
            SYSCALL_RET : Int, TMP_REG1 : Int, mem : [Addr -> Int]]

-----------------------------------------------------------------------------
(* Pushing and popping                                                     *)

LEMMA PushFacts ==
  ASSUME NEW s \in Machine, NEW w \in Int, s.sp - 1 \in Addr
  PROVE  /\ Push(s, w) \in Machine
         /\ Push(s, w).sp = s.sp - 1 /\ Push(s, w).pc = s.pc
         /\ Push(s, w).KERNEL_SP = s.KERNEL_SP /\ Push(s, w).SAVED_SP = s.SAVED_SP
         /\ Push(s, w).SHELL_SP = s.SHELL_SP /\ Push(s, w).TMP_REG1 = s.TMP_REG1
         /\ Push(s, w).SYSCALL_RET = s.SYSCALL_RET /\ Push(s, w).HL = s.HL
         /\ Push(s, w).mem[s.sp - 1] = w
         /\ \A a \in Addr : a # s.sp - 1 => Push(s, w).mem[a] = s.mem[a]
<1> DEFINE f == [s.mem EXCEPT ![s.sp - 1] = w]
<1>1. Push(s, w) = [s EXCEPT !.sp = s.sp - 1, !.mem = f]
  BY DEF Push, Machine
<1>2. /\ f \in [Addr -> Int] /\ f[s.sp - 1] = w
      /\ \A a \in Addr : a # s.sp - 1 => f[a] = s.mem[a]
  BY DEF Machine
<1> HIDE DEF f
<1>3. s.sp - 1 \in Int
  BY DEF Machine
<1> QED BY <1>1, <1>2, <1>3 DEF Machine

LEMMA PopFacts ==
  ASSUME NEW s \in Machine, NEW n \in Int
  PROVE  /\ Pop(s, n) \in Machine
         /\ Pop(s, n).sp = s.sp + n /\ Pop(s, n).pc = s.pc
         /\ Pop(s, n).KERNEL_SP = s.KERNEL_SP /\ Pop(s, n).SAVED_SP = s.SAVED_SP
         /\ Pop(s, n).SHELL_SP = s.SHELL_SP /\ Pop(s, n).TMP_REG1 = s.TMP_REG1
         /\ Pop(s, n).SYSCALL_RET = s.SYSCALL_RET /\ Pop(s, n).HL = s.HL
         /\ Pop(s, n).mem = s.mem
  BY DEF Pop, Machine

\* Setting the stack pointer and one other register.
LEMMA SetSp ==
  ASSUME NEW s \in Machine, NEW n \in Int
  PROVE  LET t == [s EXCEPT !.sp = n]
         IN  /\ t \in Machine /\ t.sp = n /\ t.KERNEL_SP = s.KERNEL_SP /\ t.SHELL_SP = s.SHELL_SP
             /\ t.SAVED_SP = s.SAVED_SP /\ t.mem = s.mem
  BY DEF Machine

LEMMA SetSaved ==
  ASSUME NEW s \in Machine, NEW n \in Int
  PROVE  LET t == [s EXCEPT !.SAVED_SP = n]
         IN  /\ t \in Machine /\ t.sp = s.sp /\ t.KERNEL_SP = s.KERNEL_SP /\ t.SHELL_SP = s.SHELL_SP
             /\ t.SAVED_SP = n /\ t.mem = s.mem
  BY DEF Machine

LEMMA SetHL ==
  ASSUME NEW s \in Machine, NEW n \in Int
  PROVE  LET t == [s EXCEPT !.HL = n]
         IN  /\ t \in Machine /\ t.sp = s.sp /\ t.KERNEL_SP = s.KERNEL_SP /\ t.SHELL_SP = s.SHELL_SP
             /\ t.SAVED_SP = s.SAVED_SP /\ t.mem = s.mem /\ t.HL = n
  BY DEF Machine

\* What the kernel does on its own stack: it lies below all addresses here.
Above(s, t) == \A a \in Addr : a >= KERNEL_STACK => t.mem[a] = s.mem[a]

\* SYSCALL_DISPATCH saves the caller's stack pointer and six registers.
LEMMA DispatchFacts ==
  ASSUME NEW s \in Machine, s.KERNEL_SP = KERNEL_STACK, NEW hl \in Int,
         NEW d, d = SYSCALL_DISPATCH(s, hl)
  PROVE  /\ d \in Machine /\ d.sp = KERNEL_STACK - 6 /\ d.SAVED_SP = s.sp
         /\ d.SHELL_SP = s.SHELL_SP /\ d.TMP_REG1 = hl
         /\ d.mem[KERNEL_STACK - 4] = hl /\ Above(s, d)
<1> DEFINE k  == [s EXCEPT !.SAVED_SP = s.sp, !.sp = s.KERNEL_SP]
           k1 == Push(k, REG)
           k2 == Push(k1, REG)
           k3 == Push(k2, REG)
           k4 == Push(k3, hl)
           k5 == Push(k4, REG)
           k6 == Push(k5, REG)
<1>0. REG \in Int /\ \A j \in 1 .. 6 : KERNEL_STACK - j \in Addr
  BY DEF REG, Addr
<1>1. /\ k \in Machine /\ k.sp = KERNEL_STACK /\ k.SAVED_SP = s.sp /\ k.SHELL_SP = s.SHELL_SP
      /\ k.mem = s.mem
  BY DEF Machine
<1>2. d = [k6 EXCEPT !.TMP_REG1 = hl]
  BY DEF SYSCALL_DISPATCH
<1> HIDE DEF k
<1>3. /\ k1 \in Machine /\ k1.sp = KERNEL_STACK - 1 /\ k1.SAVED_SP = s.sp
      /\ k1.SHELL_SP = s.SHELL_SP /\ Above(s, k1)
  BY <1>0, <1>1, PushFacts DEF Above, Addr
<1> HIDE DEF k1
<1>4. /\ k2 \in Machine /\ k2.sp = KERNEL_STACK - 2 /\ k2.SAVED_SP = s.sp
      /\ k2.SHELL_SP = s.SHELL_SP /\ Above(s, k2)
  BY <1>0, <1>3, PushFacts DEF Above, Addr
<1> HIDE DEF k2
<1>5. /\ k3 \in Machine /\ k3.sp = KERNEL_STACK - 3 /\ k3.SAVED_SP = s.sp
      /\ k3.SHELL_SP = s.SHELL_SP /\ Above(s, k3)
  BY <1>0, <1>4, PushFacts DEF Above, Addr
<1> HIDE DEF k3
<1>6. /\ k4 \in Machine /\ k4.sp = KERNEL_STACK - 4 /\ k4.SAVED_SP = s.sp
      /\ k4.SHELL_SP = s.SHELL_SP /\ Above(s, k4)
      /\ k4.mem[KERNEL_STACK - 4] = hl
  BY <1>0, <1>5, PushFacts DEF Above, Addr
<1> HIDE DEF k4
<1>7. /\ k5 \in Machine /\ k5.sp = KERNEL_STACK - 5 /\ k5.SAVED_SP = s.sp
      /\ k5.SHELL_SP = s.SHELL_SP /\ Above(s, k5)
      /\ k5.mem[KERNEL_STACK - 4] = hl
  BY <1>0, <1>6, PushFacts DEF Above, Addr
<1> HIDE DEF k5
<1>8. /\ k6 \in Machine /\ k6.sp = KERNEL_STACK - 6 /\ k6.SAVED_SP = s.sp
      /\ k6.SHELL_SP = s.SHELL_SP /\ Above(s, k6)
      /\ k6.mem[KERNEL_STACK - 4] = hl
  <2>1. k5.sp - 1 = KERNEL_STACK - 6 /\ k5.sp - 1 \in Addr /\ KERNEL_STACK - 4 \in Addr
    BY <1>0, <1>7
  <2>2. /\ k6 \in Machine /\ k6.sp = k5.sp - 1 /\ k6.SAVED_SP = s.sp /\ k6.SHELL_SP = s.SHELL_SP
        /\ \A a \in Addr : a # k5.sp - 1 => k6.mem[a] = k5.mem[a]
    BY <1>0, <1>7, <2>1, PushFacts
  <2> QED BY <1>7, <2>1, <2>2 DEF Above, Addr
<1> HIDE DEF k6
<1>9. /\ d \in Machine /\ d.sp = KERNEL_STACK - 6 /\ d.SAVED_SP = s.sp
      /\ d.SHELL_SP = s.SHELL_SP /\ d.TMP_REG1 = hl /\ d.mem = k6.mem
  BY <1>2, <1>8 DEF Machine
<1> QED BY <1>8, <1>9 DEF Above

LEMMA SkipFacts ==
  ASSUME NEW s \in Machine, s.SAVED_SP \in Addr, NEW r, r = SYSCALL_END_SKIP(s)
  PROVE  /\ r \in Machine /\ r.KERNEL_SP = s.sp /\ r.sp = s.SAVED_SP + 1
         /\ r.pc = s.mem[s.SAVED_SP] /\ r.SHELL_SP = s.SHELL_SP /\ r.HL = s.HL
         /\ r.mem = s.mem
<1> DEFINE t == [s EXCEPT !.KERNEL_SP = s.sp, !.sp = s.SAVED_SP]
<1>1. /\ t \in Machine /\ t.sp = s.SAVED_SP /\ t.mem = s.mem /\ t.KERNEL_SP = s.sp
      /\ t.SHELL_SP = s.SHELL_SP /\ t.HL = s.HL
  BY DEF Machine
<1>2. r = [Pop(t, 1) EXCEPT !.pc = t.mem[t.sp + 0]]
  BY DEF SYSCALL_END_SKIP, Ret, Top
<1> HIDE DEF t
<1>3. t.sp + 0 = s.SAVED_SP
  BY <1>1 DEF Addr
<1>4. /\ Pop(t, 1) \in Machine /\ Pop(t, 1).sp = s.SAVED_SP + 1 /\ Pop(t, 1).mem = s.mem
      /\ Pop(t, 1).KERNEL_SP = s.sp /\ Pop(t, 1).SHELL_SP = s.SHELL_SP /\ Pop(t, 1).HL = s.HL
  BY <1>1, PopFacts
<1>5. s.mem[s.SAVED_SP] \in Int
  BY DEF Machine
<1> QED BY <1>1, <1>2, <1>3, <1>4, <1>5 DEF Machine

-----------------------------------------------------------------------------
(* The system calls, from the caller's point of view                       *)

\* A caller whose stack lies above the kernel's, with nothing left on the kernel's.
Ready(s) == s \in Machine /\ s.KERNEL_SP = KERNEL_STACK /\ s.sp \in KERNEL_STACK + 1 .. USER_STACK

\* Above the kernel's stack a call from the point here writes the return point and nothing else.
Kept(s, here, t) ==
  /\ t.mem[s.sp - 1] = here
  /\ \A a \in Addr : a >= KERNEL_STACK /\ a # s.sp - 1 => t.mem[a] = s.mem[a]

\* The state in which a call's handler starts.
Entered(s, here, hl, d) ==
  /\ d \in Machine /\ d.sp = KERNEL_STACK - 6 /\ d.SAVED_SP = s.sp - 1 /\ d.SHELL_SP = s.SHELL_SP
  /\ d.TMP_REG1 = hl /\ d.mem[KERNEL_STACK - 4] = hl /\ Kept(s, here, d)

LEMMA EntryFacts ==
  ASSUME NEW s, Ready(s), NEW here \in Int, NEW hl \in Int
  PROVE  Entered(s, here, hl, SYSCALL_DISPATCH(Rst20(s, here), hl))
<1> DEFINE r == Rst20(s, here)
           d == SYSCALL_DISPATCH(r, hl)
<1>1. s \in Machine /\ s.sp - 1 \in Addr /\ s.sp - 1 >= KERNEL_STACK
  BY DEF Ready, Addr
<1>2. /\ r \in Machine /\ r.sp = s.sp - 1 /\ r.KERNEL_SP = KERNEL_STACK /\ r.SHELL_SP = s.SHELL_SP
      /\ r.mem[s.sp - 1] = here
      /\ \A a \in Addr : a # s.sp - 1 => r.mem[a] = s.mem[a]
  BY <1>1, PushFacts DEF Rst20, Ready
<1> HIDE DEF r
<1>3. /\ d \in Machine /\ d.sp = KERNEL_STACK - 6 /\ d.SAVED_SP = r.sp
      /\ d.SHELL_SP = r.SHELL_SP /\ d.TMP_REG1 = hl
      /\ d.mem[KERNEL_STACK - 4] = hl /\ Above(r, d)
  BY <1>2, DispatchFacts
<1> HIDE DEF d
<1>4. Kept(s, here, d)
  BY <1>1, <1>2, <1>3 DEF Kept, Above
<1>5. Entered(s, here, hl, d)
  BY <1>2, <1>3, <1>4 DEF Entered
<1> QED BY <1>5 DEF d, r

\* The caller goes on behind its call, its stack as it was.
Returned(s, here, t) ==
  /\ t \in Machine /\ t.sp = s.sp /\ t.pc = here /\ t.KERNEL_SP = KERNEL_STACK
  /\ Kept(s, here, t)

\* SYSCALL_END and SYSCALL_END_NO_RET from a state in which the six registers are on top.
LEMMA EndFacts ==
  ASSUME NEW s, Ready(s), NEW here \in Int, NEW hl \in Int, NEW d, Entered(s, here, hl, d),
         NEW e \in Machine, e.sp = d.sp, e.SAVED_SP = d.SAVED_SP, Above(d, e)
  PROVE  /\ Returned(s, here, SYSCALL_END(e)) /\ SYSCALL_END(e).SHELL_SP = e.SHELL_SP
         /\ Returned(s, here, SYSCALL_END_NO_RET(e)) /\ SYSCALL_END_NO_RET(e).SHELL_SP = e.SHELL_SP
<1>1. s.sp - 1 \in Addr /\ s.sp - 1 >= KERNEL_STACK /\ e.SAVED_SP = s.sp - 1 /\ e.sp = KERNEL_STACK - 6
  BY DEF Ready, Addr, Entered
<1>2. Kept(s, here, e)
  BY <1>1 DEF Entered, Kept, Above
<1>3. /\ Pop(e, 6) \in Machine /\ Pop(e, 6).sp = KERNEL_STACK /\ Pop(e, 6).mem = e.mem
      /\ Pop(e, 6).SAVED_SP = s.sp - 1 /\ Pop(e, 6).SHELL_SP = e.SHELL_SP
  <2>1. /\ Pop(e, 6) \in Machine /\ Pop(e, 6).sp = e.sp + 6 /\ Pop(e, 6).mem = e.mem
        /\ Pop(e, 6).SAVED_SP = e.SAVED_SP /\ Pop(e, 6).SHELL_SP = e.SHELL_SP
    BY PopFacts
  <2>2. e.sp + 6 = KERNEL_STACK
    BY <1>1
  <2> QED BY <1>1, <2>1, <2>2
<1>4. ASSUME NEW v \in Int
      PROVE  /\ Returned(s, here, SYSCALL_END_SKIP([Pop(e, 6) EXCEPT !.HL = v]))
             /\ SYSCALL_END_SKIP([Pop(e, 6) EXCEPT !.HL = v]).SHELL_SP = e.SHELL_SP
  <2> DEFINE p == [Pop(e, 6) EXCEPT !.HL = v]
             r == SYSCALL_END_SKIP(p)
  <2>1. /\ p \in Machine /\ p.sp = KERNEL_STACK /\ p.SAVED_SP = s.sp - 1 /\ p.SHELL_SP = e.SHELL_SP
        /\ p.mem = e.mem
    BY <1>3 DEF Machine
  <2> HIDE DEF p
  <2>2. /\ r \in Machine /\ r.KERNEL_SP = KERNEL_STACK /\ r.sp = (s.sp - 1) + 1
        /\ r.pc = e.mem[s.sp - 1] /\ r.SHELL_SP = e.SHELL_SP /\ r.mem = e.mem
    BY <1>1, <2>1, SkipFacts
  <2> HIDE DEF r
  <2>3. r.sp = s.sp /\ r.pc = here
    BY <1>2, <2>2 DEF Kept, Ready
  <2>4. Returned(s, here, r) /\ r.SHELL_SP = e.SHELL_SP
    BY <1>2, <2>2, <2>3 DEF Returned, Kept
  <2> QED BY <2>4 DEF r, p
<1>5. e.SYSCALL_RET \in Int /\ Top(e, 2) \in Int
  <2>1. e.sp + 2 \in Addr
    BY <1>1 DEF Addr
  <2> QED BY <2>1 DEF Top, Machine
<1> QED BY <1>4, <1>5 DEF SYSCALL_END, SYSCALL_END_NO_RET

\* The calls that push three arguments for a C function.
LEMMA WriteReturns ==
  ASSUME NEW s, Ready(s), NEW here \in Int, NEW hl \in Int, NEW v \in Int,
         NEW d, Entered(s, here, hl, d)
  PROVE  Returned(s, here, SYS_WRITE(d, v)) /\ SYS_WRITE(d, v).SHELL_SP = s.SHELL_SP
<1> DEFINE c1 == Push(d, REG)
           c2 == Push(c1, REG)
           c3 == Push(c2, d.TMP_REG1)
           r  == [c3 EXCEPT !.SYSCALL_RET = v]
           e  == Pop(r, 3)
<1>1. /\ d \in Machine /\ d.sp = KERNEL_STACK - 6 /\ d.TMP_REG1 = hl /\ d.SHELL_SP = s.SHELL_SP
      /\ REG \in Int
      /\ KERNEL_STACK - 7 \in Addr /\ KERNEL_STACK - 8 \in Addr /\ KERNEL_STACK - 9 \in Addr
  BY DEF Entered, Addr, REG
<1>2. /\ c1 \in Machine /\ c1.sp = KERNEL_STACK - 7 /\ c1.SAVED_SP = d.SAVED_SP
      /\ c1.SHELL_SP = s.SHELL_SP /\ Above(d, c1)
  BY <1>1, PushFacts DEF Above, Addr
<1>3. SYS_WRITE(d, v) = SYSCALL_END(e)
  BY DEF SYS_WRITE
<1> HIDE DEF c1
<1>4. /\ c2 \in Machine /\ c2.sp = KERNEL_STACK - 8 /\ c2.SAVED_SP = d.SAVED_SP
      /\ c2.SHELL_SP = s.SHELL_SP /\ Above(d, c2)
  BY <1>1, <1>2, PushFacts DEF Above, Addr
<1> HIDE DEF c2
<1>5. /\ c3 \in Machine /\ c3.sp = KERNEL_STACK - 9 /\ c3.SAVED_SP = d.SAVED_SP
      /\ c3.SHELL_SP = s.SHELL_SP /\ Above(d, c3)
  BY <1>1, <1>4, PushFacts DEF Above, Addr
<1> HIDE DEF c3
<1>6. /\ r \in Machine /\ r.sp = c3.sp /\ r.SAVED_SP = c3.SAVED_SP
      /\ r.SHELL_SP = c3.SHELL_SP /\ r.mem = c3.mem
  BY <1>5 DEF Machine
<1> HIDE DEF r
<1>7. /\ e \in Machine /\ e.sp = r.sp + 3 /\ e.SAVED_SP = r.SAVED_SP
      /\ e.SHELL_SP = r.SHELL_SP /\ e.mem = r.mem
  BY <1>6, PopFacts
<1> HIDE DEF e
<1>8. e.sp = d.sp
  BY <1>1, <1>5, <1>6, <1>7
<1>9. e.SAVED_SP = d.SAVED_SP /\ e.SHELL_SP = s.SHELL_SP /\ Above(d, e)
  BY <1>5, <1>6, <1>7 DEF Above
<1> QED BY <1>3, <1>7, <1>8, <1>9, EndFacts

\* The call that pushes two arguments.
LEMMA OpenReturns ==
  ASSUME NEW s, Ready(s), NEW here \in Int, NEW hl \in Int, NEW v \in Int,
         NEW d, Entered(s, here, hl, d)
  PROVE  Returned(s, here, SYS_OPEN(d, v)) /\ SYS_OPEN(d, v).SHELL_SP = s.SHELL_SP
<1> DEFINE c1 == Push(d, REG)
           c2 == Push(c1, d.TMP_REG1)
           r  == Pop(c2, 2)
           e  == [r EXCEPT !.SYSCALL_RET = v]
<1>1. /\ d \in Machine /\ d.sp = KERNEL_STACK - 6 /\ d.TMP_REG1 = hl /\ d.SHELL_SP = s.SHELL_SP
      /\ REG \in Int
      /\ KERNEL_STACK - 7 \in Addr /\ KERNEL_STACK - 8 \in Addr
  BY DEF Entered, Addr, REG
<1>2. /\ c1 \in Machine /\ c1.sp = KERNEL_STACK - 7 /\ c1.SAVED_SP = d.SAVED_SP
      /\ c1.SHELL_SP = s.SHELL_SP /\ Above(d, c1)
  BY <1>1, PushFacts, SMTT(60) DEF Above, Addr
<1>3. SYS_OPEN(d, v) = SYSCALL_END(e)
  BY DEF SYS_OPEN
<1> HIDE DEF c1
<1>4. /\ c2 \in Machine /\ c2.sp = KERNEL_STACK - 8 /\ c2.SAVED_SP = d.SAVED_SP
      /\ c2.SHELL_SP = s.SHELL_SP /\ Above(d, c2)
  BY <1>1, <1>2, PushFacts DEF Above, Addr
<1> HIDE DEF c2
<1>5. /\ r \in Machine /\ r.sp = c2.sp + 2 /\ r.SAVED_SP = c2.SAVED_SP
      /\ r.SHELL_SP = c2.SHELL_SP /\ r.mem = c2.mem
  BY <1>4, PopFacts
<1> HIDE DEF r
<1>6. /\ e \in Machine /\ e.sp = r.sp /\ e.SAVED_SP = r.SAVED_SP
      /\ e.SHELL_SP = r.SHELL_SP /\ e.mem = r.mem
  BY <1>5 DEF Machine
<1> HIDE DEF e
<1>7. e.sp = d.sp
  BY <1>1, <1>4, <1>5, <1>6
<1>8. e.SAVED_SP = d.SAVED_SP /\ e.SHELL_SP = s.SHELL_SP /\ Above(d, e)
  BY <1>4, <1>5, <1>6 DEF Above
<1> QED BY <1>3, <1>6, <1>7, <1>8, EndFacts

\* The calls that push none.
LEMMA CloseReturns ==
  ASSUME NEW s, Ready(s), NEW here \in Int, NEW hl \in Int, NEW v \in Int,
         NEW d, Entered(s, here, hl, d)
  PROVE  Returned(s, here, SYS_CLOSE(d, v)) /\ SYS_CLOSE(d, v).SHELL_SP = s.SHELL_SP
<1> DEFINE e == [d EXCEPT !.SYSCALL_RET = v]
<1>1. d \in Machine /\ d.SHELL_SP = s.SHELL_SP
  BY DEF Entered
<1>2. e \in Machine /\ e.sp = d.sp /\ e.SAVED_SP = d.SAVED_SP /\ e.SHELL_SP = s.SHELL_SP /\ e.mem = d.mem
  BY <1>1 DEF Machine
<1>3. SYS_CLOSE(d, v) = SYSCALL_END(e)
  BY DEF SYS_CLOSE
<1> HIDE DEF e
<1>4. Above(d, e)
  BY <1>2 DEF Above
<1> QED BY <1>2, <1>3, <1>4, EndFacts

\* The calls that return nothing.
LEMMA VoidCallReturns ==
  ASSUME NEW s, Ready(s), NEW here \in Int, NEW hl \in Int, NEW d, Entered(s, here, hl, d)
  PROVE  Returned(s, here, SYS_VOID(d)) /\ SYS_VOID(d).SHELL_SP = s.SHELL_SP
<1>1. d \in Machine /\ Above(d, d) /\ d.SHELL_SP = s.SHELL_SP
  BY DEF Above, Entered
<1> QED BY <1>1, EndFacts DEF SYS_VOID

\* A number the kernel does not know: it uses two words of the kernel's stack.
LEMMA InvalidCallReturns ==
  ASSUME NEW s, Ready(s), NEW here \in Int, NEW hl \in Int
  PROVE  LET t == INVALID_SYSCALL(Rst20(s, here), hl)
         IN  Returned(s, here, t) /\ t.SHELL_SP = s.SHELL_SP
<1> DEFINE q  == Rst20(s, here)
           k0 == [q EXCEPT !.SAVED_SP = q.sp]
           k  == [k0 EXCEPT !.sp = q.KERNEL_SP]
           k1 == Push(k, hl)
           k2 == Push(k1, REG)
           p  == Pop(k2, 2)
           e0 == [p EXCEPT !.HL = 2]
           e  == [e0 EXCEPT !.sp = q.sp]
           t  == [Pop(e, 1) EXCEPT !.pc = e.mem[e.sp + 0]]
<1>1. /\ s \in Machine /\ s.sp - 1 \in Addr /\ s.sp - 1 >= KERNEL_STACK /\ REG \in Int
      /\ KERNEL_STACK - 1 \in Addr /\ KERNEL_STACK - 2 \in Addr
  BY DEF Ready, Addr, REG
<1>2. /\ q \in Machine /\ q.sp = s.sp - 1 /\ q.KERNEL_SP = KERNEL_STACK /\ q.SHELL_SP = s.SHELL_SP
      /\ q.mem[s.sp - 1] = here
      /\ \A a \in Addr : a # s.sp - 1 => q.mem[a] = s.mem[a]
  BY <1>1, PushFacts DEF Rst20, Ready
<1>3. INVALID_SYSCALL(Rst20(s, here), hl) = t
  BY DEF INVALID_SYSCALL, Ret, Top
<1> HIDE DEF q
<1>4. /\ k \in Machine /\ k.sp = KERNEL_STACK /\ k.KERNEL_SP = KERNEL_STACK /\ k.SHELL_SP = s.SHELL_SP
      /\ k.mem = q.mem
  <2>1. q.sp \in Int
    BY <1>2 DEF Machine
  <2>2. /\ k0 \in Machine /\ k0.KERNEL_SP = KERNEL_STACK /\ k0.SHELL_SP = s.SHELL_SP /\ k0.mem = q.mem
    BY <1>2, <2>1, SetSaved
  <2> HIDE DEF k0
  <2> QED BY <1>2, <2>2, SetSp
<1> HIDE DEF k
<1>5. /\ k1 \in Machine /\ k1.sp = KERNEL_STACK - 1 /\ k1.KERNEL_SP = KERNEL_STACK
      /\ k1.SHELL_SP = s.SHELL_SP /\ Above(q, k1)
  <2>1. k \in Machine /\ k.sp - 1 \in Addr /\ k.sp - 1 < KERNEL_STACK
    BY <1>1, <1>4
  <2>2. /\ k1 \in Machine /\ k1.sp = k.sp - 1 /\ k1.KERNEL_SP = k.KERNEL_SP /\ k1.SHELL_SP = k.SHELL_SP
        /\ \A a \in Addr : a # k.sp - 1 => k1.mem[a] = k.mem[a]
    BY <2>1, PushFacts
  <2>3. Above(q, k1)
    BY <1>4, <2>1, <2>2 DEF Above, Addr
  <2> QED BY <1>4, <2>2, <2>3
<1> HIDE DEF k1
<1>6. /\ k2 \in Machine /\ k2.sp = KERNEL_STACK - 2 /\ k2.KERNEL_SP = KERNEL_STACK
      /\ k2.SHELL_SP = s.SHELL_SP /\ Above(q, k2)
  BY <1>1, <1>5, PushFacts DEF Above, Addr
<1> HIDE DEF k2
<1>7. /\ p \in Machine /\ p.KERNEL_SP = KERNEL_STACK /\ p.SHELL_SP = s.SHELL_SP /\ p.mem = k2.mem
  BY <1>6, PopFacts
<1> HIDE DEF p
<1>8. /\ e \in Machine /\ e.KERNEL_SP = KERNEL_STACK /\ e.SHELL_SP = s.SHELL_SP /\ e.mem = k2.mem
      /\ e.sp = s.sp - 1
  <2>1. q.sp \in Int
    BY <1>2 DEF Machine
  <2>2. /\ e0 \in Machine /\ e0.KERNEL_SP = p.KERNEL_SP /\ e0.SHELL_SP = p.SHELL_SP /\ e0.mem = p.mem
    BY <1>7, SetHL
  <2> HIDE DEF e0
  <2>3. /\ e \in Machine /\ e.KERNEL_SP = e0.KERNEL_SP /\ e.SHELL_SP = e0.SHELL_SP /\ e.mem = e0.mem
        /\ e.sp = q.sp
    BY <2>1, <2>2, SetSp
  <2> QED BY <1>2, <1>7, <2>2, <2>3
<1> HIDE DEF e
<1>9. Kept(s, here, e)
  BY <1>1, <1>2, <1>6, <1>8 DEF Kept, Above
<1>10. /\ Pop(e, 1) \in Machine /\ Pop(e, 1).sp = e.sp + 1 /\ Pop(e, 1).KERNEL_SP = KERNEL_STACK
       /\ Pop(e, 1).SHELL_SP = s.SHELL_SP /\ Pop(e, 1).mem = e.mem
  BY <1>8, PopFacts
<1>11. e.sp + 1 = s.sp /\ e.sp + 0 = s.sp - 1
  BY <1>8 DEF Ready
<1>12. e.mem[e.sp + 0] = here
  BY <1>9, <1>11 DEF Kept
<1>13. /\ t \in Machine /\ t.sp = s.sp /\ t.pc = here /\ t.KERNEL_SP = KERNEL_STACK
       /\ t.SHELL_SP = s.SHELL_SP /\ t.mem = e.mem
  BY <1>10, <1>11, <1>12 DEF Machine
<1> HIDE DEF t
<1> QED BY <1>3, <1>9, <1>13 DEF Returned, Kept

\* Every system call but execv and exit.
LEMMA CallReturns ==
  ASSUME NEW s, Ready(s), NEW here \in Int,
         NEW t \in CallResults(s, here)
  PROVE  Returned(s, here, t) /\ t.SHELL_SP = s.SHELL_SP
<1>1. REG \in Int
  BY DEF REG
<1>2. Entered(s, here, REG, SYSCALL_DISPATCH(Rst20(s, here), REG))
  BY <1>1, EntryFacts
<1> DEFINE d == SYSCALL_DISPATCH(Rst20(s, here), REG)
<1>3. t \in {SYS_WRITE(d, 0), SYS_OPEN(d, 0), SYS_CLOSE(d, 0), SYS_VOID(d), INVALID_SYSCALL(Rst20(s, here), REG)}
  BY Zenon DEF CallResults
<1> HIDE DEF d
<1>4. Entered(s, here, REG, d)
  BY <1>2 DEF d
<1> QED BY <1>1, <1>3, <1>4, WriteReturns, OpenReturns, CloseReturns, VoidCallReturns, InvalidCallReturns

\* What execv has done when load_program is back: the caller's stack pointer is the shell's.
Back(d, v) ==
  Pop([Push(Push([d EXCEPT !.SHELL_SP = d.SAVED_SP], REG), d.TMP_REG1)
         EXCEPT !.SYSCALL_RET = v], 2)

LEMMA BackFacts ==
  ASSUME NEW s, Ready(s), NEW here \in Int, NEW hl \in Int, NEW v \in Int,
         NEW d, Entered(s, here, hl, d)
  PROVE  /\ Back(d, v) \in Machine /\ Back(d, v).sp = d.sp /\ Above(d, Back(d, v))
         /\ Back(d, v).SAVED_SP = d.SAVED_SP /\ Back(d, v).SHELL_SP = s.sp - 1
<1> DEFINE a0 == [d EXCEPT !.SHELL_SP = d.SAVED_SP]
           c1 == Push(a0, REG)
           c2 == Push(c1, d.TMP_REG1)
           r  == [c2 EXCEPT !.SYSCALL_RET = v]
           e  == Pop(r, 2)
<1>1. /\ d \in Machine /\ d.sp = KERNEL_STACK - 6 /\ d.TMP_REG1 = hl /\ d.SAVED_SP = s.sp - 1
      /\ REG \in Int /\ KERNEL_STACK - 7 \in Addr /\ KERNEL_STACK - 8 \in Addr
  BY DEF Entered, Addr, REG
<1>2. Back(d, v) = e
  BY DEF Back
<1>4. /\ a0 \in Machine /\ a0.sp = d.sp /\ a0.SAVED_SP = d.SAVED_SP /\ a0.SHELL_SP = d.SAVED_SP
      /\ a0.mem = d.mem
  BY <1>1 DEF Machine
<1>3. a0.sp = KERNEL_STACK - 6 /\ a0.sp - 1 = KERNEL_STACK - 7 /\ Above(d, a0)
  BY <1>1, <1>4 DEF Above
<1> HIDE DEF a0
<1>5. /\ c1 \in Machine /\ c1.sp = KERNEL_STACK - 7 /\ c1.SAVED_SP = d.SAVED_SP
      /\ c1.SHELL_SP = d.SAVED_SP /\ Above(d, c1)
  BY <1>1, <1>3, <1>4, PushFacts DEF Above, Addr
<1> HIDE DEF c1
<1>6. /\ c2 \in Machine /\ c2.sp = KERNEL_STACK - 8 /\ c2.SAVED_SP = d.SAVED_SP
      /\ c2.SHELL_SP = d.SAVED_SP /\ Above(d, c2)
  BY <1>1, <1>5, PushFacts DEF Above, Addr
<1> HIDE DEF c2
<1>7. /\ r \in Machine /\ r.sp = c2.sp /\ r.SAVED_SP = c2.SAVED_SP
      /\ r.SHELL_SP = c2.SHELL_SP /\ r.mem = c2.mem
  BY <1>6 DEF Machine
<1> HIDE DEF r
<1>8. /\ e \in Machine /\ e.sp = r.sp + 2 /\ e.SAVED_SP = r.SAVED_SP
      /\ e.SHELL_SP = r.SHELL_SP /\ e.mem = r.mem
  BY <1>7, PopFacts
<1> HIDE DEF e
<1>9. e.sp = d.sp
  BY <1>1, <1>6, <1>7, <1>8
<1> QED BY <1>1, <1>2, <1>6, <1>7, <1>8, <1>9 DEF Above

\* execv of a file that is not there returns like any other call, but the caller's stack
\* pointer has become the shell's.
LEMMA ExecvFails ==
  ASSUME NEW s, Ready(s), NEW here \in Int,
         NEW t, t = SYS_EXECV(SYSCALL_DISPATCH(Rst20(s, here), REG), FALSE)
  PROVE  Returned(s, here, t) /\ t.SHELL_SP = s.sp - 1
<1> DEFINE d == SYSCALL_DISPATCH(Rst20(s, here), REG)
<1>1. REG \in Int
  BY DEF REG
<1>2. Entered(s, here, REG, d)
  BY <1>1, EntryFacts
<1>3. t = SYSCALL_END(Back(d, -1))
  BY DEF SYS_EXECV, Back
<1> HIDE DEF d
<1>4. /\ Back(d, -1) \in Machine /\ Back(d, -1).sp = d.sp /\ Above(d, Back(d, -1))
      /\ Back(d, -1).SAVED_SP = d.SAVED_SP /\ Back(d, -1).SHELL_SP = s.sp - 1
  BY <1>1, <1>2, BackFacts
<1> QED BY <1>1, <1>2, <1>3, <1>4, EndFacts

\* A program runs, on an empty stack of its own; the caller's return point is kept unless the
\* caller's stack was the empty user stack.
Started(s, here, t) ==
  /\ t \in Machine /\ t.sp = USER_STACK /\ t.pc = USER_AREA /\ t.KERNEL_SP = KERNEL_STACK
  /\ t.SHELL_SP = s.sp - 1 /\ t.mem[USER_STACK - 1] = USER_AREA
  /\ s.sp # USER_STACK => t.mem[s.sp - 1] = here
  /\ \A a \in Addr : a >= KERNEL_STACK /\ a # s.sp - 1 /\ a # USER_STACK - 1 => t.mem[a] = s.mem[a]

LEMMA ExecvStarts ==
  ASSUME NEW s, Ready(s), NEW here \in Int,
         NEW t, t = SYS_EXECV(SYSCALL_DISPATCH(Rst20(s, here), REG), TRUE)
  PROVE  Started(s, here, t)
<1> DEFINE d == SYSCALL_DISPATCH(Rst20(s, here), REG)
           b == Back(d, 0)
           f == [b.mem EXCEPT ![USER_STACK - 1] = USER_AREA]
           u == [b EXCEPT !.TMP_REG1 = b.sp, !.mem = f, !.SAVED_SP = USER_STACK - 1]
           w == Pop(u, 6)
<1>1. /\ REG \in Int /\ USER_AREA \in Int /\ USER_STACK - 1 \in Addr /\ USER_STACK - 1 >= KERNEL_STACK
      /\ s.sp - 1 \in Addr /\ s.sp - 1 >= KERNEL_STACK
      /\ s.sp \in Int
  BY DEF REG, USER_AREA, Addr, Ready
<1>2. Entered(s, here, REG, d)
  BY <1>1, EntryFacts
<1>3. t = SYSCALL_END_SKIP(Pop([b EXCEPT !.TMP_REG1 = b.sp, !.mem[USER_STACK - 1] = USER_AREA,
                                          !.SAVED_SP = USER_STACK - 1], 6))
  BY DEF SYS_EXECV, Back
<1> HIDE DEF d
<1>4. b \in Machine /\ b.sp = d.sp /\ Above(d, b) /\ b.SHELL_SP = s.sp - 1
  BY <1>1, <1>2, BackFacts
<1> HIDE DEF b
<1>5. t = SYSCALL_END_SKIP(w)
  BY <1>3, <1>4 DEF Machine
<1>6. /\ f \in [Addr -> Int] /\ f[USER_STACK - 1] = USER_AREA
      /\ \A a \in Addr : a # USER_STACK - 1 => f[a] = b.mem[a]
  BY <1>1, <1>4 DEF Machine
<1> HIDE DEF f
<1>7. /\ u \in Machine /\ u.sp = b.sp /\ u.mem = f /\ u.SAVED_SP = USER_STACK - 1
      /\ u.SHELL_SP = b.SHELL_SP
  <2>1. b \in Machine /\ b.sp \in Int /\ f \in [Addr -> Int] /\ USER_STACK - 1 \in Int
    BY <1>4, <1>6 DEF Machine
  <2> QED BY <2>1 DEF Machine
<1> HIDE DEF u
<1>8. /\ w \in Machine /\ w.sp = u.sp + 6 /\ w.mem = f /\ w.SAVED_SP = USER_STACK - 1
      /\ w.SHELL_SP = b.SHELL_SP
  BY <1>7, PopFacts
<1> HIDE DEF w
<1>9. w.sp = KERNEL_STACK
  BY <1>2, <1>4, <1>7, <1>8 DEF Entered
<1>10. /\ t \in Machine /\ t.KERNEL_SP = KERNEL_STACK /\ t.sp = (USER_STACK - 1) + 1
       /\ t.pc = f[USER_STACK - 1] /\ t.SHELL_SP = s.sp - 1 /\ t.mem = f
  BY <1>1, <1>4, <1>5, <1>8, <1>9, SkipFacts
<1>11. s.sp # USER_STACK => f[s.sp - 1] = here
  BY <1>1, <1>2, <1>4, <1>6 DEF Entered, Kept, Above
<1>12. \A a \in Addr : a >= KERNEL_STACK /\ a # s.sp - 1 /\ a # USER_STACK - 1 => f[a] = s.mem[a]
  BY <1>2, <1>4, <1>6 DEF Entered, Kept, Above
<1>13. t.sp = USER_STACK /\ t.pc = USER_AREA
  <2>1. (USER_STACK - 1) + 1 = USER_STACK
    OBVIOUS
  <2> QED BY <1>6, <1>10, <2>1
<1> QED BY <1>6, <1>10, <1>11, <1>12, <1>13 DEF Started

\* exit returns on the stack the last execv was called on.
LEMMA ExitReturns ==
  ASSUME NEW s, Ready(s), s.SHELL_SP \in Addr, s.SHELL_SP >= KERNEL_STACK,
         NEW here \in Int, NEW code \in Int,
         NEW t, t = SYS_EXIT(SYSCALL_DISPATCH(Rst20(s, here), code))
  PROVE  /\ t \in Machine /\ t.sp = s.SHELL_SP + 1 /\ t.pc = t.mem[s.SHELL_SP] /\ t.HL = code
         /\ t.KERNEL_SP = KERNEL_STACK /\ t.SHELL_SP = s.SHELL_SP /\ Kept(s, here, t)
<1> DEFINE d == SYSCALL_DISPATCH(Rst20(s, here), code)
           e == [d EXCEPT !.SAVED_SP = d.SHELL_SP, !.SYSCALL_RET = d.TMP_REG1]
           p == Pop(e, 6)
           q == [p EXCEPT !.HL = e.mem[e.sp + 2]]
<1>1. Entered(s, here, code, d)
  BY EntryFacts
<1>2. t = SYSCALL_END_SKIP(q)
  BY DEF SYS_EXIT, SYSCALL_END_NO_RET, Top
<1> HIDE DEF d
<1>3. /\ d \in Machine /\ d.sp = KERNEL_STACK - 6 /\ d.SHELL_SP = s.SHELL_SP
      /\ d.mem[KERNEL_STACK - 4] = code /\ Kept(s, here, d)
  BY <1>1 DEF Entered
<1>4. /\ e \in Machine /\ e.sp = d.sp /\ e.SAVED_SP = d.SHELL_SP /\ e.SHELL_SP = d.SHELL_SP
      /\ e.mem = d.mem
  BY <1>3 DEF Machine
<1> HIDE DEF e
<1>5. /\ p \in Machine /\ p.sp = e.sp + 6 /\ p.SAVED_SP = e.SAVED_SP /\ p.SHELL_SP = e.SHELL_SP
      /\ p.mem = e.mem
  <2>1. e \in Machine
    BY <1>4
  <2> QED BY <2>1, PopFacts
<1> HIDE DEF p
<1>6. e.sp + 2 = KERNEL_STACK - 4 /\ e.sp + 6 = KERNEL_STACK
  BY <1>3, <1>4
<1>7. e.mem[e.sp + 2] = code
  BY <1>3, <1>4, <1>6
<1>8. /\ q \in Machine /\ q.sp = p.sp /\ q.SAVED_SP = p.SAVED_SP /\ q.SHELL_SP = p.SHELL_SP
      /\ q.mem = p.mem /\ q.HL = code
  BY <1>5, <1>7 DEF Machine
<1> HIDE DEF q
<1>9. /\ q \in Machine /\ q.sp = KERNEL_STACK /\ q.SAVED_SP = s.SHELL_SP /\ q.SHELL_SP = s.SHELL_SP
      /\ q.mem = d.mem /\ q.HL = code
  BY <1>3, <1>4, <1>5, <1>6, <1>8
<1>10. /\ t \in Machine /\ t.KERNEL_SP = KERNEL_STACK /\ t.sp = s.SHELL_SP + 1
       /\ t.pc = d.mem[s.SHELL_SP] /\ t.SHELL_SP = s.SHELL_SP /\ t.HL = code /\ t.mem = d.mem
  BY <1>2, <1>9, SkipFacts
<1> QED BY <1>3, <1>10 DEF Kept

-----------------------------------------------------------------------------
(* The inductive invariant                                                 *)

ShellPoints == {SHELL_AREA, SHELL_CALL, SHELL_EXEC}
UserPoints == {USER_AREA, USER_CALL, USER_EXEC}
UserArea == USER_STACK - MaxDepth - 1 .. USER_STACK - 1

\* The words programs leave on the user stack are return points of user programs and registers,
\* never an address of the shell or of the kernel.
UserWords(x) == \A a \in UserArea : x.mem[a] \in {0, REG} \cup UserPoints

\* While a program runs, the stack exit returns on: the shell's, with the point behind the
\* shell's execv on it, until the program calls execv itself; the user stack from then on.
ExitStack(x, n) ==
  /\ n => x.SHELL_SP \in UserArea
  /\ ~n => x.SHELL_SP = SHELL_STACK - 1 /\ x.mem[SHELL_STACK - 1] = SHELL_EXEC

StackInvOf(x, n) ==
  /\ x \in Machine /\ UserWords(x)
  /\ x.pc \in {KERNEL_ENTRY} \cup ShellPoints \cup UserPoints => x.KERNEL_SP = KERNEL_STACK
  /\ x.pc \in ShellPoints => x.sp = SHELL_STACK
  /\ x.pc \in UserPoints => x.sp - 1 \in UserArea /\ ExitStack(x, n)

StackInv == nested \in BOOLEAN /\ StackInvOf(m, nested)

LEMMA Points ==
  /\ ShellPoints \subseteq Int /\ UserPoints \subseteq Int /\ REG \in Int /\ KERNEL_ENTRY \in Int
  /\ ShellPoints \cap UserPoints = {} /\ KERNEL_ENTRY \notin ShellPoints \cup UserPoints
  /\ 0 \notin ShellPoints \cup {KERNEL_ENTRY} /\ REG \notin ShellPoints \cup {KERNEL_ENTRY}
  /\ PANIC \notin ShellPoints \cup UserPoints \cup {KERNEL_ENTRY} /\ PANIC \in Int
BY DEF ShellPoints, UserPoints, REG, KERNEL_ENTRY, SHELL_AREA, SHELL_CALL, SHELL_EXEC,
       USER_AREA, USER_CALL, USER_EXEC, PANIC

LEMMA Ranges ==
  /\ UserArea \subseteq Addr /\ \A a \in UserArea : a >= KERNEL_STACK /\ a # SHELL_STACK - 1
  /\ SHELL_STACK - 1 \in Addr /\ SHELL_STACK - 1 >= KERNEL_STACK /\ USER_STACK - 1 \in UserArea
  /\ SHELL_STACK # USER_STACK
BY DEF UserArea, Addr

LEMMA ShellReady ==
  ASSUME NEW s, NEW n, StackInvOf(s, n), s.pc \in ShellPoints
  PROVE  Ready(s) /\ s.sp = SHELL_STACK
BY DEF StackInvOf, Ready

LEMMA UserReady ==
  ASSUME NEW s, NEW n, StackInvOf(s, n), s.pc \in UserPoints
  PROVE  Ready(s) /\ s.sp - 1 \in UserArea /\ ExitStack(s, n)
BY DEF StackInvOf, Ready, UserArea, Machine

\* A call of the shell, or an execv of the shell that finds nothing.
LEMMA ShellCallKeeps ==
  ASSUME NEW s, NEW n, StackInvOf(s, n), s.pc \in ShellPoints,
         NEW here \in ShellPoints, NEW t, Returned(s, here, t), NEW n1
  PROVE  StackInvOf(t, n1)
<1>1. s.sp - 1 = SHELL_STACK - 1 /\ t.pc \in ShellPoints /\ t.pc \notin UserPoints
  BY ShellReady, Points DEF Returned
<1>2. \A a \in UserArea : t.mem[a] = s.mem[a]
  BY <1>1, Ranges DEF Returned, Kept
<1>3. UserWords(t)
  BY <1>2 DEF StackInvOf, UserWords
<1> QED BY <1>1, <1>3, ShellReady DEF StackInvOf, Returned

\* A call of a program leaves its return point on the user stack.
LEMMA KeptWords ==
  ASSUME NEW s, NEW n, StackInvOf(s, n), s.pc \in UserPoints,
         NEW here \in UserPoints, NEW t, Kept(s, here, t)
  PROVE  UserWords(t)
<1> SUFFICES ASSUME NEW a \in UserArea PROVE t.mem[a] \in {0, REG} \cup UserPoints
  BY DEF UserWords
<1>1. CASE a = s.sp - 1
  BY <1>1 DEF Kept
<1>2. CASE a # s.sp - 1
  BY <1>2, Ranges DEF Kept, StackInvOf, UserWords
<1> QED BY <1>1, <1>2

LEMMA UserCallKeeps ==
  ASSUME NEW s, NEW n, StackInvOf(s, n), s.pc \in UserPoints,
         NEW here \in UserPoints, NEW t, Returned(s, here, t), t.SHELL_SP = s.SHELL_SP
  PROVE  StackInvOf(t, n)
<1>1. s.sp - 1 \in UserArea /\ t.pc \in UserPoints /\ t.pc \notin ShellPoints /\ t.sp = s.sp
  BY UserReady, Points DEF Returned
<1>2. UserWords(t)
  BY KeptWords DEF Returned
<1>3. t.mem[SHELL_STACK - 1] = s.mem[SHELL_STACK - 1]
  BY <1>1, Ranges DEF Returned, Kept
<1>4. ExitStack(t, n)
  BY <1>3, UserReady DEF ExitStack
<1> QED BY <1>1, <1>2, <1>4 DEF StackInvOf, Returned

LEMMA FailedExecKeeps ==
  ASSUME NEW s, NEW n, StackInvOf(s, n), s.pc \in UserPoints,
         NEW here \in UserPoints, NEW t, Returned(s, here, t), t.SHELL_SP = s.sp - 1, NEW n1, n1
  PROVE  StackInvOf(t, n1)
<1>1. s.sp - 1 \in UserArea /\ t.pc \in UserPoints /\ t.pc \notin ShellPoints /\ t.sp = s.sp
  BY UserReady, Points DEF Returned
<1>2. UserWords(t)
  BY KeptWords DEF Returned
<1>3. ExitStack(t, n1)
  BY <1>1 DEF ExitStack
<1> QED BY <1>1, <1>2, <1>3 DEF StackInvOf, Returned

\* The shell starts a program: its own return point is on the shell's stack.
LEMMA ShellStartKeeps ==
  ASSUME NEW s, NEW n, StackInvOf(s, n), s.pc \in ShellPoints,
         NEW t, Started(s, SHELL_EXEC, t), NEW n1, ~n1
  PROVE  StackInvOf(t, n1)
<1>1. s.sp = SHELL_STACK /\ t.pc \in UserPoints /\ t.pc \notin ShellPoints
  BY ShellReady, Points DEF Started, UserPoints
<1>2. UserWords(t)
  <2> SUFFICES ASSUME NEW a \in UserArea PROVE t.mem[a] \in {0, REG} \cup UserPoints
    BY DEF UserWords
  <2>1. CASE a = USER_STACK - 1
    BY <2>1 DEF Started, UserPoints
  <2>2. CASE a # USER_STACK - 1
    BY <1>1, <2>2, Ranges DEF Started, StackInvOf, UserWords
  <2> QED BY <2>1, <2>2
<1>3. ExitStack(t, n1)
  BY <1>1, Ranges DEF ExitStack, Started
<1>4. t.sp - 1 \in UserArea
  BY Ranges DEF Started
<1> QED BY <1>1, <1>2, <1>3, <1>4 DEF StackInvOf, Started

\* A program starts another one in its place.
LEMMA UserStartKeeps ==
  ASSUME NEW s, NEW n, StackInvOf(s, n), s.pc \in UserPoints,
         NEW t, Started(s, USER_EXEC, t), NEW n1, n1
  PROVE  StackInvOf(t, n1)
<1>1. s.sp - 1 \in UserArea /\ t.pc \in UserPoints /\ t.pc \notin ShellPoints /\ s.sp \in Int
  BY UserReady, Points DEF Started, UserPoints, Ready
<1>2. UserWords(t)
  <2> SUFFICES ASSUME NEW a \in UserArea PROVE t.mem[a] \in {0, REG} \cup UserPoints
    BY DEF UserWords
  <2>1. CASE a = USER_STACK - 1
    BY <2>1 DEF Started, UserPoints
  <2>2. CASE a # USER_STACK - 1 /\ a = s.sp - 1
    BY <1>1, <2>2 DEF Started, UserPoints
  <2>3. CASE a # USER_STACK - 1 /\ a # s.sp - 1
    BY <2>3, Ranges DEF Started, StackInvOf, UserWords
  <2> QED BY <2>1, <2>2, <2>3
<1>3. ExitStack(t, n1)
  BY <1>1 DEF ExitStack, Started
<1>4. t.sp - 1 \in UserArea
  BY Ranges DEF Started
<1> QED BY <1>1, <1>2, <1>3, <1>4 DEF StackInvOf, Started

\* What exit does from a state of the invariant.
LEMMA ExitOf ==
  ASSUME NEW s, NEW n \in BOOLEAN, StackInvOf(s, n), s.pc \in UserPoints, NEW code \in Int,
         NEW t, t = SYS_EXIT(SYSCALL_DISPATCH(Rst20(s, USER_CALL), code))
  PROVE  /\ t \in Machine /\ t.sp = s.SHELL_SP + 1 /\ t.pc = t.mem[s.SHELL_SP] /\ t.HL = code
         /\ t.KERNEL_SP = KERNEL_STACK /\ t.SHELL_SP = s.SHELL_SP /\ Kept(s, USER_CALL, t)
         /\ ~n => t.pc = SHELL_EXEC
<1>1. Ready(s) /\ s.sp - 1 \in UserArea /\ ExitStack(s, n) /\ USER_CALL \in Int
  BY UserReady, Points DEF UserPoints
<1>2. s.SHELL_SP \in Addr /\ s.SHELL_SP >= KERNEL_STACK
  BY <1>1, Ranges DEF ExitStack
<1>3. /\ t \in Machine /\ t.sp = s.SHELL_SP + 1 /\ t.pc = t.mem[s.SHELL_SP] /\ t.HL = code
      /\ t.KERNEL_SP = KERNEL_STACK /\ t.SHELL_SP = s.SHELL_SP /\ Kept(s, USER_CALL, t)
  BY <1>1, <1>2, ExitReturns
<1>4. ASSUME ~n PROVE t.pc = SHELL_EXEC
  BY <1>1, <1>3, <1>4, Ranges DEF ExitStack, Kept
<1> QED BY <1>3, <1>4

LEMMA ExitKeeps ==
  ASSUME NEW s, NEW n \in BOOLEAN, StackInvOf(s, n), s.pc \in UserPoints, NEW code \in Int,
         NEW t, t = SYS_EXIT(SYSCALL_DISPATCH(Rst20(s, USER_CALL), code))
  PROVE  StackInvOf(t, n)
<1>1. /\ t \in Machine /\ t.sp = s.SHELL_SP + 1 /\ t.pc = t.mem[s.SHELL_SP]
      /\ t.KERNEL_SP = KERNEL_STACK /\ t.SHELL_SP = s.SHELL_SP /\ Kept(s, USER_CALL, t)
      /\ ~n => t.pc = SHELL_EXEC
  BY ExitOf
<1>2. ExitStack(s, n) /\ USER_CALL \in UserPoints
  BY UserReady DEF UserPoints
<1>3. UserWords(t)
  BY <1>1, <1>2, KeptWords
<1>4. CASE ~n
  <2>1. t.pc \in ShellPoints /\ t.pc \notin UserPoints /\ t.sp = SHELL_STACK
    BY <1>1, <1>2, <1>4, Points DEF ExitStack, ShellPoints
  <2> QED BY <1>1, <1>3, <2>1 DEF StackInvOf
<1>5. CASE n
  <2>1. s.SHELL_SP \in UserArea
    BY <1>2, <1>5 DEF ExitStack
  <2>2. t.pc \in {0, REG} \cup UserPoints
    BY <1>1, <1>3, <2>1 DEF UserWords
  <2>3. t.pc \notin ShellPoints
    BY <2>2, Points
  <2>4. t.sp - 1 \in UserArea /\ ExitStack(t, n)
    BY <1>1, <1>5, <2>1 DEF ExitStack, UserArea
  <2> QED BY <1>1, <1>3, <2>3, <2>4 DEF StackInvOf
<1> QED BY <1>4, <1>5

-----------------------------------------------------------------------------
(* The steps                                                               *)

LEMMA InitStacks == ExecInit => StackInv
<1> SUFFICES ASSUME ExecInit PROVE StackInv
  OBVIOUS
<1>1. KERNEL_STACK \in Int /\ KERNEL_ENTRY \in Int /\ [a \in 0 .. USER_STACK |-> 0] \in [Addr -> Int]
  BY DEF KERNEL_ENTRY, Addr
<1>2. m \in Machine
  BY <1>1 DEF ExecInit, Machine
<1>3. m.pc = KERNEL_ENTRY /\ m.KERNEL_SP = KERNEL_STACK /\ m.mem = [a \in Addr |-> 0]
  BY DEF ExecInit, Addr
<1>4. UserWords(m)
  BY <1>3, Ranges DEF UserWords
<1> QED BY <1>2, <1>3, <1>4, Points DEF StackInv, StackInvOf, ExecInit

LEMMA BootKeeps == ASSUME NEW ok \in BOOLEAN, StackInv, Boot(ok) PROVE StackInv'
<1> DEFINE go == [m EXCEPT !.pc = SHELL_AREA]
           up == [go EXCEPT !.sp = SHELL_STACK]
<1>1. m \in Machine /\ UserWords(m) /\ m.KERNEL_SP = KERNEL_STACK /\ nested' \in BOOLEAN
  BY DEF StackInv, StackInvOf, Boot
<1>2. CASE m' = [m EXCEPT !.pc = SHELL_AREA, !.sp = SHELL_STACK, !.SHELL_SP = SHELL_STACK]
  <2>1. SHELL_AREA \in Int
    BY DEF SHELL_AREA
  <2>2. go \in Machine /\ go.pc = SHELL_AREA /\ go.mem = m.mem /\ go.KERNEL_SP = m.KERNEL_SP
    BY <1>1, <2>1 DEF Machine
  <2>3. m' = [up EXCEPT !.SHELL_SP = SHELL_STACK]
    BY <1>2
  <2> HIDE DEF go
  <2>6. up \in Machine /\ up.pc = SHELL_AREA /\ up.sp = SHELL_STACK /\ up.mem = m.mem
        /\ up.KERNEL_SP = m.KERNEL_SP
    BY <2>2 DEF Machine
  <2> HIDE DEF up
  <2>4. /\ m' \in Machine /\ m'.pc = SHELL_AREA /\ m'.sp = SHELL_STACK /\ m'.mem = m.mem
        /\ m'.KERNEL_SP = KERNEL_STACK
    BY <1>1, <2>3, <2>6 DEF Machine
  <2>5. UserWords(m')
    BY <1>1, <2>4 DEF UserWords
  <2>7. m'.pc \notin UserPoints
    BY <2>4, Points DEF ShellPoints
  <2> QED BY <1>1, <2>4, <2>5, <2>7 DEF StackInv, StackInvOf
<1>3. CASE m' = [m EXCEPT !.pc = PANIC]
  <2>1. m' \in Machine /\ m'.pc = PANIC /\ m'.mem = m.mem
    BY <1>1, <1>3, Points DEF Machine
  <2>2. UserWords(m')
    BY <1>1, <2>1 DEF UserWords
  <2> QED BY <1>1, <2>1, <2>2, Points DEF StackInv, StackInvOf
<1> QED BY <1>2, <1>3 DEF Boot

\* The points of the code as the actions name them.
LEMMA Where ==
  /\ InShell <=> m.pc \in ShellPoints
  /\ InUser <=> m.pc \in UserPoints
  /\ {SHELL_CALL, SHELL_EXEC} \subseteq ShellPoints /\ {USER_CALL, USER_EXEC} \subseteq UserPoints
BY DEF InShell, InUser, ShellPoints, UserPoints

LEMMA ShellCalls ==
  ASSUME StackInv, InShell, nested' \in BOOLEAN,
         m' \in CallResults(m, SHELL_CALL)
  PROVE  StackInv'
<1>1. StackInvOf(m, nested) /\ m.pc \in ShellPoints /\ SHELL_CALL \in ShellPoints
  BY Where DEF StackInv
<1>2. Ready(m) /\ SHELL_CALL \in Int
  BY <1>1, ShellReady, Points
<1>3. Returned(m, SHELL_CALL, m')
  BY <1>2, CallReturns
<1>4. StackInvOf(m', nested')
  BY <1>1, <1>3, ShellCallKeeps
<1> QED BY <1>4 DEF StackInv

LEMMA ShellExecKeeps == StackInv /\ ShellExec => StackInv'
<1> SUFFICES ASSUME StackInv, ShellExec PROVE StackInv'
  OBVIOUS
<1> DEFINE found == Found(command.name)
<1>1. StackInvOf(m, nested) /\ m.pc \in ShellPoints /\ SHELL_EXEC \in ShellPoints
  BY Where DEF StackInv, ShellExec
<1>2. Ready(m) /\ SHELL_EXEC \in Int
  BY <1>1, ShellReady, Points
<1>3. m' = SYS_EXECV(SYSCALL_DISPATCH(Rst20(m, SHELL_EXEC), REG), found) /\ nested' = FALSE
  BY DEF ShellExec, Exec
<1>4. nested' \in BOOLEAN /\ ~nested' /\ found \in BOOLEAN
  <2>1. nested' = FALSE
    BY <1>3
  <2>2. found \in BOOLEAN
    BY DEF Found
  <2> HIDE DEF found
  <2> QED BY <2>1, <2>2, Zenon
<1> HIDE DEF found
<1>5. CASE found = TRUE
  <2>1. Started(m, SHELL_EXEC, m')
    BY <1>2, <1>3, <1>5, ExecvStarts
  <2>2. StackInvOf(m', nested')
    BY <1>1, <1>4, <2>1, ShellStartKeeps
  <2> QED BY <1>4, <2>2 DEF StackInv
<1>6. CASE found = FALSE
  <2>1. Returned(m, SHELL_EXEC, m')
    BY <1>2, <1>3, <1>6, ExecvFails
  <2>2. StackInvOf(m', nested')
    BY <1>1, <2>1, ShellCallKeeps
  <2> QED BY <1>4, <2>2 DEF StackInv
<1> QED BY <1>4, <1>5, <1>6

LEMMA ShellStepKeeps == StackInv /\ ShellStep => StackInv'
<1> SUFFICES ASSUME StackInv, ShellStep PROVE StackInv'
  OBVIOUS
<1>0. nested \in BOOLEAN
  BY DEF StackInv
<1>1. ASSUME NEW c \in Commands, ShellRead(c) PROVE StackInv'
  BY <1>0, <1>1, ShellCalls DEF ShellRead, CallResults
<1>2. ASSUME ShellBuiltin PROVE StackInv'
  <2>1. CASE UNCHANGED m
    BY <1>2, <2>1 DEF StackInv, ShellBuiltin
  <2>2. CASE Call(SHELL_CALL)
    BY <1>0, <1>2, <2>2, ShellCalls DEF ShellBuiltin, Call
  <2> QED BY <1>2, <2>1, <2>2 DEF ShellBuiltin
<1>3. ASSUME ShellReturned PROVE StackInv'
  BY <1>3 DEF StackInv, ShellReturned
<1> QED BY <1>1, <1>2, <1>3, ShellExecKeeps DEF ShellStep

LEMMA UserFrameKeeps == StackInv /\ UserFrame => StackInv'
<1> SUFFICES ASSUME StackInv, UserFrame PROVE StackInv'
  OBVIOUS
<1>1. /\ StackInvOf(m, nested) /\ m.pc \in UserPoints /\ m' = Push(m, REG) /\ m.sp > USER_STACK - MaxDepth
      /\ nested' = nested /\ nested \in BOOLEAN
  BY Where DEF StackInv, UserFrame
<1>2. /\ Ready(m) /\ m \in Machine /\ m.sp - 1 \in UserArea /\ ExitStack(m, nested) /\ REG \in Int
      /\ m.sp - 1 \in Addr /\ m.sp - 1 # SHELL_STACK - 1
  BY <1>1, UserReady, Points, Ranges DEF Ready
<1>3. /\ m' \in Machine /\ m'.sp = m.sp - 1 /\ m'.pc = m.pc /\ m'.KERNEL_SP = m.KERNEL_SP
      /\ m'.SHELL_SP = m.SHELL_SP /\ m'.mem[m.sp - 1] = REG
      /\ \A a \in Addr : a # m.sp - 1 => m'.mem[a] = m.mem[a]
  BY <1>1, <1>2, PushFacts
<1>4. UserWords(m')
  BY <1>1, <1>3, Ranges DEF UserWords, StackInvOf
<1>5. ExitStack(m', nested)
  BY <1>2, <1>3, Ranges DEF ExitStack
<1>6. m'.sp - 1 \in UserArea
  BY <1>1, <1>2, <1>3 DEF UserArea, Ready
<1>7. m'.pc \notin ShellPoints /\ m'.KERNEL_SP = KERNEL_STACK
  BY <1>1, <1>2, <1>3, Points DEF Ready
<1>8. StackInvOf(m', nested)
  BY <1>3, <1>4, <1>5, <1>6, <1>7 DEF StackInvOf
<1> QED BY <1>1, <1>8 DEF StackInv

LEMMA UserReturnKeeps == StackInv /\ UserReturn => StackInv'
<1> SUFFICES ASSUME StackInv, UserReturn PROVE StackInv'
  OBVIOUS
<1>1. /\ StackInvOf(m, nested) /\ m.pc \in UserPoints /\ m' = Pop(m, 1) /\ m.sp < USER_STACK
      /\ nested' = nested /\ nested \in BOOLEAN
  BY Where DEF StackInv, UserReturn
<1>2. Ready(m) /\ m \in Machine /\ m.sp - 1 \in UserArea /\ ExitStack(m, nested)
  BY <1>1, UserReady DEF Ready
<1>3. /\ m' \in Machine /\ m'.sp = m.sp + 1 /\ m'.pc = m.pc /\ m'.KERNEL_SP = m.KERNEL_SP
      /\ m'.SHELL_SP = m.SHELL_SP /\ m'.mem = m.mem
  BY <1>1, <1>2, PopFacts
<1>4. UserWords(m') /\ ExitStack(m', nested)
  BY <1>1, <1>2, <1>3 DEF UserWords, StackInvOf, ExitStack
<1>5. m'.sp - 1 \in UserArea
  BY <1>1, <1>2, <1>3 DEF UserArea, Ready
<1>6. m'.pc \notin ShellPoints /\ m'.KERNEL_SP = KERNEL_STACK
  BY <1>1, <1>2, <1>3, Points DEF Ready
<1>7. StackInvOf(m', nested)
  BY <1>3, <1>4, <1>5, <1>6 DEF StackInvOf
<1> QED BY <1>1, <1>7 DEF StackInv

LEMMA UserCallStep == StackInv /\ UserCall => StackInv'
<1> SUFFICES ASSUME StackInv, UserCall PROVE StackInv'
  OBVIOUS
<1>1. /\ StackInvOf(m, nested) /\ m.pc \in UserPoints /\ USER_CALL \in UserPoints
      /\ nested' = nested /\ nested \in BOOLEAN
  BY Where DEF StackInv, UserCall
<1>2. Ready(m) /\ USER_CALL \in Int
  BY <1>1, UserReady, Points
<1>3. Returned(m, USER_CALL, m') /\ m'.SHELL_SP = m.SHELL_SP
  BY <1>2, CallReturns DEF UserCall, Call
<1>4. StackInvOf(m', nested)
  BY <1>1, <1>3, UserCallKeeps
<1> QED BY <1>1, <1>4 DEF StackInv

LEMMA UserExecKeeps ==
  ASSUME NEW name, NEW argv, StackInv, UserExec(name, argv) PROVE StackInv'
<1> DEFINE found == Found(name)
<1>1. StackInvOf(m, nested) /\ m.pc \in UserPoints /\ USER_EXEC \in UserPoints
  BY Where DEF StackInv, UserExec
<1>2. Ready(m) /\ USER_EXEC \in Int
  BY <1>1, UserReady, Points
<1>3. m' = SYS_EXECV(SYSCALL_DISPATCH(Rst20(m, USER_EXEC), REG), found) /\ nested' = TRUE
  BY DEF UserExec, Exec
<1>4. nested' \in BOOLEAN /\ nested' /\ found \in BOOLEAN
  <2>1. nested' = TRUE
    BY <1>3
  <2>2. found \in BOOLEAN
    BY DEF Found
  <2> HIDE DEF found
  <2> QED BY <2>1, <2>2, Zenon
<1> HIDE DEF found
<1>5. CASE found = TRUE
  <2>1. Started(m, USER_EXEC, m')
    BY <1>2, <1>3, <1>5, ExecvStarts
  <2>2. StackInvOf(m', nested')
    BY <1>1, <1>4, <2>1, UserStartKeeps
  <2> QED BY <1>4, <2>2 DEF StackInv
<1>6. CASE found = FALSE
  <2>1. Returned(m, USER_EXEC, m') /\ m'.SHELL_SP = m.sp - 1
    BY <1>2, <1>3, <1>6, ExecvFails
  <2>2. StackInvOf(m', nested')
    BY <1>1, <1>4, <2>1, FailedExecKeeps
  <2> QED BY <1>4, <2>2 DEF StackInv
<1> QED BY <1>4, <1>5, <1>6

LEMMA UserExitKeeps ==
  ASSUME NEW code \in Codes, StackInv, UserExit(code)
  PROVE  StackInv' /\ (~nested => m'.pc = SHELL_EXEC /\ m'.HL = code)
<1>1. /\ StackInvOf(m, nested) /\ m.pc \in UserPoints /\ nested \in BOOLEAN /\ nested' = nested
      /\ m' = SYS_EXIT(SYSCALL_DISPATCH(Rst20(m, USER_CALL), code))
  BY Where DEF StackInv, UserExit
<1>2. code \in Int
  BY StackAssumption
<1>3. StackInvOf(m', nested)
  BY <1>1, <1>2, ExitKeeps
<1>4. m'.HL = code /\ (~nested => m'.pc = SHELL_EXEC)
  BY <1>1, <1>2, ExitOf
<1> QED BY <1>1, <1>3, <1>4 DEF StackInv

LEMMA NextStacks == StackInv /\ [ExecNext]_vars => StackInv'
<1> SUFFICES ASSUME StackInv, [ExecNext]_vars PROVE StackInv'
  OBVIOUS
<1>1. ASSUME UNCHANGED vars PROVE StackInv'
  BY <1>1 DEF vars, StackInv
<1>2. ASSUME UserStep PROVE StackInv'
  BY <1>2, UserFrameKeeps, UserReturnKeeps, UserCallStep, UserExecKeeps, UserExitKeeps DEF UserStep
<1> QED BY <1>1, <1>2, BootKeeps, ShellStepKeeps DEF ExecNext

LEMMA StackInvariant == ExecSpec => []StackInv
  BY InitStacks, NextStacks, PTL DEF ExecSpec

\* Stacks balanced: whatever sequence of calls, failed calls, unknown calls, exits and started
\* programs, SYSCALL_DISPATCH and its ends leave KERNEL_SP at the top of the kernel's stack, and
\* the shell always goes on with its stack as it was, for stacks of every size.
THEOREM CallsBalanceStacks == ExecSpec => []StacksBalanced
<1>1. StackInv => StacksBalanced
  BY Where DEF StackInv, StackInvOf, StacksBalanced
<1> QED BY <1>1, StackInvariant, PTL

\* exit of a program that started none returns behind the shell's execv with the exit code.
THEOREM ExitReachesShell == ExecSpec => ExitReturnsToShell
<1>1. StackInv /\ [ExecNext]_vars =>
        [\A code \in Codes : UserExit(code) /\ ~nested => m'.pc = SHELL_EXEC /\ m'.HL = code]_vars
  BY UserExitKeeps
<1> QED BY <1>1, StackInvariant, PTL DEF ExecSpec, ExitReturnsToShell

-----------------------------------------------------------------------------
(* The arguments of a program                                              *)

LEMMA Least == ASSUME NEW T \in SUBSET Nat, T # {} PROVE \E x \in T : \A y \in T : x <= y
<1> DEFINE R == OpToRel(<, Nat)
<1>1. \E x \in T : \A y \in T : ~(<<y, x>> \in R)
  BY NatLessThanWellFounded, WFMin
<1>2. \A x, y \in T : <<y, x>> \in R <=> y < x
  BY DEF OpToRel
<1> HIDE DEF R
<1>3. PICK x \in T : \A y \in T : ~(<<y, x>> \in R)
  BY <1>1
<1>4. ASSUME NEW y \in T PROVE x <= y
  <2>1. ~(y < x)
    BY <1>2, <1>3
  <2> QED BY <2>1
<1> QED BY <1>4

Text == Seq(Nat \ {0})

\* The equation of Offsets, for the first n words.
Placed(g, argv, n) == [k \in 1 .. n + 1 |-> IF k = 1 THEN 0 ELSE g[k - 1] + Len(argv[k - 1]) + 1]

LEMMA PlacesExist == ASSUME NEW argv PROVE \A n \in Nat : \E g : g = Placed(g, argv, n)
<1> DEFINE T == {n \in Nat : ~\E g : g = Placed(g, argv, n)}
<1> SUFFICES ASSUME T # {} PROVE FALSE
  OBVIOUS
<1>1. PICK n \in T : \A k \in T : n <= k
  BY Least
<1>2. n \in Nat /\ ~\E g : g = Placed(g, argv, n)
  BY <1>1
<1>3. CASE n = 0
  <2> DEFINE g == [k \in 1 .. 1 |-> 0]
  <2>1. g = Placed(g, argv, n)
    BY <1>3 DEF Placed
  <2> QED BY <1>2, <2>1
<1>4. CASE n # 0
  <2>1. n - 1 \in Nat /\ (n - 1) + 1 = n
    BY <1>2, <1>4
  <2>2. PICK g : g = Placed(g, argv, n - 1)
    BY <1>1, <1>4, <2>1
  <2>3. \A k \in 1 .. n : g[k] = IF k = 1 THEN 0 ELSE g[k - 1] + Len(argv[k - 1]) + 1
    BY <2>1, <2>2 DEF Placed
  <2> DEFINE h == [k \in 1 .. n + 1 |-> IF k = n + 1 THEN g[n] + Len(argv[n]) + 1 ELSE g[k]]
  <2>4. ASSUME NEW k \in 1 .. n + 1
        PROVE  h[k] = IF k = 1 THEN 0 ELSE h[k - 1] + Len(argv[k - 1]) + 1
    <3>1. k # 1 => h[k - 1] = g[k - 1]
      BY <1>2
    <3>2. CASE k = n + 1
      <4>1. h[k] = g[n] + Len(argv[n]) + 1 /\ k - 1 = n /\ k # 1
        BY <1>2, <1>4, <3>2
      <4> QED BY <3>1, <4>1
    <3>3. CASE k # n + 1
      <4>1. h[k] = g[k] /\ k \in 1 .. n
        BY <1>2, <3>3
      <4> QED BY <2>3, <3>1, <4>1
    <3> QED BY <3>2, <3>3
  <2>5. h = [k \in 1 .. n + 1 |-> h[k]]
    OBVIOUS
  <2> HIDE DEF h
  <2>6. h = Placed(h, argv, n)
    BY <2>4, <2>5 DEF Placed
  <2> QED BY <1>2, <2>6
<1> QED BY <1>3, <1>4

\* Each word is placed behind the terminator of the one before it.
LEMMA OffsetFacts ==
  ASSUME NEW argv \in Seq(Text)
  PROVE  /\ Offsets(argv)[1] = 0
         /\ \A k \in 1 .. Len(argv) : Offsets(argv)[k + 1] = Offsets(argv)[k] + Len(argv[k]) + 1
         /\ \A k \in 1 .. Len(argv) : argv[k] \in Text /\ Len(argv[k]) \in Nat
         /\ \A k \in 1 .. Len(argv) + 1 : Offsets(argv)[k] \in Nat
<1> DEFINE off == Offsets(argv)
           n == Len(argv)
<1>1. n \in Nat /\ \A k \in 1 .. n : argv[k] \in Text /\ Len(argv[k]) \in Nat
  BY DEF Text
<1>2. off = CHOOSE g : g = Placed(g, argv, n)
  BY DEF Offsets, Placed
<1>3. \E g : g = Placed(g, argv, n)
  BY <1>1, PlacesExist
<1>4. off = Placed(off, argv, n)
  BY <1>2, <1>3, Zenon
<1> HIDE DEF off, n
<1>5. \A k \in 1 .. n + 1 : off[k] = IF k = 1 THEN 0 ELSE off[k - 1] + Len(argv[k - 1]) + 1
  BY <1>4 DEF Placed
<1>6. off[1] = 0
  BY <1>1, <1>5
<1>7. \A k \in 1 .. n : off[k + 1] = off[k] + Len(argv[k]) + 1
  BY <1>1, <1>5
<1> DEFINE T == {k \in 1 .. n + 1 : off[k] \notin Nat}
<1>8. T = {}
  <2> SUFFICES ASSUME T # {} PROVE FALSE
    OBVIOUS
  <2>1. T \in SUBSET Nat
    BY <1>1
  <2>2. PICK k \in T : \A y \in T : k <= y
    BY <2>1, Least
  <2>3. k # 1 /\ k - 1 \in 1 .. n /\ (k - 1) + 1 = k /\ k - 1 \notin T
    BY <1>1, <1>6, <2>2
  <2>4. off[k - 1] \in Nat
    BY <1>1, <2>3
  <2>5. off[k] = off[k - 1] + Len(argv[k - 1]) + 1
    BY <1>7, <2>3
  <2> QED BY <1>1, <2>2, <2>3, <2>4, <2>5
<1> QED BY <1>1, <1>6, <1>7, <1>8 DEF off, n

LEMMA OffsetsApart ==
  ASSUME NEW argv \in Seq(Text), NEW j \in 1 .. Len(argv)
  PROVE  \A k \in j + 1 .. Len(argv) + 1 : Offsets(argv)[j] + Len(argv[j]) + 1 <= Offsets(argv)[k]
<1> DEFINE off == Offsets(argv)
           n == Len(argv)
           T == {k \in j + 1 .. n + 1 : ~(off[j] + Len(argv[j]) + 1 <= off[k])}
<1> SUFFICES ASSUME T # {} PROVE FALSE
  OBVIOUS
<1>1. /\ n \in Nat /\ \A k \in 1 .. n : off[k + 1] = off[k] + Len(argv[k]) + 1 /\ Len(argv[k]) \in Nat
      /\ \A k \in 1 .. n + 1 : off[k] \in Nat
  BY OffsetFacts
<1> HIDE DEF off, n
<1>2. T \in SUBSET Nat
  BY <1>1
<1>3. PICK k \in T : \A y \in T : k <= y
  BY <1>2, Least
<1>4. k \in 2 .. n + 1 /\ k - 1 \in 1 .. n /\ (k - 1) + 1 = k /\ j \in 1 .. n /\ k > j
  BY <1>1, <1>3 DEF n
<1>5. off[k] = off[k - 1] + Len(argv[k - 1]) + 1
  BY <1>1, <1>4
<1>6. CASE k = j + 1
  BY <1>1, <1>3, <1>4, <1>5, <1>6
<1>7. CASE k # j + 1
  <2>1. k - 1 \in j + 1 .. n + 1 /\ k - 1 \notin T
    BY <1>1, <1>3, <1>4, <1>7
  <2>2. off[j] + Len(argv[j]) + 1 <= off[k - 1]
    BY <2>1
  <2>3. off[j] \in Nat /\ off[k - 1] \in Nat /\ Len(argv[j]) \in Nat /\ Len(argv[k - 1]) \in Nat
    BY <1>1, <1>4
  <2>4. ~(off[j] + Len(argv[j]) + 1 <= off[k])
    BY <1>3
  <2> HIDE DEF T
  <2> QED BY <1>5, <2>2, <2>3, <2>4
<1> QED BY <1>6, <1>7

LEMMA HeaderSizes ==
  /\ MAX_ARGS \in Nat /\ ARGV_SIZE \in Nat /\ ARGV_SIZE <= 256 /\ ARGV_SIZE >= 2 * (MAX_ARGS + 1)
  /\ \A n \in 0 .. MAX_ARGS : /\ TablePos(n) = ARGV_SIZE - 2 * n - 2 /\ CrtTable(n) = TablePos(n)
                              /\ TablePos(n) >= TablePos(MAX_ARGS) /\ TablePos(n) \in 0 .. 254
<1>1. MAX_ARGS \in Nat /\ ARGV_SIZE \in Nat /\ ARGV_SIZE <= 256 /\ ARGV_SIZE >= 2 * (MAX_ARGS + 1)
  BY LineAssumption
<1>2. ASSUME NEW n \in 0 .. MAX_ARGS
      PROVE  /\ TablePos(n) = ARGV_SIZE - 2 * n - 2 /\ CrtTable(n) = TablePos(n)
             /\ TablePos(n) >= TablePos(MAX_ARGS) /\ TablePos(n) \in 0 .. 254
  <2>1. TablePos(n) = ARGV_SIZE - 2 * n - 2 /\ TablePos(MAX_ARGS) = ARGV_SIZE - 2 * MAX_ARGS - 2
    BY <1>1 DEF TablePos
  <2>2. ARGV_SIZE - 2 * n - 2 \in 0 .. 254 /\ ARGV_SIZE - 2 * (n + 1) = ARGV_SIZE - 2 * n - 2
    BY <1>1
  <2>3. \A v \in 0 .. 254 : v % 256 = v
    OBVIOUS
  <2>4. CrtTable(n) = ARGV_SIZE - 2 * n - 2
    BY <2>2, <2>3 DEF CrtTable
  <2> QED BY <1>1, <2>1, <2>2, <2>4
<1> QED BY <1>1, <1>2

\* Every word of an argument vector that fits is copied.
LEMMA AllCopied ==
  ASSUME NEW argv \in Seq(Text), Len(argv) <= MAX_ARGS, ArgumentsFit(argv)
  PROVE  Argc(argv) = Len(argv)
<1> DEFINE n == Len(argv)
           off == Offsets(argv)
           S == {0} \cup {k \in 1 .. n : k <= MAX_ARGS /\ off[k + 1] <= ARGV_SIZE - 2 * MAX_ARGS}
<1>1. n \in Nat /\ n <= MAX_ARGS /\ Argc(argv) = Max(S)
  BY DEF Argc
<1>2. off[n + 1] <= ARGV_SIZE - 2 * MAX_ARGS
  <2>1. off[n + 1] <= TablePos(MAX_ARGS) /\ off[n + 1] \in Nat /\ MAX_ARGS \in 0 .. MAX_ARGS
    BY <1>1, HeaderSizes, OffsetFacts DEF ArgumentsFit
  <2> HIDE DEF off, n
  <2> QED BY <2>1, HeaderSizes
<1> HIDE DEF off
<1>3. n \in S /\ \A x \in S : n >= x
  BY <1>1, <1>2
<1> HIDE DEF S
<1>4. S \subseteq Int
  BY <1>1 DEF S
<1>5. Max(S) \in S /\ \A x \in S : Max(S) >= x
  BY <1>3, Zenon DEF Max
<1>6. Max(S) \in Int /\ Max(S) >= n /\ n >= Max(S)
  BY <1>3, <1>4, <1>5
<1>7. Max(S) = n
  BY <1>1, <1>6
<1> QED BY <1>1, <1>7

\* What the header holds: the words with their terminators, and a table of their offsets.
LEMMA HeaderHolds ==
  ASSUME NEW argv \in Seq(Text), Len(argv) <= MAX_ARGS, ArgumentsFit(argv), NEW k \in 1 .. Len(argv)
  PROVE  /\ BuildPih(argv).argc = Len(argv)
         /\ BuildPih(argv).argv[TablePos(Len(argv)) + 2 * (k - 1)] = Offsets(argv)[k]
         /\ \A q \in 1 .. Len(argv[k]) : BuildPih(argv).argv[Offsets(argv)[k] + q - 1] = argv[k][q]
         /\ BuildPih(argv).argv[Offsets(argv)[k] + Len(argv[k])] = 0
         /\ Offsets(argv)[k] + Len(argv[k]) <= ARGV_SIZE - 1
<1> DEFINE n == Len(argv)
           off == Offsets(argv)
           pos == TablePos(n)
           W(c) == {j \in 1 .. n : c \in off[j] .. off[j] + Len(argv[j]) - 1}
           String(c) == IF W(c) = {} THEN 0 ELSE argv[Min(W(c))][c - off[Min(W(c))] + 1]
           Entry(c) == LET i == (c - pos) \div 2
                       IN  IF i = n THEN 0 ELSE IF (c - pos) % 2 = 0 THEN off[i + 1] ELSE PihHigh
           A == [c \in 0 .. ARGV_SIZE - 1 |-> IF c >= pos THEN Entry(c) ELSE String(c)]
<1>1. Argc(argv) = n
  BY AllCopied
<1>2. BuildPih(argv) = [argc |-> n, argv |-> A]
  BY <1>1 DEF BuildPih
<1>3. BuildPih(argv).argc = n /\ BuildPih(argv).argv = A
  BY <1>2
<1>4. /\ n \in Nat /\ n \in 0 .. MAX_ARGS /\ pos \in 0 .. 254 /\ pos = ARGV_SIZE - 2 * n - 2 /\ pos >= TablePos(MAX_ARGS)
      /\ ARGV_SIZE \in Nat /\ TablePos(MAX_ARGS) \in Nat
  <2>1. n \in Nat /\ n \in 0 .. MAX_ARGS /\ MAX_ARGS \in 0 .. MAX_ARGS
    BY HeaderSizes
  <2> QED BY <2>1, HeaderSizes
<1>5. /\ \A j \in 1 .. n : off[j + 1] = off[j] + Len(argv[j]) + 1 /\ Len(argv[j]) \in Nat
      /\ \A j \in 1 .. n + 1 : off[j] \in Nat
      /\ off[n + 1] <= pos
  <2>1. off[n + 1] <= TablePos(MAX_ARGS) /\ off[n + 1] \in Nat
    BY <1>4, OffsetFacts DEF ArgumentsFit
  <2> QED BY <1>4, <2>1, OffsetFacts
<1>6. \A i \in 1 .. n : \A j \in i + 1 .. n + 1 : off[i] + Len(argv[i]) + 1 <= off[j]
  BY OffsetsApart
<1> HIDE DEF n, off, pos
<1>7. k \in 1 .. n /\ off[k] + Len(argv[k]) + 1 <= pos /\ off[k] \in Nat /\ Len(argv[k]) \in Nat
  <2>1. k \in 1 .. n /\ n + 1 \in k + 1 .. n + 1
    BY <1>4 DEF n
  <2>2. off[k] + Len(argv[k]) + 1 <= off[n + 1]
    BY <1>6, <2>1
  <2>3. off[k] \in Nat /\ off[n + 1] \in Nat /\ Len(argv[k]) \in Nat
    BY <1>4, <1>5, <2>1
  <2> QED BY <1>4, <1>5, <2>1, <2>2, <2>3
<1>8. A[pos + 2 * (k - 1)] = off[k]
  <2> DEFINE c == pos + 2 * (k - 1)
  <2>1. c \in 0 .. ARGV_SIZE - 1 /\ c >= pos /\ c - pos = 2 * (k - 1) /\ k - 1 # n /\ k - 1 \in Nat
    BY <1>4, <1>7
  <2>2. (2 * (k - 1)) \div 2 = k - 1 /\ (2 * (k - 1)) % 2 = 0
    BY <2>1
  <2> HIDE DEF c
  <2>3. Entry(c) = off[k]
    BY <2>1, <2>2
  <2> HIDE DEF Entry, String
  <2> QED BY <2>1, <2>3 DEF c
<1>9. \A c \in 0 .. pos - 1 : A[c] = String(c)
  BY <1>4
<1> HIDE DEF A
\* No other word reaches into the place of word k and its terminator.
<1>10. ASSUME NEW j \in 1 .. n, NEW c \in off[k] .. off[k] + Len(argv[k]), j \in W(c) PROVE j = k
  <2>1. off[j] \in Nat /\ Len(argv[j]) \in Nat /\ c \in Int /\ off[j] <= c /\ c <= off[j] + Len(argv[j]) - 1
    BY <1>4, <1>5, <1>7, <1>10
  <2>2. off[k] <= c /\ c <= off[k] + Len(argv[k])
    BY <1>7
  <2>3. CASE j < k
    <3>1. off[j] + Len(argv[j]) + 1 <= off[k]
      BY <1>4, <1>6, <1>7, <2>3
    <3> HIDE DEF W
    <3> QED BY <1>7, <2>1, <2>2, <3>1
  <2>4. CASE k < j
    <3>1. off[k] + Len(argv[k]) + 1 <= off[j]
      BY <1>4, <1>6, <1>7, <2>4
    <3> HIDE DEF W
    <3> QED BY <1>7, <2>1, <2>2, <3>1
  <2> QED BY <1>7, <2>3, <2>4
<1>11. ASSUME NEW q \in 1 .. Len(argv[k]) PROVE A[off[k] + q - 1] = argv[k][q]
  <2> DEFINE c == off[k] + q - 1
  <2>1. c \in 0 .. pos - 1 /\ c \in off[k] .. off[k] + Len(argv[k]) /\ c \in off[k] .. off[k] + Len(argv[k]) - 1 /\ c - off[k] + 1 = q
    BY <1>4, <1>7, SMTT(60)
  <2> HIDE DEF c
  <2>2. W(c) = {k}
    <3>1. W(c) \subseteq 1 .. n /\ k \in W(c)
      BY <1>7, <2>1
    <3>2. \A j \in 1 .. n : j \in W(c) => j = k
      BY <1>10, <2>1
    <3> HIDE DEF W
    <3> QED BY <3>1, <3>2
  <2>3. Min({k}) = k
    BY <1>7 DEF Min
  <2>4. String(c) = argv[k][q]
    BY <2>1, <2>2, <2>3
  <2> HIDE DEF String
  <2> QED BY <1>9, <2>1, <2>4 DEF c
<1>12. A[off[k] + Len(argv[k])] = 0
  <2> DEFINE c == off[k] + Len(argv[k])
  <2>1. c \in 0 .. pos - 1 /\ c \in off[k] .. off[k] + Len(argv[k]) /\ ~(c \in off[k] .. off[k] + Len(argv[k]) - 1)
    BY <1>4, <1>7
  <2> HIDE DEF c
  <2>2. W(c) = {}
    <3>1. \A j \in W(c) : j \in 1 .. n
      OBVIOUS
    <3>2. k \notin W(c)
      BY <2>1
    <3>3. \A j \in 1 .. n : j \in W(c) => j = k
      BY <1>10, <2>1
    <3> HIDE DEF W
    <3> QED BY <3>1, <3>2, <3>3
  <2>3. String(c) = 0
    BY <2>2
  <2> HIDE DEF String
  <2> QED BY <1>9, <2>1, <2>3 DEF c
<1>13. off[k] + Len(argv[k]) <= ARGV_SIZE - 1
  BY <1>4, <1>7
<1> QED BY <1>3, <1>8, <1>11, <1>12, <1>13 DEF n, off, pos

\* main sees the vector that execv was given.
LEMMA VectorSeen ==
  ASSUME NEW argv \in Seq(Text), Len(argv) <= MAX_ARGS, ArgumentsFit(argv), pih = BuildPih(argv)
  PROVE  ArgumentsSeen = argv
<1> DEFINE n == Len(argv)
           off == Offsets(argv)
           A == pih.argv
           E(c) == {e \in c .. ARGV_SIZE - 1 : A[e] = 0}
           Str(c) == [q \in 1 .. Min(E(c)) - c |-> A[c + q - 1]]
<1>0. n \in Nat /\ n \in 0 .. MAX_ARGS /\ argv = [k \in 1 .. n |-> argv[k]]
  BY HeaderSizes
<1>1. pih.argc = n
  BY AllCopied DEF BuildPih
<1>2. CrtTable(n) = TablePos(n)
  BY <1>0, HeaderSizes
<1>3. ArgumentsSeen = [k \in 1 .. n |-> Str(A[TablePos(n) + 2 * (k - 1)])]
  BY <1>1, <1>2 DEF ArgumentsSeen
<1>4. ASSUME NEW k \in 1 .. n PROVE Str(A[TablePos(n) + 2 * (k - 1)]) = argv[k]
  <2>1. /\ A[TablePos(n) + 2 * (k - 1)] = off[k]
        /\ \A q \in 1 .. Len(argv[k]) : A[off[k] + q - 1] = argv[k][q]
        /\ A[off[k] + Len(argv[k])] = 0 /\ off[k] + Len(argv[k]) <= ARGV_SIZE - 1
    BY HeaderHolds
  <2>2. off[k] \in Nat /\ Len(argv[k]) \in Nat /\ argv[k] \in Text /\ ARGV_SIZE \in Nat
    BY <1>0, OffsetFacts, HeaderSizes, SMTT(60)
  <2>3. \A q \in 1 .. Len(argv[k]) : argv[k][q] \in Nat \ {0}
    BY <2>2 DEF Text
  <2> HIDE DEF off, A, n
  <2>4. off[k] + Len(argv[k]) \in E(off[k])
    BY <2>1, <2>2
  <2>5. ASSUME NEW e \in E(off[k]), e < off[k] + Len(argv[k]) PROVE FALSE
    <3>1. e \in Int /\ off[k] <= e /\ A[e] = 0
      BY <2>2
    <3>2. e - off[k] + 1 \in 1 .. Len(argv[k]) /\ off[k] + (e - off[k] + 1) - 1 = e
      BY <2>2, <2>5, <3>1
    <3>3. A[e] = argv[k][e - off[k] + 1]
      BY <2>1, <3>2
    <3> QED BY <2>3, <3>1, <3>2, <3>3
  <2>6. \A e \in E(off[k]) : e \in Int
    BY <2>2
  <2> HIDE DEF E
  <2>7. \A e \in E(off[k]) : off[k] + Len(argv[k]) <= e
    BY <2>2, <2>5, <2>6
  <2>8. Min(E(off[k])) \in E(off[k]) /\ \A e \in E(off[k]) : Min(E(off[k])) <= e
    BY <2>4, <2>7, Zenon DEF Min
  <2>9. Min(E(off[k])) = off[k] + Len(argv[k])
    BY <2>2, <2>4, <2>6, <2>7, <2>8
  <2>10. Min(E(off[k])) - off[k] = Len(argv[k])
    BY <2>2, <2>9
  <2>11. Str(off[k]) = [q \in 1 .. Len(argv[k]) |-> argv[k][q]]
    BY <2>1, <2>10
  <2>12. argv[k] = [q \in 1 .. Len(argv[k]) |-> argv[k][q]]
    BY <2>2 DEF Text
  <2> HIDE DEF Str
  <2> QED BY <2>1, <2>11, <2>12
<1> HIDE DEF Str, n
<1> QED BY <1>0, <1>3, <1>4

-----------------------------------------------------------------------------
(* What the started program finds                                          *)

\* The line in work fits; a program that has just been started by the shell is the file
\* named, and its header was built from the line's words.
LineInv ==
  /\ command \in ShellLine /\ ArgumentsFit(Arguments(command))
  /\ m.pc = USER_AREA /\ ~nested => loaded = command.name /\ pih = BuildPih(Arguments(command))

LEMMA PassedOn ==
  ASSUME NEW c \in ShellLine
  PROVE  Arguments(c) \in Seq(Text) /\ Len(Arguments(c)) <= MAX_ARGS
<1> DEFINE l == Len(c.words)
           k == Min({l, MAX_ARGS})
<1>1. c.words \in Seq(Text) /\ l \in Nat /\ MAX_ARGS \in Nat
  BY HeaderSizes DEF ShellLine, Text
<1> HIDE DEF l
<1>2. k \in Nat /\ k <= l /\ k <= MAX_ARGS
  <2> DEFINE S == {l, MAX_ARGS}
  <2>1. \E x \in S : \A y \in S : x <= y
    BY <1>1
  <2>2. Min(S) \in S /\ \A y \in S : Min(S) <= y
    BY <2>1, Zenon DEF Min
  <2> QED BY <1>1, <2>2
<1> HIDE DEF k
<1>3. SubSeq(c.words, 1, k) \in Seq(Text) /\ Len(SubSeq(c.words, 1, k)) = k
  BY <1>1, <1>2 DEF l
<1> QED BY <1>2, <1>3 DEF Arguments, k, l

LEMMA SeenFromInv == LineInv => ArgumentsArrive
<1> SUFFICES ASSUME LineInv, m.pc = USER_AREA, ~nested
             PROVE  loaded = command.name /\ ArgumentsSeen = Arguments(command)
  BY Zenon DEF ArgumentsArrive
<1>1. /\ command \in ShellLine /\ ArgumentsFit(Arguments(command))
      /\ loaded = command.name /\ pih = BuildPih(Arguments(command))
  BY Zenon DEF LineInv
<1>2. Arguments(command) \in Seq(Text) /\ Len(Arguments(command)) <= MAX_ARGS
  BY <1>1, PassedOn
<1> QED BY <1>1, <1>2, VectorSeen

LEMMA TypingFits == Typing \in ShellLine /\ ArgumentsFit(Arguments(Typing))
<1>1. Typing \in ShellLine /\ Typing.words = <<>>
  <2>1. <<>> \in Seq(Seq(Nat \ {0})) /\ "none" \in Kinds
    BY DEF Kinds
  <2>2. NoFile \in Files \cup Unknown \cup {NoFile}
    OBVIOUS
  <2> QED BY <2>1, <2>2 DEF Typing, ShellLine
<1>2. Arguments(Typing) \in Seq(Text) /\ Len(Arguments(Typing)) <= MAX_ARGS
  BY <1>1, PassedOn
<1>3. Arguments(Typing) = <<>>
  <2>1. Len(<<>>) = 0 /\ MAX_ARGS \in Nat
    BY HeaderSizes
  <2> DEFINE S == {0, MAX_ARGS}
  <2>2. \E x \in S : \A y \in S : x <= y
    BY <2>1
  <2>3. Min(S) \in S /\ \A y \in S : Min(S) <= y
    BY <2>2, Zenon DEF Min
  <2>4. Min(S) = 0
    BY <2>1, <2>3
  <2>5. Arguments(Typing) = SubSeq(<<>>, 1, Min(S))
    BY <1>1, <2>1 DEF Arguments
  <2> QED BY <2>4, <2>5
<1>4. Offsets(<<>>)[1] = 0 /\ Len(<<>>) + 1 = 1
  <2>1. <<>> \in Seq(Text)
    OBVIOUS
  <2>2. Offsets(<<>>)[1] = 0
    BY <2>1, OffsetFacts, Zenon
  <2>3. Len(<<>>) + 1 = 1
    OBVIOUS
  <2> QED BY <2>2, <2>3
<1>5. TablePos(MAX_ARGS) >= 0
  <2>1. MAX_ARGS \in 0 .. MAX_ARGS
    BY HeaderSizes
  <2> QED BY <2>1, HeaderSizes
<1> QED BY <1>1, <1>3, <1>4, <1>5 DEF ArgumentsFit

LEMMA LineInit == ExecInit => LineInv
<1> SUFFICES ASSUME ExecInit PROVE LineInv
  OBVIOUS
<1>1. command = Typing /\ m.pc = KERNEL_ENTRY /\ KERNEL_ENTRY # USER_AREA
  BY DEF ExecInit, KERNEL_ENTRY, USER_AREA
<1> QED BY <1>1, TypingFits DEF LineInv

\* A step after which the processor is not at the start of a program keeps the invariant if
\* the line still fits.
LEMMA ElsewhereKeeps ==
  ASSUME command' \in ShellLine, ArgumentsFit(Arguments(command')), m'.pc # USER_AREA
  PROVE  LineInv'
BY Zenon DEF LineInv

LEMMA OtherPoints == USER_AREA \notin {SHELL_AREA, SHELL_CALL, SHELL_EXEC, USER_CALL, USER_EXEC, PANIC, KERNEL_ENTRY}
BY DEF SHELL_AREA, SHELL_CALL, SHELL_EXEC, USER_AREA, USER_CALL, USER_EXEC, PANIC, KERNEL_ENTRY

\* A system call ends behind the point that made it.
LEMMA CallGoesBack ==
  ASSUME NEW here \in {SHELL_CALL, USER_CALL}, Ready(m),
         m' \in CallResults(m, here)
  PROVE  m'.pc # USER_AREA
<1>1. here \in Int
  BY Points DEF ShellPoints, UserPoints
<1>2. Returned(m, here, m')
  BY <1>1, CallReturns
<1> QED BY <1>2, OtherPoints DEF Returned

LEMMA LineBoot == ASSUME StackInv, LineInv, NEW ok \in BOOLEAN, Boot(ok) PROVE LineInv'
<1>1. m \in Machine
  BY DEF StackInv, StackInvOf
<1>2. m'.pc \in {SHELL_AREA, PANIC}
  BY <1>1 DEF Boot, Machine
<1>3. command' = command
  BY DEF Boot
<1> QED BY <1>2, <1>3, OtherPoints, ElsewhereKeeps DEF LineInv

LEMMA LineShell == ASSUME StackInv, LineInv, ShellStep PROVE LineInv'
<1>0. /\ command \in ShellLine /\ ArgumentsFit(Arguments(command))
      /\ InShell => Ready(m) /\ m.pc # USER_AREA
  <2>1. InShell => Ready(m)
    BY Where, ShellReady DEF StackInv
  <2> QED BY <2>1, OtherPoints DEF LineInv, InShell
<1>1. ASSUME NEW c \in Commands, ShellRead(c) PROVE LineInv'
  <2>1. m'.pc # USER_AREA
    BY <1>0, <1>1, CallGoesBack DEF ShellRead, CallResults
  <2>2. command' \in ShellLine /\ ArgumentsFit(Arguments(command'))
    BY <1>1, LineAssumption DEF ShellRead
  <2> QED BY <2>1, <2>2, ElsewhereKeeps
<1>2. ASSUME ShellBuiltin PROVE LineInv'
  <2>1. m'.pc # USER_AREA
    <3>1. CASE UNCHANGED m
      BY <1>0, <1>2, <3>1 DEF ShellBuiltin
    <3>2. CASE Call(SHELL_CALL)
      BY <1>0, <1>2, <3>2, CallGoesBack DEF ShellBuiltin, Call
    <3> QED BY <1>2, <3>1, <3>2 DEF ShellBuiltin
  <2>2. command' = Typing \/ command' = command
    BY <1>2 DEF ShellBuiltin
  <2> QED BY <1>0, <2>1, <2>2, TypingFits, ElsewhereKeeps
<1>3. ASSUME ShellReturned PROVE LineInv'
  <2>1. m'.pc # USER_AREA /\ command' = Typing
    BY <1>0, <1>3 DEF ShellReturned
  <2> QED BY <2>1, TypingFits, ElsewhereKeeps
<1>4. ASSUME ShellExec PROVE LineInv'
  <2>1. /\ command' = [command EXCEPT !.kind = "started"] /\ Exec(SHELL_EXEC, command.name, Arguments(command))
        /\ Ready(m)
    BY <1>0, <1>4 DEF ShellExec
  <2>2. command' \in ShellLine /\ command'.words = command.words /\ command'.name = command.name
    <3>1. "started" \in Kinds
      BY DEF Kinds
    <3> QED BY <1>0, <2>1, <3>1 DEF ShellLine
  <2>3. Arguments(command') = Arguments(command)
    BY <2>2 DEF Arguments
  <2>4. CASE Found(command.name)
    <3>1. loaded' = command'.name /\ pih' = BuildPih(Arguments(command'))
      BY <2>1, <2>2, <2>3, <2>4 DEF Exec
    <3> QED BY <1>0, <2>2, <2>3, <3>1, Zenon DEF LineInv
  <2>5. CASE ~Found(command.name)
    <3>1. Found(command.name) = FALSE
      <4>1. Found(command.name) \in BOOLEAN
        BY DEF Found
      <4> QED BY <2>5, <4>1, Zenon
    <3>2. m' = SYS_EXECV(SYSCALL_DISPATCH(Rst20(m, SHELL_EXEC), REG), FALSE)
      BY <2>1, <3>1 DEF Exec
    <3>3. SHELL_EXEC \in Int
      BY Points DEF ShellPoints
    <3>4. m'.pc = SHELL_EXEC
      BY <2>1, <3>2, <3>3, ExecvFails DEF Returned
    <3> QED BY <1>0, <2>2, <2>3, <3>4, OtherPoints, ElsewhereKeeps
  <2> QED BY <2>4, <2>5
<1> QED BY <1>1, <1>2, <1>3, <1>4 DEF ShellStep

LEMMA LineUser == ASSUME StackInv, LineInv, UserStep PROVE LineInv'
<1>0. /\ command \in ShellLine /\ ArgumentsFit(Arguments(command)) /\ m \in Machine
      /\ InUser => Ready(m) /\ m.sp - 1 \in UserArea
  BY Where, UserReady DEF StackInv, StackInvOf, LineInv
<1>1. ASSUME UserFrame \/ UserReturn PROVE LineInv'
  <2>1. m'.pc = m.pc
    BY <1>0, <1>1 DEF UserFrame, UserReturn, Push, Pop, Machine
  <2>2. UNCHANGED <<loaded, pih, command, nested>>
    BY <1>1 DEF UserFrame, UserReturn
  <2> QED BY <2>1, <2>2, Zenon DEF LineInv
<1>2. ASSUME UserCall PROVE LineInv'
  <2>1. m'.pc # USER_AREA
    BY <1>0, <1>2, CallGoesBack DEF UserCall, Call
  <2> QED BY <1>0, <1>2, <2>1, ElsewhereKeeps DEF UserCall
<1>3. ASSUME NEW name, NEW argv, UserExec(name, argv) PROVE LineInv'
  <2>1. nested' = TRUE /\ command' = command
    BY <1>3 DEF UserExec
  <2> QED BY <1>0, <2>1, Zenon DEF LineInv
<1>4. ASSUME NEW code \in Codes, UserExit(code) PROVE LineInv'
  <2>1. command' = command /\ nested' = nested
    BY <1>4 DEF UserExit
  <2>2. ~nested => m'.pc # USER_AREA
    BY <1>4, UserExitKeeps, OtherPoints
  <2> QED BY <1>0, <2>1, <2>2, Zenon DEF LineInv
<1> QED BY <1>1, <1>2, <1>3, <1>4 DEF UserStep

\* The arguments arrive: a program that the shell starts is the file named on the line, and its
\* main sees the line's words, for argument blocks of every size up to 256 bytes and every line
\* that fits: execv's copies, its table and the C runtime's search for it agree.
THEOREM ArgumentsReachProgram == ExecSpec => []ArgumentsArrive
<1>1. StackInv /\ LineInv /\ [ExecNext]_vars => LineInv'
  <2> SUFFICES ASSUME StackInv, LineInv, [ExecNext]_vars PROVE LineInv'
    OBVIOUS
  <2>1. CASE UNCHANGED vars
    BY <2>1, Zenon DEF vars, LineInv
  <2> QED BY <2>1, LineBoot, LineShell, LineUser DEF ExecNext
<1> QED BY <1>1, StackInvariant, LineInit, SeenFromInv, PTL DEF ExecSpec
=============================================================================
