------------------------------ MODULE Userland ------------------------------
(***************************************************************************)
(* The shell, the kernel's system calls and the programs the shell starts: *)
(* the editor and the calculator run with the arguments, the console and   *)
(* the stacks they get from Exec, and every other program is any sequence  *)
(* of calls, system calls, execv and exit.                                 *)
(***************************************************************************)
EXTENDS Exec, Edit, ECalc

allVars == <<vars, ed, file, calc>>
programs == <<ed, file, calc>>

UserInit == ExecInit /\ EditInit /\ CalcInit

\* A program's own step between its start and its exit makes system calls that return.
Entered(name) == m.pc = USER_AREA /\ loaded = name
Continued(name) == m.pc = USER_CALL /\ loaded = name
Calls == /\ m' = SYS_WRITE(SYSCALL_DISPATCH(Rst20(m, USER_CALL), REG), 0)
         /\ UNCHANGED <<loaded, pih, command, nested>>

EditRuns ==
  \/ /\ Entered("EDIT") /\ Calls
     /\ \E opened \in BOOLEAN, bytes \in FileImages, at \in Unassigned :
          EditStart(pih.argc > 1, opened, bytes, at)
     /\ UNCHANGED calc
  \/ Continued("EDIT") /\ Calls /\ EditStep /\ UNCHANGED calc
  \/ Continued("EDIT") /\ UserExit(0) /\ EditQuit /\ UNCHANGED calc

CalcRuns ==
  \/ Entered("ECALC") /\ Calls /\ CalcStart /\ UNCHANGED <<ed, file>>
  \/ Continued("ECALC") /\ Calls /\ (\E line \in CalcLines : Calculate(line)) /\ UNCHANGED <<ed, file>>
  \/ Continued("ECALC") /\ UserExit(0) /\ calc' = NoCalc /\ UNCHANGED <<ed, file>>

OtherRuns == loaded \notin {"EDIT", "ECALC"} /\ UserStep /\ UNCHANGED programs

KernelRuns == ((\E ok \in BOOLEAN : Boot(ok)) \/ ShellStep) /\ UNCHANGED programs

UserNext == KernelRuns \/ EditRuns \/ CalcRuns \/ OtherRuns
UserSpec == UserInit /\ [][UserNext]_allVars
=============================================================================
