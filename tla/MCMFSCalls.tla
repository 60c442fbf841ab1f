----------------------------- MODULE MCMFSCalls -----------------------------
(***************************************************************************)
(* MFS with richer inputs, cut off after MaxCalls system calls: more blocks *)
(* and descriptors than the whole reachable state space of MCMFS allows.    *)
(***************************************************************************)
EXTENDS MCMFS, TLC

CONSTANT MaxCalls       \* bound: system calls of a behaviour
VARIABLE calls

CallsInit == Init /\ calls = 0

CallsNext ==
    \/ Syscall /\ calls < MaxCalls /\ calls' = calls + 1
    \/ KernelStep /\ UNCHANGED calls

CallsSpec == CallsInit /\ [][CallsNext]_<<vars, calls>>

NameSymmetry == Permutations(MCNames)
=============================================================================
