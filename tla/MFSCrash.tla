------------------------------ MODULE MFSCrash ------------------------------
(***************************************************************************)
(* MFS on a machine that may lose power at any moment, between any two     *)
(* disk writes of a system call: the next boot loads whatever sectors the  *)
(* disk holds.  After a power cut chains and bitmap may disagree, and a    *)
(* later write may close a chain into a loop; CursorInBlock and            *)
(* CallsReturn still hold.                                                 *)
(***************************************************************************)
EXTENDS MFS

\* mfs_init and fd_init of the next kernel_main.
Restart ==
    /\ filecount' = dfilecount /\ bitmap' = dbitmap /\ files' = dfiles
    /\ fd_table' = InitFdTable /\ fd_count' = 3 % CountMod
    /\ call' = Idle /\ ret' = NoAnswer
    /\ UNCHANGED <<meta, blk>>

CrashNext == Next \/ Restart

CrashSpec == Init /\ [][CrashNext]_vars /\ WF_vars(KernelStep)
=============================================================================
