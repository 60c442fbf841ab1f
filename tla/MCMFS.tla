------------------------------- MODULE MCMFS -------------------------------
(***************************************************************************)
(* Small instances of MFS for TLC.                                         *)
(***************************************************************************)
EXTENDS MFS

CONSTANTS n1, n2, e0

MCNames  == {n1, n2}
MCStored == [n \in MCNames |-> n]

Open(acc, creat, append) == [acc |-> acc, creat |-> creat, append |-> append]

\* O_RDWR | O_CREAT, O_RDWR | O_APPEND, and the access mode 3.
OddFlags   == {Open("rdwr", TRUE, FALSE), Open("rdwr", FALSE, TRUE),
               Open("none", FALSE, FALSE)}

\* The ways the shell, the editor and the assembler open files.
PlainFlags == {Open("rdwr", TRUE, FALSE), Open("wr", TRUE, FALSE),
               Open("rd", FALSE, FALSE)}
=============================================================================
