----------------------------- MODULE MCMFSCrash -----------------------------
(***************************************************************************)
(* A small instance of MFSCrash for TLC: one table entry, two blocks.      *)
(***************************************************************************)
EXTENDS MFSCrash

CONSTANTS n1, e0

MCNames  == {n1}
MCStored == [n \in MCNames |-> n]
MCFlags  == {[acc |-> "rdwr", creat |-> TRUE, append |-> FALSE]}
=============================================================================
