------------------------------- MODULE MCTTY -------------------------------
(***************************************************************************)
(* Small instances of TTY for TLC: a ring of a few slots.                  *)
(***************************************************************************)
EXTENDS TTY
=============================================================================
