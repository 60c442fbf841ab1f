------------------------------- MODULE MCZ80 -------------------------------
(***************************************************************************)
(* Firmware for TLC: all its routines and the sweep over the opcodes.      *)
(***************************************************************************)
EXTENDS Firmware

MCRoms == FirmwareRoms \cup SweepRoms
\* Three sectors with distinct bytes, or no disk in the drive.
MCDisks == {NoDisk, [n \in 0 .. 2 |-> [k \in 0 .. FDC_SECTOR_SIZE - 1 |-> 100 + 10 * n + k]]}
=============================================================================
