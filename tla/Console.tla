------------------------------- MODULE Console -------------------------------
(***************************************************************************)
(* The kernel's line input (kernel/kstdio.c, sysc_read of kernel.c): what  *)
(* a program finds in its buffer after the keys of a line.  A key is a     *)
(* printable character, or "BS" for backspace and DEL; Enter ends the      *)
(* sequence of keys.                                                       *)
(***************************************************************************)
EXTENDS Integers, Sequences, SequencesExt

\* Mutant: a backspace takes the position back once more than it should.
kgetslen_Twice(keys, len) ==
  FoldLeft(LAMBDA s, key : IF Len(s) >= len THEN s
                           ELSE IF key = "BS" /\ s # <<>> THEN SubSeq(s, 1, Len(s) - 2) ELSE Append(s, key),
           <<>>, keys)

\* The loop of kgetslen: s holds the i characters read so far.  A full buffer ends the line,
\* with the terminator behind it; a backspace at the start of a line is kept as a character.
kgetslen(keys, len) ==
  FoldLeft(LAMBDA s, key : IF Len(s) >= len THEN s
                           ELSE IF key = "BS" /\ s # <<>> THEN Front(s) ELSE Append(s, key),
           <<>>, keys)
----------------------------------------------------------------------------
\* What line editing is to mean: a key stays unless a later backspace takes it back, which
\* is when backspaces outnumber characters for the first time behind it.
Erases(keys, j, k) ==
  LET after == SubSeq(keys, j + 1, k)
  IN  Len(SelectSeq(after, LAMBDA key : key = "BS")) > Len(SelectSeq(after, LAMBDA key : key # "BS"))
Kept(keys) == {j \in DOMAIN keys : keys[j] # "BS" /\ ~ \E k \in j + 1 .. Len(keys) : Erases(keys, j, k)}
EditedLine(keys) == LET kept == SetToSortSeq(Kept(keys), <) IN [n \in DOMAIN kept |-> keys[kept[n]]]

\* Keys that at no point erase beyond the start of the line or fill the buffer.
Ordinary(keys, len) ==
  \A k \in DOMAIN keys :
    /\ ~Erases(keys, 0, k)
    /\ LET now == SubSeq(keys, 1, k)
       IN  Len(SelectSeq(now, LAMBDA key : key # "BS")) - Len(SelectSeq(now, LAMBDA key : key = "BS")) < len
=============================================================================
