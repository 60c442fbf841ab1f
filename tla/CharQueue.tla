----------------------------- MODULE CharQueue -----------------------------
(***************************************************************************)
(* What the terminal driver promises: a bounded first-in first-out queue   *)
(* of characters between the serial port and the program that reads.       *)
(***************************************************************************)
EXTENDS Naturals, Sequences

CONSTANTS Chars, Size, NoChar
VARIABLES queue,    \* characters received and not yet read
          out       \* the character the reader got last

Init == queue = <<>> /\ out = NoChar

Put(c) == Len(queue) < Size /\ queue' = Append(queue, c) /\ UNCHANGED out

Get == /\ queue # <<>>
       /\ out' = Head(queue) /\ queue' = Tail(queue)

Next == Get \/ \E c \in Chars : Put(c)

Spec == Init /\ [][Next]_<<queue, out>>
=============================================================================
