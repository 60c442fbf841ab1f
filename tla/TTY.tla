-------------------------------- MODULE TTY --------------------------------
(***************************************************************************)
(* The terminal input path: the receive side of the 6850 ACIA as bemu80    *)
(* emulates it (a keyboard thread and a processor loop that share          *)
(* interrupt_pending), the interrupt handler z80_rst_38h and the readers   *)
(* tty_getchar and z80_rst_10h of driver/tty.c, which share the ring       *)
(* buffer and its count with it.                                           *)
(*                                                                         *)
(* The processor alternates between looking at interrupt_pending and       *)
(* executing an instruction; the keyboard thread may run at any time.  A   *)
(* C statement is one or more of the steps below, with instructions that   *)
(* touch no shared state (Compute) in between.                             *)
(***************************************************************************)
EXTENDS Integers, Sequences

CONSTANTS
    Chars,          \* characters that can be typed
    NoChar,         \* the content of a register or slot never written
    Size,           \* TTY_BUF_SIZE
    Base            \* low byte of the address of TTY_BUF

ASSUME RingAssumption ==
    /\ Size \in 1..255 /\ Base \in 0..(Size - 1)
    /\ NoChar \notin Chars

VARIABLES
    SplitDecrement,         \* the build loads and stores the count in two instructions
    receive, rdrf, ovrn,    \* acia.receive, ACIA_RDRF and ACIA_OVRN of status
    pending,                \* interrupt_pending
    phase,                  \* where execute() is in its loop
    iff1,                   \* the interrupt flip-flop of the processor
    isr,                    \* where z80_rst_38h is, "out" when not running
    buffer, head, tail, count,
    reader,                 \* where the reader is
    character, reg,         \* its local variable, and a register
    last                    \* the character the reader returned last

acia == <<receive, rdrf, ovrn>>
ring == <<buffer, head, tail, count>>
user == <<reader, character, reg, last>>
vars == <<SplitDecrement, receive, rdrf, ovrn, pending, phase, iff1, isr, buffer, head, tail,
          count, reader, character, reg, last>>

Slots == 0..(Size - 1)

TypeOK ==
    /\ SplitDecrement \in BOOLEAN
    /\ receive \in Chars \cup {NoChar} /\ rdrf \in BOOLEAN /\ ovrn \in BOOLEAN
    /\ pending \in BOOLEAN /\ phase \in {"poll", "clear", "exec"}
    /\ iff1 \in BOOLEAN /\ isr \in {"out", "test", "store", "exit"}
    /\ buffer \in [Slots -> Chars \cup {NoChar}]
    /\ head \in Slots /\ tail \in Slots /\ count \in 0..255
    /\ reader \in {"wait", "take", "advance", "decrement", "store", "return"}
    /\ character \in Chars \cup {NoChar} /\ reg \in 0..255
    /\ last \in Chars \cup {NoChar}

\* ACIA_init, then tty_init: head and tail are assigned the buffer's address.
Init ==
    /\ SplitDecrement \in BOOLEAN
    /\ receive = NoChar /\ rdrf = FALSE /\ ovrn = FALSE
    /\ pending = FALSE /\ phase = "poll" /\ iff1 = TRUE /\ isr = "out"
    /\ buffer = [s \in Slots |-> NoChar]
    /\ head = Base /\ tail = Base /\ count = 0
    /\ reader = "wait" /\ character = NoChar /\ reg = 0 /\ last = NoChar

-----------------------------------------------------------------------------
(* bemu80: the keyboard thread and the processor loop                      *)

\* input_thread, under acia_mutex: the new character replaces an unread one.
\* tty_init has set the receive interrupt enable bit.
KeyTyped(c) ==
    /\ ovrn' = (ovrn \/ rdrf)
    /\ receive' = c /\ rdrf' = TRUE
    /\ pending' = TRUE
    /\ UNCHANGED <<SplitDecrement, phase, iff1, isr, ring, user>>

\* Mutant: the interrupt is taken whether or not interrupts are enabled.
Poll_Unmasked ==
    /\ phase = "poll"
    /\ phase' = IF pending THEN "clear" ELSE "exec"
    /\ IF pending THEN iff1' = FALSE /\ isr' = "test"
                  ELSE UNCHANGED <<iff1, isr>>
    /\ UNCHANGED <<SplitDecrement, acia, pending, ring, user>>

\* execute tests interrupt_pending and calls interrupt, which does nothing
\* while interrupts are disabled ...
Poll ==
    /\ phase = "poll"
    /\ phase' = IF pending THEN "clear" ELSE "exec"
    /\ IF pending /\ iff1 THEN iff1' = FALSE /\ isr' = "test"
                          ELSE UNCHANGED <<iff1, isr>>
    /\ UNCHANGED <<SplitDecrement, acia, pending, ring, user>>

\* ... and then clears it, without acia_mutex.
ClearPending ==
    /\ phase = "clear" /\ pending' = FALSE /\ phase' = "exec"
    /\ UNCHANGED <<SplitDecrement, acia, iff1, isr, ring, user>>

\* step(cpu) runs one instruction.
Execute == phase = "exec" /\ phase' = "poll" /\ UNCHANGED <<SplitDecrement, pending>>

Compute == Execute /\ UNCHANGED <<acia, iff1, isr, ring, user>>

-----------------------------------------------------------------------------
(* z80_rst_38h, with interrupts disabled                                   *)

InIsr(at) == Execute /\ isr = at /\ UNCHANGED user

\* Mutant: off by one at a full buffer.
IsrTest_Full ==
    /\ InIsr("test")
    /\ isr' = IF count <= Size THEN "store" ELSE "exit"
    /\ UNCHANGED <<acia, iff1, ring>>

\* A full buffer leaves the character in the ACIA.
IsrTest ==
    /\ InIsr("test")
    /\ isr' = IF count < Size THEN "store" ELSE "exit"
    /\ UNCHANGED <<acia, iff1, ring>>

\* Mutant: the head does not wrap around.
IsrStore_NoWrap ==
    /\ InIsr("store")
    /\ buffer' = [buffer EXCEPT ![head] = receive]
    /\ receive' = NoChar /\ rdrf' = FALSE /\ ovrn' = FALSE
    /\ head' = head + 1
    /\ count' = (count + 1) % 256
    /\ isr' = "exit"
    /\ UNCHANGED <<iff1, tail>>

\* Reading the data port empties the receive register (ACIA_read_data).
IsrStore ==
    /\ InIsr("store")
    /\ buffer' = [buffer EXCEPT ![head] = receive]
    /\ receive' = NoChar /\ rdrf' = FALSE /\ ovrn' = FALSE
    /\ head' = (head + 1) % Size
    /\ count' = (count + 1) % 256
    /\ isr' = "exit"
    /\ UNCHANGED <<iff1, tail>>

\* ei; reti
IsrExit ==
    /\ InIsr("exit")
    /\ isr' = "out" /\ iff1' = TRUE
    /\ UNCHANGED <<acia, ring>>

Isr == IsrTest \/ IsrStore \/ IsrExit

-----------------------------------------------------------------------------
(* tty_getchar and z80_rst_10h, with interrupts enabled                    *)

InReader(at) == Execute /\ isr = "out" /\ reader = at
                /\ UNCHANGED <<acia, iff1, isr>>

\* Mutant: waits for a second character.
ReaderWait_Late ==
    /\ InReader("wait") /\ count > 1
    /\ reader' = "take"
    /\ UNCHANGED <<ring, character, reg, last>>

\* while (*tty_buffer_count == 0);
ReaderWait ==
    /\ InReader("wait") /\ count # 0
    /\ reader' = "take"
    /\ UNCHANGED <<ring, character, reg, last>>

\* Mutant: reads the slot after the tail.
ReaderTake_Next ==
    /\ InReader("take")
    /\ character' = buffer[(tail + 1) % Size] /\ reader' = "advance"
    /\ UNCHANGED <<ring, reg, last>>

ReaderTake ==
    /\ InReader("take")
    /\ character' = buffer[tail] /\ reader' = "advance"
    /\ UNCHANGED <<ring, reg, last>>

ReaderAdvance ==
    /\ InReader("advance")
    /\ tail' = (tail + 1) % Size
    /\ reader' = "decrement"
    /\ UNCHANGED <<buffer, head, count, character, reg, last>>

\* *tty_buffer_count = *tty_buffer_count - 1, as one instruction or as two.
ReaderDecrement ==
    /\ InReader("decrement") /\ ~SplitDecrement
    /\ count' = (count - 1) % 256 /\ reader' = "return"
    /\ UNCHANGED <<buffer, head, tail, character, reg, last>>

ReaderLoad ==
    /\ InReader("decrement") /\ SplitDecrement
    /\ reg' = (count - 1) % 256 /\ reader' = "store"
    /\ UNCHANGED <<ring, character, last>>

ReaderStore ==
    /\ InReader("store")
    /\ count' = reg /\ reader' = "return" /\ reg' = 0
    /\ UNCHANGED <<buffer, head, tail, character, last>>

\* return character (z80_rst_10h also echoes it).
ReaderReturn ==
    /\ InReader("return")
    /\ last' = character /\ reader' = "wait"
    /\ UNCHANGED <<ring, character, reg>>

Reader == \/ ReaderWait \/ ReaderTake \/ ReaderAdvance
          \/ ReaderDecrement \/ ReaderLoad \/ ReaderStore \/ ReaderReturn

-----------------------------------------------------------------------------
Next == \/ \E c \in Chars : KeyTyped(c)
        \/ Poll \/ ClearPending \/ Compute \/ Isr \/ Reader

\* The processor never stops, and instructions of the interrupt handler and of
\* the reader are executed however often the keyboard interrupts.
Fairness == /\ WF_vars(Poll) /\ WF_vars(ClearPending)
            /\ WF_vars(Compute \/ Isr \/ Reader)
            /\ SF_vars(Isr) /\ SF_vars(Reader)

Spec == Init /\ [][Next]_vars /\ Fairness

-----------------------------------------------------------------------------
(* Properties                                                              *)

\* Characters in the ring: the count, less the one the reader has passed.
Occupied == IF reader \in {"decrement", "store"} THEN count - 1 ELSE count

\* In a build with the one-instruction decrement the count agrees with the two
\* indices at every step, so that neither side overruns the other.
RingConsistent ==
    ~SplitDecrement => /\ Occupied \in 0..Size
                       /\ head = (tail + Occupied) % Size

Queue == [k \in 1..Occupied |-> buffer[(tail + k - 1) % Size]]
Out   == IF reader \in {"decrement", "store", "return"} THEN character ELSE last

\* In such a build the ring implements a bounded FIFO queue: characters come out
\* in the order the handler put them in, none twice and none lost.
CQ == INSTANCE CharQueue WITH queue <- Queue, out <- Out,
                              Chars <- Chars \cup {NoChar}
ImplementsQueue == /\ SplitDecrement \/ CQ!Init
                   /\ [][SplitDecrement \/ CQ!Next]_<<Queue, Out>>

\* Keys arrive slower than the handler runs: time and again an instruction
\* outside the handler is executed.
KeyboardPauses == []<>(phase = "exec" /\ isr = "out")

\* A character in the buffer is eventually read, if the keyboard leaves the
\* processor any time.
BufferDrains == KeyboardPauses => (count # 0 ~> reader = "return")

\* The receive interrupt is enabled, so a received character is eventually
\* taken from the ACIA ("if interrupt enabled, fire interrupt").
ReceiveServed == KeyboardPauses => (rdrf ~> ~rdrf)

\* However the decrement is compiled, the count neither passes the size of the
\* buffer nor wraps below zero.
CountBounded == count <= Size

\* The handler never stores a character it did not receive: interrupts that
\* race with the reader, or with the keyboard thread, read the port once.
NoSpuriousChar == isr = "store" => rdrf
=============================================================================
