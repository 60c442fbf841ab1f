-------------------------------- MODULE Edit --------------------------------
(***************************************************************************)
(* The line editor (userland/edit.c) and the file it works on.  A          *)
(* character is a printable one, "n" for newline, "r" for carriage return  *)
(* or "0" for the zeros a block is allocated with.  Lines are typed        *)
(* through the console and are shorter than the buffer they are read into. *)
(*                                                                         *)
(* lseek(filefd, 0, SEEK_SET) does not rewind: the programs' SEEK_SET is   *)
(* 0, the kernel's 1, and for a whence it does not know mfs_seek sets pos  *)
(* to 0 and the cursor to an offset it never assigned.  The file and the   *)
(* text lie in one block of ROOM bytes: transfers that run over the end of *)
(* a block are in module MFS.                                              *)
(***************************************************************************)
EXTENDS Console

CONSTANTS
  MAX_LINES, MAX_LINE_LEN,
  TypedKeys,         \* the key sequences typed for a line
  FileImages,        \* the contents of the files on the disk
  ROOM,              \* payload bytes of the file's block
  Unassigned         \* what the offset that mfs_seek does not assign may be; ROOM: behind the file's block

ASSUME OffsetsInReach == ROOM \in Nat /\ Unassigned \subseteq 0 .. ROOM
ASSUME FilesFit == \A bytes \in FileImages : Len(bytes) < ROOM
ASSUME LinesFit == \A keys \in TypedKeys : Len(kgetslen(keys, MAX_LINE_LEN)) < MAX_LINE_LEN

VARIABLES
  ed,                \* the editor's variables, Off when it is not running
  file               \* the size and the block of the file it has open, Unopened if none

Off == [phase |-> "off"]
Unopened == [size |-> 0, block |-> <<>>]
Stored(bytes) ==
  [size |-> Len(bytes), block |-> [k \in 1 .. ROOM |-> IF k <= Len(bytes) THEN bytes[k] ELSE "0"]]
BlankLines == [k \in 1 .. MAX_LINES |-> <<>>]

\* strcpy and strlen stop at the first zero.
CString(buf) ==
  LET zeros == {k \in DOMAIN buf : buf[k] = "0"} IN IF zeros = {} THEN buf ELSE SubSeq(buf, 1, Min(zeros) - 1)

\* Mutant: the buffer position is not reset behind a line.
load_file_NoReset(bytes) ==
  LET Flush(r) == [r EXCEPT !.lines = IF Len(@) < MAX_LINES THEN Append(@, CString(r.buf)) ELSE @]
      Step(r, c) == CASE c = "r" -> r
                      [] c = "n" -> Flush(r)
                      [] OTHER -> IF Len(r.buf) < MAX_LINE_LEN - 1 THEN [r EXCEPT !.buf = Append(@, c)] ELSE r
      end == FoldLeft(Step, [buf |-> <<>>, lines |-> <<>>], bytes)
  IN  IF end.buf = <<>> THEN end.lines ELSE Flush(end).lines

\* Carriage returns are skipped, characters that do not fit and lines behind the last one
\* dropped; a last line without a newline counts if it is not empty.
load_file(bytes) ==
  LET Flush(r) == [r EXCEPT !.buf = <<>>, !.lines = IF Len(@) < MAX_LINES THEN Append(@, CString(r.buf)) ELSE @]
      Step(r, c) == CASE c = "r" -> r
                      [] c = "n" -> Flush(r)
                      [] OTHER -> IF Len(r.buf) < MAX_LINE_LEN - 1 THEN [r EXCEPT !.buf = Append(@, c)] ELSE r
      end == FoldLeft(Step, [buf |-> <<>>, lines |-> <<>>], bytes)
  IN  IF end.buf = <<>> THEN end.lines ELSE Flush(end).lines

Text(lines) == FlattenSeq([k \in DOMAIN lines |-> Append(lines[k], "n")])
Shown == SubSeq(ed.lines, 1, ed.num)

\* The bytes that mfs_read delivers one by one from the cursor on: as many as the size says,
\* and not over the end of the block.
Delivered(f, at) ==
  IF at >= ROOM THEN <<>> ELSE SubSeq(f.block, at + 1, IF at + f.size < ROOM THEN at + f.size ELSE ROOM)

Overlaid(block, at, text) == [k \in 1 .. ROOM |-> IF k - at \in DOMAIN text THEN text[k - at] ELSE block[k]]
\* Mutant: the cursor is left behind the last byte.
Saved_Append(f, at, text) ==
  [size |-> f.size + Len(text), block |-> Overlaid(f.block, at + f.size, text)]

\* The text is written from the cursor on and counted from position 0; the other bytes stay.
\* Behind the end of the file's block a new block is allocated, which becomes its first one.
Saved(f, at, text) ==
  [size |-> IF Len(text) > f.size THEN Len(text) ELSE f.size,
   block |-> IF at >= ROOM /\ text # <<>> THEN Stored(text).block ELSE Overlaid(f.block, at, text)]
----------------------------------------------------------------------------
EditInit == ed = Off /\ file = Unopened

\* main: the file of the first argument is opened, or created, and read from where the cursor
\* is.  Without one, or if it cannot be opened, the descriptor is -1 and every transfer fails.
EditStart(named, opened, bytes, at) ==
  LET found == IF named /\ opened THEN load_file(Delivered(Stored(bytes), at)) ELSE <<>>
  IN  /\ ed = Off
      /\ ed' = [phase |-> "command", fd |-> named /\ opened, num |-> Len(found),
                lines |-> [k \in 1 .. MAX_LINES |-> IF k <= Len(found) THEN found[k] ELSE <<>>],
                intact |-> at = 0]
      /\ file' = IF named /\ opened THEN Stored(bytes) ELSE Unopened

\* A bound of the model: the text ends inside the block it begins in.
InOneBlock(at, text) == (IF at >= ROOM THEN 0 ELSE at) + Len(text) < ROOM

\* w: the position is set to 0, the cursor to at, and the lines are written.
EditWrite(at) ==
  /\ ed.phase = "command"
  /\ InOneBlock(at, Text(Shown))
  /\ file' = IF ed.fd THEN Saved(file, at, Text(Shown)) ELSE file
  /\ ed' = [ed EXCEPT !.intact = @ /\ at = 0]

EditAppend ==
  /\ ed.phase = "command"
  /\ ed' = [ed EXCEPT !.phase = "append"]
  /\ UNCHANGED file

\* A line in append mode: a dot or a full editor ends it.
AppendLine(keys) ==
  LET buf == kgetslen(keys, MAX_LINE_LEN)
  IN  /\ ed.phase = "append"
      /\ ed' = IF buf = <<".">> \/ ed.num >= MAX_LINES THEN [ed EXCEPT !.phase = "command"]
               ELSE [ed EXCEPT !.num = @ + 1, !.lines[ed.num + 1] = buf, !.intact = FALSE]
      /\ UNCHANGED file

\* The number is checked against the size of the array, not the number of lines.
EditLine(line, keys) ==
  /\ ed.phase = "command"
  /\ ed' = IF line \in 1 .. MAX_LINES
           THEN [ed EXCEPT !.lines[line] = kgetslen(keys, MAX_LINE_LEN), !.intact = FALSE] ELSE ed
  /\ UNCHANGED file

\* q: the file is closed.
EditQuit == ed.phase = "command" /\ ed' = Off /\ file' = Unopened

EditStep ==
  \/ \E at \in Unassigned : EditWrite(at)
  \/ EditAppend
  \/ \E keys \in TypedKeys : AppendLine(keys) \/ \E line \in 0 .. MAX_LINES + 1 : EditLine(line, keys)
----------------------------------------------------------------------------
\* A line that enters the text is the line that was typed, with what was taken back gone,
\* however backspaces and characters alternate.
LineAsTyped ==
  [][\A keys \in TypedKeys :
       AppendLine(keys) /\ ed'.num > ed.num /\ Ordinary(keys, MAX_LINE_LEN) =>
         ed'.lines[ed'.num] = EditedLine(keys)]_<<ed, file>>

\* The lines that opening the file again shows when it is read from its first byte.
LinesOf(f) == load_file(Delivered(f, 0))

\* Whenever the cursor happens to be at the start, the lines a save writes are those that
\* opening the file from its start shows first, whatever the file held before and however it
\* was longer: no line is lost, split or joined with the next one.
RewoundSaveReturns ==
  [][EditWrite(0) /\ ed.fd => SubSeq(LinesOf(file'), 1, ed.num) = Shown]_<<ed, file>>

\* Whenever both seeks happen to come to the start, saving what was not edited keeps the file
\* but for a newline at its end, unless it has carriage returns, lines too long or too many.
BytesOf(f) == Delivered(f, 0)
Newlines(bytes) == {k \in DOMAIN bytes : bytes[k] = "n"}
Fits(bytes) ==
  /\ {"r", "0"} \cap Range(bytes) = {}
  /\ \A k \in 1 .. Len(bytes) - MAX_LINE_LEN + 1 : \E j \in k .. k + MAX_LINE_LEN - 1 : bytes[j] = "n"
  /\ Cardinality(Newlines(bytes)) + (IF bytes # <<>> /\ Last(bytes) # "n" THEN 1 ELSE 0) <= MAX_LINES
UneditedSaveKeeps ==
  [][EditWrite(0) /\ ed.fd /\ ed.intact /\ Fits(BytesOf(file)) =>
       BytesOf(file') \in {BytesOf(file), Append(BytesOf(file), "n")}]_<<ed, file>>

\* What doc/syscalls.md says of SEEK_SET(0), "absolute", and edit.c of its seek, "zero
\* position": a save writes from the first byte on, so that the saved lines are there again.
SavedLinesReturn ==
  [][\A at \in Unassigned : EditWrite(at) /\ ed.fd => SubSeq(LinesOf(file'), 1, ed.num) = Shown]_<<ed, file>>
=============================================================================
