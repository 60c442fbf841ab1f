# Manux in TLA+

Manux is a small monotasking operating system for the Z80: a kernel with a
FAT-like file system (MFS), a descriptor table, an interrupt-driven terminal
driver and system calls, a shell and a few programs on top, a host tool for disk
images, and an emulator (bemu80) with a serial port and a floppy controller.
This directory holds TLA+ models of its core, the TLC runs that check them and
TLAPS proofs about them.

## The system and its parts

| Part | State | Operations | Talks to | Modelled by |
|---|---|---|---|---|
| MFS (`fs/mfs.c`) | root sector, block bitmap, file entries in memory and on disk; data blocks on disk | open, close, read, write, seek, delete, sync, list, filesize, `load_executable` | descriptor table, disk driver | `MFS`, `MFSCrash`, `MfsUtil` |
| Descriptor table (`fs/fd.c`) | `fd_table[8]`, `fd_count` | init, get, alloc, create, close | MFS (each calls the other's close) | `MFS` |
| TTY driver (`driver/tty.c`) | ring buffer, head, tail, count | receive interrupt, `tty_getchar`, rst 10h | ACIA ports, readers in the kernel | `TTY`, `CharQueue` |
| bemu80 serial port and loop (`bemu80/bemu80.c`) | `acia`, `interrupt_pending`, `iff1` | keyboard thread, `execute`, `interrupt`, port handlers | shares `interrupt_pending` between two threads | `TTY`, `Z80` |
| bemu80 processor core | registers, flags, memory | the instruction groups and prefixes | ports | `Alu`, `Z80` |
| Disk driver, floppy controller (`driver/disk.asm`, `fdc_cmd`) | lba, dma, count, status, the image | read, write | MFS | `Z80`, `Firmware`; atomic steps of `MFS` |
| Kernel start and exec (`kernel/kernel.c`) | program information header | `kernel_main`, `execv`, `exec_init` | MFS, dispatch | `Exec`, `MFSCrash` |
| System call dispatch (`kernel/system_call.asm`, `kmain.asm`) | `KERNEL_SP`, `SHELL_SP`, `SAVED_SP`, `SYSCALL_RET` | one entry per call, exit and execv switch stacks | everything | `Exec` |
| Console (`kernel/kstdio.c`) | line buffer | `kgetslen`, `kputs`, ... | TTY | `Console` (`kgetslen`) |
| Wrappers (`sys/`) | none | load registers, trap | dispatch | `Exec` (`syscall`, `execv`, `_exit`) |
| mfs-util (`mfs-util.c`) | the disk image | format, list, write, read, delete | the disk the kernel boots from | `MfsUtil` |
| Shell (`userland/shell.c`) | the command line | builtins, `./name` | system calls | `Exec` |
| Editor (`userland/edit.c`) | the line table | a, e, p, w, q | console, files | `Edit` |
| Calculator (`userland/ecalc.c`) | `result` | one expression per line | console | `ECalc` |
| Assembler (`userland/m80asm.c`) | labels, pc, pass | two passes | files | `M80asm`, `AsmRun` |

What is hard here: a system call is a sequence of disk writes and power may go
between any two of them; descriptors keep block numbers that other calls make
stale; tables and 16-bit words have limits; the terminal ring is shared by an
interrupt handler and a reader that does not disable interrupts; and the
emulator's keyboard thread and processor loop share a flag. `PROJECT.json` lists
each of these hazards at its line, with the properties that guard it.

What makes each part correct:

* MFS: no block belongs to two chains and no chain loops; a block in use is
  marked; the file count is exact; a transfer stays inside the sector buffer;
  every call returns; a descriptor reaches only its own file; what is on disk is
  good enough for the next boot.
* Descriptors: they refer to entries of the table; the count is exact.
* TTY: characters come out in order, none twice, none lost between port and
  reader; a received character is served; a waiting reader is woken.
* Processor: flags and results of the arithmetic that compiled code builds on;
  interrupted block instructions finish; the ROM is not written.
* Disk driver: exactly the sectors asked for are moved, also when interrupts
  arrive while the controller is being loaded.
* Exec and dispatch: no call leaves anything on the kernel's stack, `exit`
  returns to the shell, a program sees the words of the command line.
* mfs-util: what was stored reads back on the host and in the kernel.
* Assembler: the passes agree, and the code does what the lines say.
* Editor, calculator: saved lines come back; a line has its documented value.
* All programs: the values they pass in system calls mean the same to the kernel.

## Modules

### `MFS`

The kernel runs one system call at a time. `call` is the record of locals of the
handler in progress; its `pc` is the disk write or loop head the handler has
reached. A handler is cut at its disk writes and loop iterations, because that is
where a power cut or an endless loop would show; memory updates around a disk
write belong to the step of that write.

| Source | Here |
|---|---|
| `fs`, `block_bitmap`, `files` | `filecount`, `bitmap`, `files` |
| the same sectors on disk | `dfilecount`, `dbitmap`, `dfiles` |
| data sectors (next pointer, `BLOCK_SIZE - 4` bytes) | `blk` |
| `fd_table`, `fd_count` | `fd_table`, `fd_count` |
| `mfs_open` | `OpenExisting`, `OpenMissing`, `OpenNoRoom`, `OpenCreate`, tail in `OpenFd` |
| `write_changes` | `WriteRoot`, `WriteBitmap`, `WriteEntries` (which also ends the calling handler) |
| `fd_close` / `mfs_close` | `fd_close`, `CloseFd` |
| `mfs_read` | `mfs_read`, `ReadBlock`, `ReadDone` |
| `mfs_write` | `mfs_write`, `WriteAlloc`, `WriteFull`, `WriteLink`, `WriteData`, `WriteDone` |
| `mfs_seek` | `mfs_seek`, `SeekBlock`, `SeekDone` |
| `mfs_delete` | `mfs_delete`, `DeleteBlock`, `DeleteEntry` |

Searches are relations (`find_file(n, i)`: the loop stops at entry `i`), so the
module needs no recursion and can be proved about. Names are model values.
`Stored` is what `strncpy` of eleven characters makes of a name. Access mode 3 assigns
no `pos`, and an unknown `whence` assigns no `offset`: both are then any word. The
root fields that never change are constants; `id` and the entry's `flags` are never
read and are left out.
`O_TRUNC` has no effect in the code and no counterpart here. The name of a zeroed
entry, the empty string, is not among the names programs pass.

`Names`, `OpenFlags`, `Whences`, `SeekPos`, `Counts` and `DeleteOpen` bound what
programs do, not what the kernel does.

### `MFSCrash`

`MFS` with `Restart`: at any step the machine loses its memory, and `kernel_main`
loads root, bitmap and entries as the disk holds them.

### `TTY` and `CharQueue`

`TTY` has three actors. The keyboard thread (`KeyTyped`) runs at any time, under
its mutex. The processor alternates between polling `interrupt_pending`
(`Poll`, `ClearPending`) and one instruction (`Execute`), which belongs to the
interrupt handler while it runs, otherwise to the reader, or touches nothing
shared (`Compute`). `SplitDecrement`, chosen in the initial state, says how the
compiler renders `*tty_buffer_count = *tty_buffer_count - 1`: as one instruction on memory, or as a
load and a store. `CharQueue` is what the driver promises, a bounded FIFO;
`ImplementsQueue` is the refinement, for the one-instruction decrement. In its mapping a character leaves the queue
when the tail passes it.

The initial state follows `tty_init`: head and tail start at the low byte of the
buffer's address, not at 0. The assumption `RingAssumption` asks that
this byte be an index of the ring, as it is for 0x2106 and 250 bytes.

### `Alu`, `Z80`, `Firmware`

`Alu` holds the arithmetic of bemu80 as operators from flags and operands to a
result and flags; the flag register is the set of flags that are 1. `Z80` is the
machine as one record. `step` fetches and dispatches as the code does, into
`group_x0`, `op_load`, `op_alu`, `group_x3` and the prefixes; `output_handler` and
`input_handler` lead to the floppy controller (`fdc_cmd`) and the ACIA. `Unseekable` are
the sectors at which the host's `fseek` fails, which ends the command with an error;
`Unwritable` those at which `fputc` fails, which nobody reports. The actions
are `execute` (the poll, then one instruction) and `KeyTyped` (the input thread).
What differs from a real Z80 is kept as the code has it (see the observations).

`Firmware` puts machine code in the ROM: the bytes of `disk.asm`, and short
routines made of the instruction sequences that the C compiler and the kernel use
(multi-byte add, subtract and compare, LDIR, LDDR, CPIR, CALL in a DJNZ loop). Its
interrupt handler stores the key at a fixed address; the ring is `TTY`'s subject.
`SweepRom` runs every opcode behind every prefix with all pointers at the last
byte of the ROM.

### `M80asm`, `AsmRun`

`M80asm` is the assembler. A source line is given as operation and operands; an
operand is its text, with `num` and `lab` standing for any numeral or label. Each
operation has the list of its rules in the order of the code, and the first that
applies decides the bytes, as the chain of `if`s does.

Each pass begins with `lseek(infd, 0, SEEK_SET)`, and on Manux that does not rewind (see
`Edit` below). `Beginnings` are the places a pass may begin at: any line, or inside one,
whose rest then reads as some other line (`head`, from the set `Tails`). `rewound` records
whether both passes began at the first byte, as they do where m80asm is built for Linux.

`AsmRun` composes the assembler with `Z80`: the output of a rewound source is placed at its
origin and run, and `RunsAsWritten` compares each instruction with what its line says:
`Effect` on the values, `Keeps` on the registers it does not name, `Target` for where it
goes on. This meaning is written from the mnemonics, without use of the rules or the
decoder, and covers every instruction of the assembler but DAA, which bemu80 does not
implement. Lines whose operand the assembler does not know but accepts are named in
`MisreadFirst` and `MisreadSecond`; they are compared with what they do when the operand
is 0 (`TakenFor`).

### `MfsUtil`

One action is one run of the host tool. Allocation, the entry table and the chains
are the tool's; `KernelFind` is the kernel's search, which sees the first
`filecount` entries only. A file is loaded byte by byte position: byte k of a file is
byte k modulo D of the sector k div D steps along its chain. `stored`, `deleted` and `astray`
record history for the properties and are read by no action.

Sizes keep their C types. `Kept` is what the `uint16_t` length leaves of a host file,
`SectorsFor` counts its blocks with an `int16_t` and a `uint8_t`: none for an empty file
and for one of 32768 bytes or more, whose first block is then whatever the uninitialised
`block_sectors[0]` holds. `Overrun` is a file longer than `fs_program_buf` (`BUF`, 16384
bytes), stored or loaded: the copy runs over the buffer's end, and the run leaves the image
as a whole save would, as it was, half done or not an image at all. Both set `astray` until
the image is formatted again.

### `Exec`, `Console`, `Edit`, `ECalc`, `Userland`

`Exec` has the three stacks in one memory, and the words in which the kernel keeps
stack pointers. A system call is one action: nothing but interrupts, which leave
the stacks as they find them, comes between its instructions. The handlers are operators that
push and pop as the assembler code does, so that a path that leaves a word behind
shows; calls of C functions push three arguments (`SYS_WRITE`), two (`SYS_OPEN`) or none
(`SYS_CLOSE`). `exec` loads the new program before it reads `argv`: the shell's lies
elsewhere, but that of a user program may have been overwritten by then, so what a nested `execv` passes on
is any vector. User programs are any sequence of pushes, pops, calls, `execv` and `exit`.
`BuildPih` writes the argument block byte by byte, because the question is whether
strings and pointer table meet; `CrtTable` is how the start-up code finds it.

`Console` is `kgetslen` as a fold over the keys typed; `Edit` and `ECalc` are the
editor and the calculator, and `Userland` lets the shell start them: each of their
steps makes a system call through `Exec`.

The editor's `lseek(filefd, 0, SEEK_SET)` does not rewind. Programs number the whence values
0, 1, 2 (`include/sys/fcntl.h:19`), the kernel 1, 2, 3 (`include/fs/mfs.h:39`), and for a
value it does not know `mfs_seek` sets `pos` to 0 and moves the cursor by an offset it has
not assigned. The editor's file is therefore a size and one block of `ROOM` bytes, and each
load and save begins at some offset of `Unassigned`: reads end at the size or the block's
end, writes overlay the block and count the size from 0, and behind the block a write
allocates a new one, which replaces it.

`ECalc` evaluates tokens by the code's recursion; `Meaning` is the reference, which
splits a line at its loosest operator.

### `MC*`

Instances for TLC. `MCMFSCalls` adds a budget of system calls so that a larger
disk can be explored.

## Runs

| Run | Instance | Shows |
|---|---|---|
| `mfs_full` | 2 blocks of 1 byte, 2 entries, 1 descriptor, words modulo 3, complete state space | `TypeOK`, `SinglyLinked`, `LinkedMarked`, `FilecountExact`, `CursorInBlock`, `CallsReturn`, with deletes of open files and unknown whence |
| `mfs_calls` | 3 blocks of 2 bytes, 2 descriptors, 8 calls, transfers of 1 and 2 bytes, seeks to 0 and 1 | `FilesSound`, `DescriptorsIsolated`, `DiskEntryMarked`, no delete of an open file |
| `mfs_crash` | 2 blocks, 1 entry, restarts at every step | `CursorInBlock`, `CallsReturn` |
| `tty` | ring of 3, 2 characters, both decrements | `TypeOK`, `NoSpuriousChar`, `CountBounded`, `BufferDrains` for both; `RingConsistent`, `ImplementsQueue` for the one-instruction decrement |
| `z80` | 176 bytes of memory, sectors of 4 bytes, one of them unwritable, one beyond the host's `fseek`, 2 keys, about 1,850 ROMs | `TypeOK`, `AdditionAgrees`, `SubtractionOrders`, `BlocksMoved`, `DriverTransfers`, `StackBalanced`, `RomIntact`, `RoutinesEnd` |
| `asm` | some 440 sources, code at 288, passes begin at any line or inside one | `PassesAgree`, `RunsAsWritten` |
| `host` | 8 data sectors of 2 bytes, 3 entries, 4 names, a buffer of 3 bytes, `uint8_t` modulo 4, `uint16_t` modulo 10 | `ReadsBack`, `KernelLoads`, `SectorsDisjoint` |
| `userland` | 2 lines of 2 characters, 3 arguments in 18 bytes, 2 words on a user stack, 2 evaluations, a file block of 8 bytes with seeks to 0, 1 and behind it | `StacksBalanced`, `ExitReturnsToShell`, `ArgumentsArrive`, `LineAsTyped`, `RewoundSaveReturns`, `UneditedSaveKeeps`, `CalculatesMeaning` |
| `mfs_find` | violated | `FindsEveryFile`: "filecount should be fine" (`fs/mfs.c:102`) |
| `tty_irq` | violated | `ReceiveServed`: "if interrupt enabled, fire interrupt" (`bemu80/bemu80.c:200`) |
| `exec_exit` | violated | `AlwaysReturnsToShell`: "exit to the shell/init when a program is done" (`doc/syscalls.md:54`) |
| `edit_seek` | violated | `SavedLinesReturn`: "SEEK_SET(0), SEEK_CUR(1), SEEK_END(2)" (`doc/syscalls.md:163`) |

Every passing property is also shown to fail under a small change of the code's
model (the definitions named `X_Mutation` beside `X`).

Bounds. Two blocks are enough for a chain to have a middle, for the disk to fill
up in a write and for a deleted block to be taken by another file; blocks of one
byte make every byte a block boundary, and the run with blocks of two bytes seeks to and
transfers from offsets inside a block, within it and over its end. Two entries give a hole in the table. A one-slot
descriptor table is full after one open; the second descriptor of `mfs_calls`
lets two cursors extend one file. `mfs_calls` stops after eight calls (two opens,
writes, a close, a delete and a reuse); a behaviour ends there, so deadlock is not
checked in that run. Words wrap inside the small moduli. `fd_count` is read by
nothing and is kept modulo 1. A ring of three has a
full, an empty and two partial states at every rotation.

`z80` tries the arithmetic on 0, 255, 32768 and 65535, where carries and signs
change, block instructions and transfers on counts 0 to 2, with and without a disk,
and lets two keys arrive between any instructions, so that an interrupt can meet the
handler of another. Transfers begin at sectors 0, 2 and 4: two sectors from 0 meet one
that cannot be written, two from 2 one to which the host cannot seek, behind which the
command ends, and those from 4 lie behind the image. `asm` loads at 288 because JR takes numbers below 256 for
offsets (programs start at 5000h); its label table has room for two, so that a third overflows it, and only
programs whose source was read from the first byte in both passes are started.
`host` has eight sectors so that the image fills up while a file is being replaced,
and a fourth name so that the table does. Its host files have 0 bytes, fit the buffer, are longer
than it, are negative as an `int16_t` and pass the range of a `uint16_t`; the constraint `Explored`
does not follow runs behind one that went astray, of which the properties say nothing. In `userland` a fourth argument,
a third line and a third character are each one too many, and the longest argument
strings reach up to the pointer table.
Deadlock is not checked in `z80`, `asm` and `userland`: HALT, the end of a program
and a kernel panic stop the machine.

Across power cuts `SinglyLinked` and `FilesSound` do not hold: a write links
blocks on disk at once, but the bitmap is saved only at close or sync. Nothing in
the repository claims they do. `mfs_crash` checks what is left: calls return
because delete erases a block before it follows its pointer, and reads and
writes are bounded by their counts.

Fairness. `WF(KernelStep)`: nothing else has the processor during a call. In `TTY`,
weak fairness of the processor loop, and strong fairness of the handler's and the
reader's instructions: they are enabled only between polls, and the loop always
comes back to an instruction. `KeyboardPauses` is a hypothesis of the liveness
properties, not part of the specification: keys do not arrive so fast that no
instruction outside the handler is ever executed. In `Z80`, weak fairness of `execute`:
the emulator's loop runs until HALT, and the other thread holds the mutex only to
store a character. The number of keys is bounded there (`MaxKeys`).

## Proofs

Every theorem below holds for all values of the constants under the assumptions named in
the modules. TLC checks the same property on the instance of a run.

### The file system

`MFS_proofs`: `TypeCorrect` (`Spec => []TypeOK`) and `CursorStaysInBlock`
(`Spec => []CursorInBlock`). Neither is inductive alone. The invariant is `BaseInv`:
both, plus `FdsOnFiles` (a file descriptor's entry exists) and `CallSound` (a transfer
has its descriptor and its buffer). The cursor matters to the types: only because the
offset is inside the block is the count of bytes moved within the buffer.

`MFS_proofs` also has `ChainsSinglyLinked` (`SinglyLinked`) and `BlocksMarked`
(`LinkedMarked`). The invariant is `LinkInv`: both, plus `NewBlock` (the block a write
has allocated and not yet linked is marked and unpointed) and `DoomedBlock` (the block a
delete is about to erase is pointed to by nothing but its own entry). The two need each
other: an allocated block is unpointed because whatever is pointed to is marked, and a
delete may clear a bit because its block is pointed to only once. The theorems allow
deleting open files and writing through stale descriptors.

`MFSChain_proofs`: `FilesStaySound` (`FilesSound`) follows from single linking without
induction along chains, because `Reach` is the least set of blocks closed under the
pointers: the blocks not reached from a file are closed too, so nothing outside leads in.
`DescriptorsStayIsolated` (`~DeleteOpen => (Spec => []DescriptorsIsolated)`) has the
hypothesis that open files are not deleted; without it the property is false, and the
run assumes the same. Its invariant `HeldInv` says where the block numbers a descriptor
keeps can be: `FdsHeld` (in its file's chain, or in no chain), `SeekHeld`, `FreshBlock`
and `DoomedFree` for the call in progress.

`MFSDisk_proofs`: `FilecountStaysExact` (`FilecountExact`, with `NamedUsed` and
`DoomedUsed`); `DiskStaysMarked` (`DiskEntryMarked`, with `DiskHeads`, `HeadsApart` and
`BitmapSaved`: the entries reach the disk only after the bitmap they need, and what a
delete frees is the first block of no other entry on disk); and
`CursorSurvivesPowerCuts` (`CrashSpec => []CursorInBlock`), where `BaseInv` holds again
after each restart although the chains on disk may be anything.

Assumptions: data sectors do not start at 0, 1 to 255 entries, more than three
descriptors, a block is shorter than the range of a word, the empty name is not passed
by programs.

### The terminal

`TTY_proofs`, for rings of 1 to 255 slots and any first index: `TtyTypeCorrect`,
`CountStaysBounded` and `NothingSpurious` for both renderings of the decrement, from
`TtyInv` (`TypeOK`, `CountBounded`, and what the position of handler, reader and request
implies about the port). `RingStaysConsistent` and `RingImplementsQueue`, the
refinement of `CharQueue`, for the one-instruction decrement, from `RingInv`. The
refinement maps the slots from tail to head to the queue: the handler's advance of the head
is `Put`, the reader's advance of the tail is `Get`, every other step leaves the window
as it is. Lemmas on indices modulo the ring size carry both. Only the safety part of
`CharQueue` is refined; that the buffer drains is `BufferDrains`, under fairness.

### The host tool

`MfsUtil_proofs`, for images, tables and buffers of every size: `SectorsStayDisjoint`
(`SectorsDisjoint`), `StoredIsReadBack` (`ReadsBack`) and `KernelLoadsStored`
(`KernelLoads`). They hold as long as no run goes astray, that is for host files of which
1 to `BUF` bytes are kept (16384 in the code); a longer or an empty file ends what they say
until the image is formatted again. The invariant `Inv` says of an image that is not astray that it is
`Sound`: `Good`; every name with contents has an entry that holds them (`There`); and, until
something is deleted, the used entries are the first `filecount` ones (`Compact`), which is
why the kernel's search sees them all. `Good` contains `Linked`: over all entries, deleted
ones included, and all sectors, no two pointers are equal unless 0, and what is pointed to
is marked. Erasing keeps `Linked` (`LinkedErase`), and so does hanging a list of distinct
free sectors behind an entry (`LinkedAppend`); the sectors that `save_to_disk` takes are
such a list, or it gives up with the entry empty. From `Linked` the chains are apart by the
least step at which two walks meet.

An entry `Holds` bytes when some list of sectors is its chain and sector k has part k of
them. Saving or erasing one entry leaves the others' lists alone because chains are apart,
and loading by position then needs no induction along the bytes. A list of distinct sectors
is no longer than the image (by counting), so the bounded walk reaches its end. Chains and
allocation are recursive functions, so the proof first shows that these functions exist.
Assumptions: contents are sequences of numbers; `filecount` can count a full table;
`BUF` fits `BLOCK_SECTORS` blocks (16384 bytes are 33 blocks of 508, of 64), these a
`uint8_t`, and `BUF` bytes are not negative as an `int16_t`.

### Exec

`Exec_proofs`, for stacks of every size: `CallsBalanceStacks` (`StacksBalanced`) and
`ExitReachesShell` (`ExitReturnsToShell`), about `ExecSpec`: the shell and programs that push, pop,
call, start others and exit. The invariant `StackInv` adds what the saved words hold:
`KERNEL_SP` the top of the kernel's stack, `SHELL_SP`, until a program starts another,
the word with the return behind the shell's `execv`, and on the user stack only returns
into the program. A step of `Userland` moves the stacks only through
the operators of `Exec`, but `Userland` reaches a RECURSIVE module, so the theorems are about `ExecSpec`
and the run about `Userland`. Assumptions: the stacks lie apart with room for the words
a call pushes.

`ArgumentsReachProgram` (`ArgumentsArrive`), for argument blocks of up to 256 bytes and every
number of arguments: the strings that `BuildPih` writes lie one behind the other and end
before the pointer table, so reading from each pointer up to the zero returns the word that
was typed, and the start-up code finds the table where `exec` has put it. The offsets of the
strings are a recursive function, shown to exist and to increase by the least place where it
would not. The invariant adds to `StackInv` that the header and the started name belong to
the shell's last line whenever the program is at its start. Assumption: a typed line fits
(`LineAssumption`; the shell's buffer is shorter than the room in front of the longest table).

### The processor

`Z80_proofs`, for every ROM, floppy image, set of keys, memory size up to 65535 and
rom_size: `Z80TypeCorrect` (`TypeOK`) and `RomStaysIntact` (`RomIntact`). `TypeOK` is not
inductive: memory is loaded from the disk, interrupts need the flip-flops, and OUT the
serial port, so the invariant is that the whole record is in `Machine`, whose disk is a
function from sector numbers to sectors of bytes. `Keeps(o, t)` says that t is such a
record with the ROM of o. There is one lemma per operator of `Alu`, one per group of
instructions, and each shows that the operator leads from a machine that keeps o's ROM to
one that does; the step of the loop composes them. A transfer is a recursion on the
number of sectors: the function exists (its beginnings do, and agree), and the least
number of sectors after which the ROM were changed leads to a contradiction. The
assumption `BytesAssumption` says that images are made of whole sectors of bytes.

`WordsAddByHalves` and `WordsSubtractByHalves` are about `Alu` alone, for all words: adding or
subtracting byte by byte with the carry computes what the 16-bit instruction computes, and
C, and S with P/V, order the operands as the compiler's comparisons assume. They are the
arithmetic behind `AdditionAgrees` and `SubtractionOrders`, which TLC checks on four
words for the routines that use these instructions.

### The assembler

`AsmRun_proofs`, for sources of every length with any operands: `PassesStayAgreed`
(`CodeEndsLow => (RunSpec => []PassesAgree)`), where `PassesAgree` speaks of passes that
both begin at the first byte. The heart is `LengthKept`: a line that a pass
accepts is as long as it is in the first pass, where no label is known. Replacing a label by
its address below 8000h leaves every question of the rules about the operand as it was
(`ResolvedAlike`), so the same rule applies in both passes (`RulesMatch`, `SameChoice`), and
a rule's length depends on its operands only through those questions; JR and RST are the
exceptions, which fail rather than change their length. `Place` is the address of each line by these
lengths, and the invariant `AsmInv` says that, as long as the source is `rewound`, a pass without errors is at the place of its
line (`OnPlace`), that the first pass has an entry for each label it has passed (`Recorded`),
and that the entry found for a name holds the place of the line that defines it first
(`LabelsPlaced`).

The hypothesis `CodeEndsLow` (origin and four bytes for each line stay below 8000h) came
out of the proof: from 8000h on an address is a negative `int`, which `mem_addr`'s callers take
for "not an address", and only in the second pass. `HighLabelsShorten` proves this of
LD A,(label), for every address from 8000h to FFFEh: three bytes in the first pass, two in
the second, accepted by both. The labels behind such a line are off by one in the second pass; the comment on `emitb`, "increment pc even when not generating,
needed for labels" (`userland/m80asm.c:66`), does not reckon with it. The only other assumption is the
type of the sources.

### What is only model-checked

* Liveness (`CallsReturn`, `BufferDrains`, `RoutinesEnd`), out of the prover's reach.
* The calculator, `Userland` and what the console and the editor do in it
  (`CalculatesMeaning`, `LineAsTyped`, `RewoundSaveReturns`, `UneditedSaveKeeps`): `ECalc`
  declares RECURSIVE operators and uses bit operations, which the prover does not handle.
* What the routines of `Firmware` compute (`AdditionAgrees`, `SubtractionOrders`,
  `BlocksMoved`, `DriverTransfers`, `StackBalanced`) and what assembled code does
  (`RunsAsWritten`): they run given machine code step by step, and a proof would be one about
  each program. The arithmetic of the first two is proved for all words.

## Observations

What the models reproduce because the code does it, and what no run is about, since
no document of the repository says otherwise or the effect is local:

* MFS. A relative seek stores and returns its argument, not the position it moved to
  (`fs/mfs.c:386`), whatever the comment "return the new position" (`:389`) says. `O_APPEND` sets `pos` to the end and the cursor to the start, where the
  bytes go (`:223`); `O_TRUNC` has no effect (`:214`). A write at the end of a chain
  after reads or a seek links the new block at a stale place, and blocks of the file are
  lost to it (`:284`, `:317`). `fd_close` of a file counts down twice (`fs/fd.c:49`).
* TTY. If the decrement of the count is two instructions, an interrupt between them
  loses a count (`driver/tty.c:77`), and a character stays behind in the ring.
* bemu80. Behind CB, RR is computed by `rl8` (`bemu80/bemu80.c:1638`, `:1864`); DDCB and FDCB
  never write the result back (`:1893`); `adc16` takes its overflow from the formula for
  subtraction; DAA does nothing; CPI changes C; EI acts at once. A sector that cannot be
  written (`fputc`, `:363`) is reported as written.
* Assembler. Labels from 8000h are negative numbers: after an absolute load from one
  the two passes disagree (theorem `HighLabelsShorten`). "Too many labels" ends the first
  pass only. RST accepts any number. An operand it does not know reads as 0: LD A,(HL)
  and LD (HL),A become accesses to address 0, because `mem_addr("(HL)")` is 0 (`userland/m80asm.c:380`),
  so the rule "both are registers" (`:422`) does not see them; LD of BC, DE, SP, IX or IY
  from (nn) loads 0, as does LD A,I and LD A,R; ADD to CP with (IX+d) or (IY+d) take
  the number 0; JP (IX) jumps to 0; IN A,(C) and OUT (C),A use port 0.
* Calculator. The comment on precedence (`userland/ecalc.c:120`) has OR, AND, XOR loosest; in the
  code `+` and `-` are loosest, XOR is looser than AND, and each bitwise operator is
  taken once. `CalculatesMeaning` leaves out lines where this matters. A division
  by zero is reported and then done.
* Editor. Saving never shortens the file; `e` beyond the last line is not saved. Where a
  save or a load begins is not defined (`edit_seek`); the assembler's passes likewise.
* Shell and exec. `exit` closes no descriptors. Exit code -1 is reported as a missing file
  (`userland/shell.c:125`). After a program has started another one, `exit` returns into the
  user stack, which the second program has overwritten (`exec_exit`). Sixteen arguments of
  209 bytes or more in all, which only a program can pass, meet the pointer table
  (`kernel/kernel.c:53`).
* Console. A full line has its terminator behind the buffer, and a backspace as
  first key stays in the line (`kernel/kstdio.c:53`, `:61`).
* mfs-util. A file that is empty or has 32768 bytes or more gets an uninitialised first block
  (`mfs-util.c:304`, `:345`). Above 16384 bytes the buffer is overrun (`:439`, `:286`). Of a
  file of 65536 bytes or more the length modulo 65536 is stored (`:601`), and "Wrote %ld
  bytes" prints the whole (`:607`). Delete keeps name, used flag and bitmap bits (`:481`).

## Not modelled

* Sector contents other than next pointer and data, and disk errors in `MFS`: the code
  looks at the status only in `mfs_init`.
* Output and printing, in the kernel (`kputs`, `kputh`), the programs and the host tool.
* Cycle counts and pacing, breakpoints, debug output and command-line options of bemu80.
* How text becomes tokens: line splitting and numeral formats of the assembler,
  tokens of the calculator, parsing of the shell's line into words.
* What lies behind the end of the editor's or the assembler's file when a read begins beyond
  its first byte: the zeros of a fresh block, for the assembler empty lines.
* The loops of SYS_GETS and SYS_PUTS, and SYS_RAND.
* The remaining wrappers of `sys/`, which load registers and trap, and the terminal
  drivers of the C library.
* `load_executable` for files of 32768 bytes or more, where its 16-bit size is negative.

## Plan

Modelled: the file system with power cuts, the terminal, the processor with the disk
driver, exec and dispatch, the host tool, console, shell, editor, calculator and
assembler. What is left:

* `FileStore`: a file as a byte array, and for which call sequences `MFS`
  implements it (append, seek and read-then-write are the interesting ones).
