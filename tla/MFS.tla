-------------------------------- MODULE MFS --------------------------------
(***************************************************************************)
(* The Manux file system (fs/mfs.c) and its file descriptor table          *)
(* (fs/fd.c), as the system calls of a monotasking kernel use them.        *)
(*                                                                         *)
(* The kernel runs one system call at a time.  A handler is split at its   *)
(* disk writes and at the iterations of its loops: the call in progress is *)
(* the record `call', and every step performs at most one disk write       *)
(* together with the memory updates around it.  The disk is the copy a     *)
(* restart would load: the root sector (dfilecount), the bitmap sector     *)
(* (dbitmap), the file entry sector (dfiles) and the data blocks (blk).    *)
(*                                                                         *)
(* The helpers that search a table are relations: find_file(n, i) says     *)
(* that the loop of find_file stops at entry i.                            *)
(***************************************************************************)
EXTENDS Integers, Sequences, FiniteSets

CONSTANTS
    DataStart,      \* fs->data_start_sector
    TotalSectors,   \* fs->total_sectors
    MaxFiles,       \* fs->max_files
    FdMax,          \* FD_MAX, the size of fd_table
    D,              \* BLOCK_SIZE - 4, the data bytes of a block
    WordMod,        \* uint16_t arithmetic is modulo this
    CountMod,       \* fd_count, which nothing reads, is kept modulo this
    Names,          \* file names, as far as MAX_FNAME_LEN characters tell
    EmptyName,      \* the name of a zeroed entry
    Stored,         \* Stored[n]: n after strncpy of MAX_FNAME_LEN-1 characters
    Bytes, Zero,    \* byte values, and the one memset leaves
    OpenFlags,      \* the flags programs pass to open
    Whences, SeekPos, \* the whence and pos values programs pass to seek
    Counts,         \* the transfer sizes programs pass to read and write
    DeleteOpen      \* whether programs delete files that are open

Word == 0..(WordMod - 1)                   \* uint16_t

ASSUME SectorAssumption ==
    /\ DataStart \in Nat \ {0} /\ TotalSectors \in Nat
ASSUME TableAssumption ==
    /\ MaxFiles \in 1..255 /\ FdMax \in Nat /\ FdMax > 3
ASSUME WordAssumption ==
    /\ D \in Nat \ {0} /\ WordMod \in Nat /\ WordMod > D
    /\ CountMod \in Nat \ {0}
ASSUME NameAssumption ==
    /\ EmptyName \notin Names /\ Stored \in [Names -> Names]
ASSUME InputAssumption ==
    /\ Zero \in Bytes /\ DeleteOpen \in BOOLEAN /\ Whences \subseteq Nat
    /\ SeekPos \subseteq Word /\ Counts \subseteq Word
    /\ OpenFlags \subseteq [acc : {"rd", "wr", "rdwr", "none"},
                            creat : BOOLEAN, append : BOOLEAN]

VARIABLES
    filecount, bitmap, files,       \* in memory: root, bitmap, file entries
    dfilecount, dbitmap, dfiles,    \* on disk: the same three sectors
    blk,                            \* on disk: the data blocks
    fd_table, fd_count,             \* fs/fd.c
    call,                           \* the system call in progress
    ret                             \* what the last call returned

memory == <<filecount, bitmap, files>>
meta   == <<dfilecount, dbitmap, dfiles>>
fds    == <<fd_table, fd_count>>
vars   == <<filecount, bitmap, files, dfilecount, dbitmap, dfiles, blk,
            fd_table, fd_count, call, ret>>

-----------------------------------------------------------------------------
Blocks  == DataStart..(TotalSectors - 1)
Ptr     == Blocks \cup {0}                  \* next_block, 0 = EOF
Files   == 0..(MaxFiles - 1)
Fds     == 0..(FdMax - 1)
UserFds == 3..(FdMax - 1)
AnyFd   == 0..FdMax                         \* FdMax: out of bounds
NoFile  == MaxFiles                         \* the NULL file pointer
SEEK_SET == 1
SEEK_CUR == 2
SEEK_END == 3

\* The loops test `block != 0 && block < fs->total_sectors'.
Valid(b) == b # 0 /\ b < TotalSectors

ZeroFile == [used |-> FALSE, name |-> EmptyName, size |-> 0,
             block_size |-> 0, block |-> 0]
ZeroFd   == [type |-> "none", flags |-> {}, pos |-> 0, cur_block |-> 0,
             prev_block |-> 0, block_offset |-> 0, file |-> NoFile]
BlankBlock == [next |-> 0, data |-> [k \in 0..(D - 1) |-> Zero]]

FileEntry == [used : BOOLEAN, name : Names \cup {EmptyName}, size : Word,
              block_size : Word, block : Ptr]
FdEntry   == [type : {"none", "stdin", "stdout", "stderr", "file"},
              flags : SUBSET {"r", "w"}, pos : Word, cur_block : Ptr,
              prev_block : Ptr, block_offset : Word, file : Files \cup {NoFile}]
Block     == [next : Ptr, data : [0..(D - 1) -> Bytes]]

\* The locals of the handler that is running; `pc' is the disk write or the
\* loop it has reached.
CallRec == [op : {"idle", "open", "close", "read", "write", "seek",
                  "delete", "sync"},
            pc : {"-", "loop", "link", "root", "bitmap", "fentry"},
            fd : Fds, file : Files, acc : {"rd", "wr", "rdwr", "none"},
            append : BOOLEAN, block : Ptr, offset : Word, pos : Word,
            count : Word, done : Word, buf : Seq(Bytes)]
Idle == [op |-> "idle", pc |-> "-", fd |-> 0, file |-> 0, acc |-> "none",
         append |-> FALSE, block |-> 0, offset |-> 0, pos |-> 0,
         count |-> 0, done |-> 0, buf |-> <<>>]
NoAnswer == [val |-> 0, data |-> <<>>]

TypeOK ==
    /\ filecount \in 0..255 /\ dfilecount \in 0..255
    /\ bitmap \in SUBSET Blocks /\ dbitmap \in SUBSET Blocks
    /\ files \in [Files -> FileEntry] /\ dfiles \in [Files -> FileEntry]
    /\ blk \in [Blocks -> Block]
    /\ fd_table \in [Fds -> FdEntry]
    /\ fd_count \in 0..(CountMod - 1)
    /\ call \in CallRec
    /\ ret \in [val : Int, data : Seq(Bytes)]

\* fd_init
InitFdTable ==
    [f \in Fds |->
        CASE f = 0 -> [ZeroFd EXCEPT !.type = "stdin",  !.flags = {"r"}]
          [] f = 1 -> [ZeroFd EXCEPT !.type = "stdout", !.flags = {"w"}]
          [] f = 2 -> [ZeroFd EXCEPT !.type = "stderr", !.flags = {"w"}]
          [] OTHER -> ZeroFd]

\* A formatted, empty file system, loaded by mfs_init.
Init ==
    /\ filecount = 0 /\ bitmap = {} /\ files = [i \in Files |-> ZeroFile]
    /\ dfilecount = 0 /\ dbitmap = {} /\ dfiles = [i \in Files |-> ZeroFile]
    /\ blk = [b \in Blocks |-> BlankBlock]
    /\ fd_table = InitFdTable /\ fd_count = 3 % CountMod
    /\ call = Idle /\ ret = NoAnswer

-----------------------------------------------------------------------------
(* Helpers of mfs.c and fd.c                                               *)

\* The scan stops at filecount, not at max_files.
find_file(n, i) ==
    /\ i < filecount /\ files[i].name = n
    /\ \A j \in Files : j < i => files[j].name # n
NotFound(n) == \A i \in Files : i < filecount => files[i].name # n

alloc_block(b) == b \notin bitmap /\ \A c \in Blocks : c < b => c \in bitmap
NoFreeBlock == Blocks \subseteq bitmap

fd_alloc(f) == /\ fd_table[f].type = "none"
               /\ \A g \in UserFds : g < f => fd_table[g].type # "none"
NoFreeFd == \A f \in UserFds : fd_table[f].type # "none"

IsOpenOn(f, i) == fd_table[f].type = "file" /\ fd_table[f].file = i

Begin(c)  == call.op = "idle" /\ call' = c /\ ret' = NoAnswer
Return(r) == call' = Idle /\ ret' = [val |-> r, data |-> <<>>]
Reply(r)  == call.op = "idle" /\ Return(r)
             /\ UNCHANGED <<memory, meta, blk, fds>>

fd_create(e) ==
    \/ \E f \in UserFds : /\ fd_alloc(f)
                          /\ fd_table' = [fd_table EXCEPT ![f] = e]
                          /\ fd_count' = (fd_count + 1) % CountMod
                          /\ Return(f)
    \/ NoFreeFd /\ UNCHANGED fds /\ Return(-1)


\* Locals of a handler at the first disk write of write_changes.
Flush(op) == [Idle EXCEPT !.op = op, !.pc = "root"]

-----------------------------------------------------------------------------
(* mfs_open                                                                *)

\* entry.pos; with the access mode 3 no branch assigns it.
OpenPos(i, acc, append) ==
    IF acc = "none" THEN Word
    ELSE IF acc # "rd" /\ append THEN {files[i].size} ELSE {0}

Rights(acc) == (IF acc \in {"rd", "rdwr"} THEN {"r"} ELSE {}) \cup
               (IF acc \in {"wr", "rdwr"} THEN {"w"} ELSE {})

\* The tail of mfs_open: a descriptor at the first block of entry i.
OpenFd(i, acc, append) ==
    \E p \in OpenPos(i, acc, append) :
        fd_create([type |-> "file", flags |-> Rights(acc), pos |-> p,
                   cur_block |-> files[i].block, prev_block |-> 0,
                   block_offset |-> 0, file |-> i])

OpenExisting(n, fl) ==
    /\ call.op = "idle"
    /\ \E i \in Files : find_file(n, i) /\ OpenFd(i, fl.acc, fl.append)
    /\ UNCHANGED <<memory, meta, blk>>

OpenMissing(n, fl) == NotFound(n) /\ ~fl.creat /\ Reply(-1)

\* alloc_block runs before the table is tested: a full table keeps the bit.
OpenNoRoom(n, fl) ==
    /\ call.op = "idle" /\ NotFound(n) /\ fl.creat
    /\ \/ NoFreeBlock /\ UNCHANGED bitmap
       \/ \E b \in Blocks : /\ alloc_block(b)
                            /\ \/ filecount >= MaxFiles
                               \/ \A i \in Files : files[i].used
                            /\ bitmap' = bitmap \cup {b}
    /\ Return(-1)
    /\ UNCHANGED <<filecount, files, meta, blk, fds>>

\* A free slot, a blank first block on disk, then write_changes.
OpenCreate(n, fl) ==
    /\ NotFound(n) /\ fl.creat /\ filecount < MaxFiles
    /\ \E b \in Blocks, i \in Files :
         /\ alloc_block(b)
         /\ ~files[i].used /\ \A j \in Files : j < i => files[j].used
         /\ bitmap' = bitmap \cup {b}
         /\ files' = [files EXCEPT ![i] = [used |-> TRUE, name |-> Stored[n],
                         size |-> 0, block_size |-> 0, block |-> b]]
         /\ blk' = [blk EXCEPT ![b] = BlankBlock]
         /\ Begin([Flush("open") EXCEPT !.file = i, !.acc = fl.acc,
                                        !.append = fl.append])
    /\ filecount' = (filecount + 1) % 256
    /\ UNCHANGED <<meta, fds>>

-----------------------------------------------------------------------------
(* write_changes: three sectors, one after the other, then the rest of the *)
(* handler that called it                                                  *)

WriteRoot ==
    /\ call.pc = "root"
    /\ dfilecount' = filecount
    /\ call' = [call EXCEPT !.pc = "bitmap"]
    /\ UNCHANGED <<memory, dbitmap, dfiles, blk, fds, ret>>

\* Mutant: the bitmap sector is not saved.
WriteBitmap_Skipped ==
    /\ call.pc = "bitmap"
    /\ call' = [call EXCEPT !.pc = "fentry"]
    /\ UNCHANGED <<memory, meta, blk, fds, ret>>

WriteBitmap ==
    /\ call.pc = "bitmap"
    /\ dbitmap' = bitmap
    /\ call' = [call EXCEPT !.pc = "fentry"]
    /\ UNCHANGED <<memory, dfilecount, dfiles, blk, fds, ret>>

\* fd_close and the mfs_close it calls each zero the entry and count down.
CloseFd(f) == /\ fd_table' = [fd_table EXCEPT ![f] = ZeroFd]
              /\ fd_count' = (fd_count - 2) % CountMod
              /\ Return(0)

WriteEntries ==
    /\ call.pc = "fentry"
    /\ dfiles' = files
    /\ \/ call.op = "open"  /\ OpenFd(call.file, call.acc, call.append)
       \/ call.op = "close" /\ CloseFd(call.fd)
       \/ call.op \in {"delete", "sync"} /\ Return(0) /\ UNCHANGED fds
    /\ UNCHANGED <<memory, dfilecount, dbitmap, blk>>

mfs_sync == Begin(Flush("sync")) /\ UNCHANGED <<memory, meta, blk, fds>>

-----------------------------------------------------------------------------
(* fd_close                                                                *)

fd_close(f) ==
    \/ f \notin UserFds /\ Reply(1)
    \/ /\ f \in UserFds
       /\ fd_table[f].type = "file" /\ fd_table[f].file # NoFile
       /\ Begin([Flush("close") EXCEPT !.fd = f])
       /\ UNCHANGED <<memory, meta, blk, fds>>
    \/ /\ f \in UserFds
       /\ fd_table[f].type # "file" \/ fd_table[f].file = NoFile
       /\ call.op = "idle"
       /\ fd_table' = [fd_table EXCEPT ![f] = ZeroFd]
       /\ fd_count' = (fd_count - 1) % CountMod
       /\ Return(0)
       /\ UNCHANGED <<memory, meta, blk>>

-----------------------------------------------------------------------------
(* mfs_read                                                                *)

\* fd_get, and the tests on type and rights that the calls make.
IsFile(f)        == f \in Fds /\ fd_table[f].type = "file"
Usable(f, right) == IsFile(f) /\ right \in fd_table[f].flags

SizeOf(f) == files[fd_table[f].file].size

mfs_read(f, count) ==
    \/ ~Usable(f, "r") /\ Reply(-1)
    \/ Usable(f, "r") /\ fd_table[f].pos >= SizeOf(f) /\ Reply(0)
    \/ /\ Usable(f, "r") /\ fd_table[f].pos < SizeOf(f)
       /\ Begin([Idle EXCEPT !.op = "read", !.pc = "loop", !.fd = f,
                             !.count = count])
       /\ UNCHANGED <<memory, meta, blk, fds>>

Min2(a, b) == IF a < b THEN a ELSE b

ReadMore(e) == /\ call.done < call.count /\ Valid(e.cur_block)
               /\ e.pos < files[e.file].size

\* The descriptor after n bytes; the next block is read from the disk buffer.
\* mfs_read leaves prev_block alone.
AfterRead(e, n) ==
    LET off == (e.block_offset + n) % WordMod
    IN  [e EXCEPT !.pos = (@ + n) % WordMod,
                  !.block_offset = IF off >= D THEN 0 ELSE off,
                  !.cur_block = IF off >= D THEN blk[@].next ELSE @]

ReadBytes(e) == Min2(Min2(call.count - call.done, (D - e.block_offset) % WordMod),
                     (files[e.file].size - e.pos) % WordMod)

ReadBlock ==
    LET e == fd_table[call.fd]
        n == ReadBytes(e)
    IN  /\ call.op = "read" /\ ReadMore(e)
        /\ call' = [call EXCEPT !.done = @ + n,
                !.buf = @ \o [k \in 1..n |->
                                blk[e.cur_block].data[e.block_offset + k - 1]]]
        /\ fd_table' = [fd_table EXCEPT ![call.fd] = AfterRead(e, n)]
        /\ UNCHANGED <<memory, meta, blk, fd_count, ret>>

ReadDone ==
    /\ call.op = "read" /\ ~ReadMore(fd_table[call.fd])
    /\ call' = Idle /\ ret' = [val |-> call.done, data |-> call.buf]
    /\ UNCHANGED <<memory, meta, blk, fds>>

-----------------------------------------------------------------------------
(* mfs_write                                                               *)

mfs_write(f, buf) ==
    \/ ~Usable(f, "w") /\ Reply(-1)
    \/ /\ Usable(f, "w")
       /\ Begin([Idle EXCEPT !.op = "write", !.pc = "loop", !.fd = f,
                             !.count = Len(buf), !.buf = buf])
       /\ UNCHANGED <<memory, meta, blk, fds>>

Writing(pc) == call.op = "write" /\ call.pc = pc
WriteMore   == Writing("loop") /\ call.done < call.count

\* Mutant: the new block is not marked.
WriteAlloc_Unmarked ==
    /\ WriteMore /\ ~Valid(fd_table[call.fd].cur_block)
    /\ \E b \in Blocks :
         /\ alloc_block(b)
         /\ blk' = [blk EXCEPT ![b] = BlankBlock]
         /\ call' = [call EXCEPT !.pc = "link", !.block = b]
    /\ UNCHANGED <<memory, meta, fds, ret>>

\* Past the end of the chain: a block is allocated and written blank.
WriteAlloc ==
    /\ WriteMore /\ ~Valid(fd_table[call.fd].cur_block)
    /\ \E b \in Blocks :
         /\ alloc_block(b)
         /\ bitmap' = bitmap \cup {b}
         /\ blk' = [blk EXCEPT ![b] = BlankBlock]
         /\ call' = [call EXCEPT !.pc = "link", !.block = b]
    /\ UNCHANGED <<filecount, files, meta, fds, ret>>

WriteFull ==
    /\ WriteMore /\ ~Valid(fd_table[call.fd].cur_block) /\ NoFreeBlock
    /\ Return(-1)
    /\ UNCHANGED <<memory, meta, blk, fds>>

\* The previous block, or else the file entry, points to the new block.
WriteLink ==
    LET e == fd_table[call.fd]
    IN  /\ Writing("link")
        /\ IF e.prev_block # 0
           THEN /\ blk' = [blk EXCEPT ![e.prev_block].next = call.block]
                /\ UNCHANGED files
           ELSE /\ files' = [files EXCEPT ![e.file].block = call.block]
                /\ UNCHANGED blk
        /\ fd_table' = [fd_table EXCEPT ![call.fd].cur_block = call.block,
                                        ![call.fd].block_offset = 0]
        /\ call' = [call EXCEPT !.pc = "loop", !.block = 0]
        /\ UNCHANGED <<filecount, bitmap, meta, fd_count, ret>>

AfterWrite(e, n) ==
    LET off == (e.block_offset + n) % WordMod
    IN  [e EXCEPT !.pos = (@ + n) % WordMod,
                  !.block_offset = IF off >= D THEN 0 ELSE off,
                  !.prev_block = IF off >= D THEN e.cur_block ELSE @,
                  !.cur_block = IF off >= D THEN blk[@].next ELSE @]

WriteBytes(e) == Min2(call.count - call.done, (D - e.block_offset) % WordMod)

\* Read, modify and write the current block; the size grows with the position.
WriteData ==
    LET e   == fd_table[call.fd]
        n   == WriteBytes(e)
        pos == (e.pos + n) % WordMod
    IN  /\ WriteMore /\ Valid(e.cur_block)
        /\ blk' = [blk EXCEPT ![e.cur_block].data =
                [k \in 0..(D - 1) |->
                    IF k >= e.block_offset /\ k < e.block_offset + n
                    THEN call.buf[call.done + k - e.block_offset + 1]
                    ELSE @[k]]]
        /\ fd_table' = [fd_table EXCEPT ![call.fd] = AfterWrite(e, n)]
        /\ files' = [files EXCEPT ![e.file].size = IF pos > @ THEN pos ELSE @]
        /\ call' = [call EXCEPT !.done = @ + n]
        /\ UNCHANGED <<filecount, bitmap, meta, fd_count, ret>>

WriteDone ==
    /\ Writing("loop") /\ call.done >= call.count
    /\ Return(call.done)
    /\ UNCHANGED <<memory, meta, blk, fds>>

-----------------------------------------------------------------------------
(* mfs_seek                                                                *)

\* An unknown whence leaves `offset' uninitialised.
SeekOffsets(e, pos, whence) ==
    IF whence = SEEK_SET THEN {pos}
    ELSE IF whence = SEEK_CUR THEN {(e.pos + pos) % WordMod}
    ELSE IF whence = SEEK_END THEN {(files[e.file].size + pos) % WordMod}
    ELSE Word

mfs_seek(f, pos, whence) ==
    \/ ~IsFile(f) /\ Reply(-1)
    \/ /\ IsFile(f)
       /\ \E o \in SeekOffsets(fd_table[f], pos, whence) :
            Begin([Idle EXCEPT !.op = "seek", !.pc = "loop", !.fd = f,
                       !.pos = pos, !.offset = o,
                       !.block = files[fd_table[f].file].block])
       /\ UNCHANGED <<memory, meta, blk, fds>>

\* Mutants: the walk ignores the offset, or stops one byte late.
SeekMore_ToEnd == Valid(call.block)
SeekMore_Late  == call.offset > D /\ Valid(call.block)

SeekMore == call.offset >= D /\ Valid(call.block)

SeekBlock ==
    /\ call.op = "seek" /\ SeekMore
    /\ call' = [call EXCEPT !.block = blk[@].next, !.offset = @ - D]
    /\ UNCHANGED <<memory, meta, blk, fds, ret>>

\* The position becomes the argument, whatever whence was; prev_block stays.
SeekDone ==
    /\ call.op = "seek" /\ ~SeekMore
    /\ fd_table' = [fd_table EXCEPT ![call.fd].pos = call.pos,
                                    ![call.fd].cur_block = call.block,
                                    ![call.fd].block_offset = call.offset]
    /\ Return(call.pos)
    /\ UNCHANGED <<memory, meta, blk, fd_count>>

-----------------------------------------------------------------------------
(* mfs_delete                                                              *)

mfs_delete(n) ==
    \/ NotFound(n) /\ Reply(-1)
    \/ \E i \in Files :
         /\ find_file(n, i)
         /\ DeleteOpen \/ \A f \in UserFds : ~IsOpenOn(f, i)
         /\ Begin([Idle EXCEPT !.op = "delete", !.pc = "loop", !.file = i,
                               !.block = files[i].block])
         /\ UNCHANGED <<memory, meta, blk, fds>>

Deleting == call.op = "delete" /\ call.pc = "loop"

\* Mutants: the walk does not advance; the block is not erased.
DeleteBlock_Stays ==
    /\ Deleting /\ Valid(call.block)
    /\ blk' = [blk EXCEPT ![call.block] = BlankBlock]
    /\ bitmap' = bitmap \ {call.block}
    /\ UNCHANGED <<filecount, files, meta, fds, call, ret>>
DeleteBlock_NotErased ==
    /\ Deleting /\ Valid(call.block)
    /\ bitmap' = bitmap \ {call.block}
    /\ call' = [call EXCEPT !.block = blk[@].next]
    /\ UNCHANGED <<filecount, files, meta, blk, fds, ret>>

\* Read the next pointer, erase the block, clear its bit.
DeleteBlock ==
    /\ Deleting /\ Valid(call.block)
    /\ blk' = [blk EXCEPT ![call.block] = BlankBlock]
    /\ bitmap' = bitmap \ {call.block}
    /\ call' = [call EXCEPT !.block = blk[@].next]
    /\ UNCHANGED <<filecount, files, meta, fds, ret>>

\* Mutants: the entry is only flagged unused; the file is not counted off.
DeleteEntry_FlagOnly ==
    /\ Deleting /\ ~Valid(call.block)
    /\ files' = [files EXCEPT ![call.file].used = FALSE]
    /\ filecount' = (filecount - 1) % 256
    /\ call' = [call EXCEPT !.pc = "root"]
    /\ UNCHANGED <<bitmap, meta, blk, fds, ret>>
DeleteEntry_NotCounted ==
    /\ Deleting /\ ~Valid(call.block)
    /\ files' = [files EXCEPT ![call.file] = ZeroFile]
    /\ call' = [call EXCEPT !.pc = "root"]
    /\ UNCHANGED <<filecount, bitmap, meta, blk, fds, ret>>

DeleteEntry ==
    /\ Deleting /\ ~Valid(call.block)
    /\ files' = [files EXCEPT ![call.file] = ZeroFile]
    /\ filecount' = (filecount - 1) % 256
    /\ call' = [call EXCEPT !.pc = "root"]
    /\ UNCHANGED <<bitmap, meta, blk, fds, ret>>

-----------------------------------------------------------------------------
(* mfs_list and mfs_filesize change nothing                                *)

mfs_list == Reply(filecount)

mfs_filesize(n) ==
    \/ NotFound(n) /\ Reply(-1)
    \/ \E i \in Files : find_file(n, i) /\ Reply(files[i].size)

-----------------------------------------------------------------------------
Buffers == UNION {[1..k -> Bytes] : k \in Counts}

\* A program makes a system call.
Syscall ==
    \/ \E n \in Names, fl \in OpenFlags :
         \/ OpenExisting(n, fl) \/ OpenMissing(n, fl)
         \/ OpenNoRoom(n, fl)   \/ OpenCreate(n, fl)
    \/ \E f \in AnyFd :
         \/ fd_close(f)
         \/ \E count \in Counts : mfs_read(f, count)
         \/ \E buf \in Buffers : mfs_write(f, buf)
         \/ \E pos \in SeekPos, whence \in Whences : mfs_seek(f, pos, whence)
    \/ \E n \in Names : mfs_delete(n) \/ mfs_filesize(n)
    \/ mfs_sync \/ mfs_list

\* The kernel goes on with the call it is in.
KernelStep ==
    \/ WriteRoot \/ WriteBitmap \/ WriteEntries
    \/ ReadBlock \/ ReadDone
    \/ WriteAlloc \/ WriteFull \/ WriteLink \/ WriteData \/ WriteDone
    \/ SeekBlock \/ SeekDone
    \/ DeleteBlock \/ DeleteEntry

Next == Syscall \/ KernelStep

\* The kernel runs to the end of a call: nothing else has the processor.
Spec == Init /\ [][Next]_vars /\ WF_vars(KernelStep)

-----------------------------------------------------------------------------
(* Properties                                                              *)

\* The blocks reached from b along `next': the least set that has b, unless it
\* is 0, and with a block the one that its pointer names.
Closed(next, S) == \A c \in S : next[c] \in S \cup {0}
Follow(next, b) == {c \in Blocks : \A S \in SUBSET Blocks :
                                      b \in S \cup {0} /\ Closed(next, S) => c \in S}
Reach(b) == Follow([c \in Blocks |-> blk[c].next], b)
Chain(i) == Reach(files[i].block)

\* Every block is pointed to at most once, by one file entry or by one block:
\* no call sequence cross-links two files or closes a chain into a loop, even
\* when descriptors outlive the file they were opened on.
SinglyLinked ==
    /\ \A i, j \in Files :
         files[i].block # 0 /\ files[i].block = files[j].block => i = j
    /\ \A b, c \in Blocks :
         blk[b].next # 0 /\ blk[b].next = blk[c].next => b = c
    /\ \A i \in Files, b \in Blocks :
         files[i].block # 0 => files[i].block # blk[b].next

\* A block that is pointed to is marked in the bitmap, so that alloc_block
\* never hands out a block of a file.  mfs_delete clears the bits of its own
\* file before it clears the entry.
LinkedMarked ==
    /\ \A i \in Files : \/ files[i].block \in bitmap \cup {0}
                        \/ Deleting /\ call.file = i
    /\ \A b \in Blocks : blk[b].next \in bitmap \cup {0}

\* Seen from a program: no two files share a block, and following a chain
\* never comes back to a block already visited.
FilesSound ==
    \A i \in Files :
        /\ \A b \in Chain(i) : b \notin Reach(blk[b].next)
        /\ \A j \in Files \ {i} : Chain(i) \cap Chain(j) = {}

\* fs->filecount counts the used entries, so that the scans that stop at it
\* stay inside the table.
FilecountExact == filecount = Cardinality({i \in Files : files[i].used})

\* The cursor of a descriptor with a current block lies inside that block: the
\* memcpy of mfs_read and mfs_write stays in the sector buffer and moves at
\* least one byte per iteration.
CursorInBlock ==
    \A f \in Fds : Valid(fd_table[f].cur_block) => fd_table[f].block_offset < D

\* What a restart would load: the first block of a file on disk is marked in
\* the bitmap on disk, except for the file a delete is about to remove, whose
\* bitmap sector is written before its entry.
DiskEntryMarked ==
    \A i \in Files : \/ dfiles[i].block \in dbitmap \cup {0}
                     \/ call.op = "delete" /\ call.file = i /\ call.pc = "fentry"

\* If no file is deleted while it is open, a descriptor never points into the
\* chain of a file other than its own: writes cannot reach a foreign file.
DescriptorsIsolated ==
    \A f \in Fds, i \in Files :
        fd_table[f].type = "file" /\ fd_table[f].file # i =>
            {fd_table[f].cur_block, fd_table[f].prev_block} \cap Chain(i) = {}

\* What the comment on the scan of find_file says, "filecount should be fine":
\* a file in the table is found by its name.
FindsEveryFile ==
    \A i \in Files : files[i].used => \E j \in Files : find_file(files[i].name, j)

\* Every system call returns: no chain on disk makes a handler loop.
CallsReturn == call.op # "idle" ~> call.op = "idle"

=============================================================================
