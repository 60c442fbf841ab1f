---------------------------- MODULE MFS_proofs ----------------------------
(***************************************************************************)
(* Proofs about MFS, for every size of the disk, the tables and the words. *)
(***************************************************************************)
EXTENDS MFS, TLAPS

USE WordAssumption

LEMMA ModWord == \A x \in Int : x % WordMod \in Word
  BY DEF Word

LEMMA ModCount == \A x \in Int : x % CountMod \in 0..(CountMod - 1)
  OBVIOUS

LEMMA ModByte == \A x \in Int : x % 256 \in 0..255
  OBVIOUS

LEMMA BlockFacts == /\ Blocks \subseteq Nat \ {0}
                    /\ \A b \in Ptr : Valid(b) <=> b \in Blocks
                    /\ \A b \in Ptr : b # 0 <=> b \in Blocks
  BY SectorAssumption DEF Blocks, Ptr, Valid

LEMMA ZeroTypes == /\ ZeroFile \in FileEntry /\ ZeroFd \in FdEntry
                   /\ BlankBlock \in Block /\ Idle \in CallRec
                   /\ InitFdTable \in [Fds -> FdEntry]
<1>1. ZeroFile \in FileEntry
  BY DEF ZeroFile, FileEntry, Ptr, Word
<1>2. ZeroFd \in FdEntry
  BY DEF ZeroFd, FdEntry, Ptr, Word, NoFile
<1>3. BlankBlock \in Block
  BY InputAssumption DEF BlankBlock, Block, Ptr
<1>4. Idle \in CallRec
  BY TableAssumption DEF Idle, CallRec, Ptr, Word, Fds, Files
<1>5. InitFdTable \in [Fds -> FdEntry]
  <2>1. ASSUME NEW f \in Fds PROVE InitFdTable[f] \in FdEntry
    BY <1>2 DEF InitFdTable, FdEntry, ZeroFd
  <2> QED BY <2>1 DEF InitFdTable
<1> QED BY <1>1, <1>2, <1>3, <1>4, <1>5

-----------------------------------------------------------------------------
(* Descriptors refer to entries of the table, and a transfer in progress   *)
(* has its descriptor and its buffer.                                      *)

FdsOnFiles == \A f \in Fds : fd_table[f].type = "file" => fd_table[f].file \in Files

CallSound ==
    /\ call.op \in {"read", "write"} => fd_table[call.fd].type = "file"
    /\ call.op = "write" => Len(call.buf) = call.count

BaseInv == TypeOK /\ CursorInBlock /\ FdsOnFiles /\ CallSound

LEMMA ModSmall == \A x \in Word : x % WordMod = x
  BY DEF Word

LEMMA BaseInit == Init => BaseInv
<1> SUFFICES ASSUME Init PROVE BaseInv
  OBVIOUS
<1>1. TypeOK
  <2>1. ret \in [val : Int, data : Seq(Bytes)] /\ fd_count \in 0..(CountMod - 1)
    BY ModCount DEF Init, NoAnswer
  <2>2. /\ files \in [Files -> FileEntry] /\ dfiles \in [Files -> FileEntry]
        /\ blk \in [Blocks -> Block]
    BY ZeroTypes DEF Init
  <2> QED BY <2>1, <2>2, ZeroTypes DEF Init, TypeOK
<1>2. \A f \in Fds : fd_table[f].type # "file" /\ fd_table[f].cur_block = 0
  BY Zenon DEF Init, InitFdTable, ZeroFd
<1>3. CursorInBlock /\ FdsOnFiles /\ CallSound
  BY <1>2 DEF CursorInBlock, Valid, FdsOnFiles, CallSound, Init, Idle
<1> QED BY <1>1, <1>3 DEF BaseInv

LEMMA ReturnType == \A r \in Int : Return(r) => call' = Idle /\ call' \in CallRec
                                   /\ ret' \in [val : Int, data : Seq(Bytes)]
  BY ZeroTypes DEF Return

\* fd_create writes a well-formed entry, or nothing.
LEMMA CreateFd ==
  ASSUME BaseInv, NEW e \in FdEntry, e.type = "file", e.file \in Files,
         e.block_offset < D, fd_create(e)
  PROVE  /\ fd_table' \in [Fds -> FdEntry] /\ fd_count' \in 0..(CountMod - 1)
         /\ call' = Idle /\ ret' \in [val : Int, data : Seq(Bytes)]
         /\ CursorInBlock' /\ FdsOnFiles'
<1>1. CASE UNCHANGED fds /\ Return(-1)
  <2>1. fd_table' = fd_table /\ fd_count' = fd_count
    BY <1>1 DEF fds
  <2>2. call' = Idle /\ ret' \in [val : Int, data : Seq(Bytes)]
    BY <1>1, ReturnType
  <2> QED BY <2>1, <2>2 DEF BaseInv, TypeOK, CursorInBlock, FdsOnFiles
<1>2. ASSUME NEW f \in UserFds,
             fd_table' = [fd_table EXCEPT ![f] = e],
             fd_count' = (fd_count + 1) % CountMod, Return(f)
      PROVE  /\ fd_table' \in [Fds -> FdEntry] /\ fd_count' \in 0..(CountMod - 1)
             /\ call' = Idle /\ ret' \in [val : Int, data : Seq(Bytes)]
             /\ CursorInBlock' /\ FdsOnFiles'
  <2>1. f \in Fds /\ f \in Int
    BY DEF UserFds, Fds
  <2>2. call' = Idle /\ ret' \in [val : Int, data : Seq(Bytes)]
    BY <1>2, <2>1, ReturnType
  <2>3. fd_count' \in 0..(CountMod - 1)
    BY <1>2, ModCount DEF BaseInv, TypeOK
  <2>4. fd_table' \in [Fds -> FdEntry]
    BY <1>2, <2>1 DEF BaseInv, TypeOK
  <2>5. \A g \in Fds : fd_table'[g] = IF g = f THEN e ELSE fd_table[g]
    BY <1>2 DEF BaseInv, TypeOK
  <2>6. CursorInBlock' /\ FdsOnFiles'
    BY <2>5 DEF BaseInv, CursorInBlock, FdsOnFiles
  <2> QED BY <2>2, <2>3, <2>4, <2>6
<1> QED BY <1>1, <1>2 DEF fd_create

LEMMA OpenFdBase ==
  ASSUME BaseInv, NEW i \in Files, NEW acc, NEW append, OpenFd(i, acc, append)
  PROVE  /\ fd_table' \in [Fds -> FdEntry] /\ fd_count' \in 0..(CountMod - 1)
         /\ call' = Idle /\ ret' \in [val : Int, data : Seq(Bytes)]
         /\ CursorInBlock' /\ FdsOnFiles'
<1>1. PICK p \in OpenPos(i, acc, append) :
        fd_create([type |-> "file", flags |-> Rights(acc), pos |-> p,
                   cur_block |-> files[i].block, prev_block |-> 0,
                   block_offset |-> 0, file |-> i])
  BY DEF OpenFd
<1> DEFINE e == [type |-> "file", flags |-> Rights(acc), pos |-> p,
                 cur_block |-> files[i].block, prev_block |-> 0,
                 block_offset |-> 0, file |-> i]
<1>2. p \in Word
  BY DEF OpenPos, BaseInv, TypeOK, FileEntry, Word
<1>3. Rights(acc) \in SUBSET {"r", "w"}
  BY DEF Rights
<1>4. e \in FdEntry
  BY <1>2, <1>3 DEF FdEntry, BaseInv, TypeOK, FileEntry, Ptr, Word
<1> QED BY <1>1, <1>4, CreateFd

-----------------------------------------------------------------------------
(* Each step preserves BaseInv                                             *)

LEMMA BaseFrame ==
  ASSUME BaseInv, TypeOK', fd_table' = fd_table, CallSound'
  PROVE  BaseInv'
  BY DEF BaseInv, CursorInBlock, FdsOnFiles

LEMMA IdleSound == call' = Idle => CallSound'
  BY DEF CallSound, Idle

LEMMA ReplyBase ==
  ASSUME BaseInv, NEW r \in Int, Reply(r) PROVE BaseInv'
<1>1. fd_table' = fd_table /\ TypeOK'
  BY ReturnType DEF Reply, BaseInv, TypeOK, memory, meta, fds
<1>2. call' = Idle
  BY DEF Reply, Return
<1> QED BY <1>1, <1>2, BaseFrame, IdleSound

LEMMA BeginBase ==
  ASSUME BaseInv, NEW c \in CallRec, Begin(c),
         UNCHANGED <<memory, meta, blk, fds>>,
         c.op \in {"read", "write"} => fd_table[c.fd].type = "file",
         c.op = "write" => Len(c.buf) = c.count
  PROVE  BaseInv'
<1>1. fd_table' = fd_table /\ call' = c
  BY DEF Begin, fds
<1>2. ret' \in [val : Int, data : Seq(Bytes)]
  BY DEF Begin, NoAnswer
<1>3. TypeOK'
  BY <1>1, <1>2 DEF BaseInv, TypeOK, memory, meta, fds
<1>4. CallSound'
  BY <1>1 DEF CallSound
<1> QED BY <1>1, <1>3, <1>4, BaseFrame

LEMMA FlushType == \A op \in {"open", "close", "delete", "sync"} :
                      Flush(op) \in CallRec /\ Flush(op).op = op
  BY ZeroTypes DEF Flush, CallRec, Idle

LEMMA OpenBase ==
  ASSUME BaseInv, NEW n \in Names, NEW fl \in OpenFlags,
         \/ OpenExisting(n, fl) \/ OpenMissing(n, fl)
         \/ OpenNoRoom(n, fl)   \/ OpenCreate(n, fl)
  PROVE  BaseInv'
<1>1. CASE OpenExisting(n, fl)
  <2>1. PICK i \in Files : OpenFd(i, fl.acc, fl.append)
    BY <1>1 DEF OpenExisting
  <2>2. /\ fd_table' \in [Fds -> FdEntry] /\ fd_count' \in 0..(CountMod - 1)
        /\ call' = Idle /\ ret' \in [val : Int, data : Seq(Bytes)]
        /\ CursorInBlock' /\ FdsOnFiles'
    BY <2>1, OpenFdBase
  <2>3. TypeOK'
    BY <1>1, <2>2, ZeroTypes DEF OpenExisting, BaseInv, TypeOK, memory, meta
  <2> QED BY <2>2, <2>3, IdleSound DEF BaseInv
<1>2. CASE OpenMissing(n, fl)
  BY <1>2, ReplyBase DEF OpenMissing
<1>3. CASE OpenNoRoom(n, fl)
  <2>1. bitmap' \in SUBSET Blocks
    BY <1>3 DEF OpenNoRoom, BaseInv, TypeOK
  <2>2. /\ fd_table' = fd_table /\ call' = Idle /\ call' \in CallRec
        /\ ret' \in [val : Int, data : Seq(Bytes)]
    BY <1>3, ReturnType DEF OpenNoRoom, fds
  <2>3. TypeOK'
    BY <1>3, <2>1, <2>2 DEF OpenNoRoom, BaseInv, TypeOK, meta, fds
  <2> QED BY <2>2, <2>3, BaseFrame, IdleSound
<1>4. CASE OpenCreate(n, fl)
  <2>1. PICK b \in Blocks, i \in Files :
           /\ bitmap' = bitmap \cup {b}
           /\ files' = [files EXCEPT ![i] = [used |-> TRUE, name |-> Stored[n],
                           size |-> 0, block_size |-> 0, block |-> b]]
           /\ blk' = [blk EXCEPT ![b] = BlankBlock]
           /\ Begin([Flush("open") EXCEPT !.file = i, !.acc = fl.acc,
                                          !.append = fl.append])
    BY <1>4 DEF OpenCreate
  <2>2. /\ bitmap' \in SUBSET Blocks /\ blk' \in [Blocks -> Block]
    BY <2>1, ZeroTypes DEF BaseInv, TypeOK
  <2>3. [used |-> TRUE, name |-> Stored[n], size |-> 0, block_size |-> 0,
         block |-> b] \in FileEntry
    BY NameAssumption DEF FileEntry, Ptr, Word
  <2>4. files' \in [Files -> FileEntry]
    BY <2>1, <2>3 DEF BaseInv, TypeOK
  <2>5. /\ fl.acc \in {"rd", "wr", "rdwr", "none"} /\ fl.append \in BOOLEAN
    <3>1. fl \in [acc : {"rd", "wr", "rdwr", "none"}, creat : BOOLEAN,
                  append : BOOLEAN]
      BY InputAssumption
    <3> QED BY <3>1
  <2>6. call' \in CallRec /\ call'.op = "open"
    BY <2>1, <2>5, FlushType DEF Begin, CallRec
  <2>7. ret' \in [val : Int, data : Seq(Bytes)]
    BY <2>1 DEF Begin, NoAnswer
  <2>8. filecount' \in 0..255
    <3>1. filecount + 1 \in Int
      BY DEF BaseInv, TypeOK
    <3> QED BY <1>4, <3>1, ModByte DEF OpenCreate
  <2>9. TypeOK' /\ fd_table' = fd_table
    BY <1>4, <2>2, <2>4, <2>6, <2>7, <2>8
       DEF OpenCreate, BaseInv, TypeOK, meta, fds
  <2>10. CallSound'
    BY <2>6 DEF CallSound
  <2> QED BY <2>9, <2>10, BaseFrame
<1> QED BY <1>1, <1>2, <1>3, <1>4

LEMMA FlushBase ==
  ASSUME BaseInv, WriteRoot \/ WriteBitmap \/ WriteEntries PROVE BaseInv'
<1>1. CASE WriteRoot
  <2>1. TypeOK' /\ fd_table' = fd_table
    BY <1>1 DEF WriteRoot, BaseInv, TypeOK, CallRec, memory, fds
  <2>2. CallSound'
    BY <1>1 DEF WriteRoot, BaseInv, TypeOK, CallRec, CallSound, fds
  <2> QED BY <2>1, <2>2, BaseFrame
<1>2. CASE WriteBitmap
  <2>1. TypeOK' /\ fd_table' = fd_table
    BY <1>2 DEF WriteBitmap, BaseInv, TypeOK, CallRec, memory, fds
  <2>2. CallSound'
    BY <1>2 DEF WriteBitmap, BaseInv, TypeOK, CallRec, CallSound, fds
  <2> QED BY <2>1, <2>2, BaseFrame
<1>3. CASE WriteEntries
  <2>1. /\ fd_table' \in [Fds -> FdEntry] /\ fd_count' \in 0..(CountMod - 1)
        /\ call' = Idle /\ ret' \in [val : Int, data : Seq(Bytes)]
        /\ CursorInBlock' /\ FdsOnFiles'
    <3>1. CASE OpenFd(call.file, call.acc, call.append)
      <4>1. call.file \in Files
        BY DEF BaseInv, TypeOK, CallRec
      <4> QED BY <3>1, <4>1, OpenFdBase
    <3>2. CASE CloseFd(call.fd)
      <4>1. call.fd \in Fds
        BY DEF BaseInv, TypeOK, CallRec
      <4>2. /\ fd_table' \in [Fds -> FdEntry]
            /\ \A g \in Fds : fd_table'[g] = IF g = call.fd THEN ZeroFd ELSE fd_table[g]
        BY <3>2, <4>1, ZeroTypes DEF CloseFd, BaseInv, TypeOK
      <4>3. CursorInBlock' /\ FdsOnFiles'
        BY <4>2 DEF BaseInv, CursorInBlock, FdsOnFiles, ZeroFd, Valid
      <4>4. fd_count' \in 0..(CountMod - 1)
        <5>1. fd_count - 2 \in Int
          BY DEF BaseInv, TypeOK
        <5> QED BY <3>2, <5>1, ModCount DEF CloseFd
      <4>5. call' = Idle /\ ret' \in [val : Int, data : Seq(Bytes)]
        BY <3>2, ReturnType DEF CloseFd
      <4> QED BY <4>2, <4>3, <4>4, <4>5
    <3>3. CASE Return(0) /\ UNCHANGED fds
      <4>1. fd_table' = fd_table /\ fd_count' = fd_count
        BY <3>3 DEF fds
      <4>2. call' = Idle /\ ret' \in [val : Int, data : Seq(Bytes)]
        BY <3>3, ReturnType
      <4> QED BY <4>1, <4>2 DEF BaseInv, TypeOK, CursorInBlock, FdsOnFiles
    <3> QED BY <1>3, <3>1, <3>2, <3>3 DEF WriteEntries
  <2>2. TypeOK'
    BY <1>3, <2>1, ZeroTypes DEF WriteEntries, BaseInv, TypeOK, memory
  <2> QED BY <2>1, <2>2, IdleSound DEF BaseInv
<1> QED BY <1>1, <1>2, <1>3

LEMMA CloseBase ==
  ASSUME BaseInv, NEW f \in AnyFd, fd_close(f) PROVE BaseInv'
<1>1. CASE Reply(1)
  BY <1>1, ReplyBase
<1>2. CASE /\ f \in UserFds /\ Begin([Flush("close") EXCEPT !.fd = f])
           /\ UNCHANGED <<memory, meta, blk, fds>>
  <2>1. f \in Fds
    BY <1>2 DEF UserFds, Fds
  <2>2. /\ [Flush("close") EXCEPT !.fd = f] \in CallRec
        /\ [Flush("close") EXCEPT !.fd = f].op = "close"
    BY <2>1, FlushType DEF CallRec
  <2> QED BY <1>2, <2>2, BeginBase
<1>3. CASE /\ f \in UserFds
           /\ fd_table' = [fd_table EXCEPT ![f] = ZeroFd]
           /\ fd_count' = (fd_count - 1) % CountMod
           /\ Return(0)
           /\ UNCHANGED <<memory, meta, blk>>
  <2>1. f \in Fds
    BY <1>3 DEF UserFds, Fds
  <2>2. /\ fd_table' \in [Fds -> FdEntry]
        /\ \A g \in Fds : fd_table'[g] = IF g = f THEN ZeroFd ELSE fd_table[g]
    BY <1>3, <2>1, ZeroTypes DEF BaseInv, TypeOK
  <2>3. CursorInBlock' /\ FdsOnFiles'
    BY <2>2 DEF BaseInv, CursorInBlock, FdsOnFiles, ZeroFd, Valid
  <2>4. fd_count' \in 0..(CountMod - 1)
    <3>1. fd_count - 1 \in Int
      BY DEF BaseInv, TypeOK
    <3> QED BY <1>3, <3>1, ModCount
  <2>5. call' = Idle /\ call' \in CallRec /\ ret' \in [val : Int, data : Seq(Bytes)]
    BY <1>3, ReturnType
  <2>6. TypeOK'
    BY <1>3, <2>2, <2>4, <2>5 DEF BaseInv, TypeOK, memory, meta
  <2> QED BY <2>3, <2>5, <2>6, IdleSound DEF BaseInv
<1> QED BY <1>1, <1>2, <1>3 DEF fd_close

\* What a transfer step moves: at least nothing, at most what is asked for, and
\* never past the end of the block.
LEMMA StepBytes ==
  ASSUME NEW c \in Word, NEW d \in Word, d < c, NEW o \in Word, o < D,
         NEW x \in Word, NEW n, n = Min2(Min2(c - d, (D - o) % WordMod), x)
  PROVE  n \in Word /\ d + n \in Word /\ d + n <= c /\ o + n <= D
<1>1. (D - o) % WordMod = D - o
  BY ModSmall DEF Word
<1> QED BY <1>1 DEF Min2, Word

LEMMA WriteStepBytes ==
  ASSUME NEW c \in Word, NEW d \in Word, d < c, NEW o \in Word, o < D,
         NEW n, n = Min2(c - d, (D - o) % WordMod)
  PROVE  n \in Word /\ d + n \in Word /\ d + n <= c /\ o + n <= D
<1>1. (D - o) % WordMod = D - o
  BY ModSmall DEF Word
<1> QED BY <1>1 DEF Min2, Word

\* The descriptor after a transfer of n bytes inside its block.
LEMMA CursorAfter ==
  ASSUME BaseInv, NEW e \in FdEntry, e.cur_block \in Blocks,
         NEW n \in Word, e.block_offset + n <= D
  PROVE  /\ AfterRead(e, n) \in FdEntry /\ AfterWrite(e, n) \in FdEntry
         /\ AfterRead(e, n).block_offset < D /\ AfterWrite(e, n).block_offset < D
         /\ AfterRead(e, n).type = e.type /\ AfterWrite(e, n).type = e.type
         /\ AfterRead(e, n).file = e.file /\ AfterWrite(e, n).file = e.file
<1> DEFINE off == (e.block_offset + n) % WordMod
<1>1. off = e.block_offset + n /\ off \in Word
  <2>1. e.block_offset + n \in Word
    BY DEF FdEntry, Word
  <2> QED BY <2>1, ModSmall
<1>2. (e.pos + n) % WordMod \in Word
  <2>1. e.pos + n \in Int
    BY DEF FdEntry, Word
  <2> QED BY <2>1, ModWord
<1>3. blk[e.cur_block].next \in Ptr
  BY DEF BaseInv, TypeOK, Block
<1>4. 0 \in Word /\ e.cur_block \in Ptr
  BY DEF Word, Ptr
<1> HIDE DEF off
<1>5. AfterRead(e, n) = [e EXCEPT !.pos = (@ + n) % WordMod,
                            !.block_offset = IF off >= D THEN 0 ELSE off,
                            !.cur_block = IF off >= D THEN blk[@].next ELSE @]
  BY DEF AfterRead, off
<1>6. AfterWrite(e, n) = [e EXCEPT !.pos = (@ + n) % WordMod,
                            !.block_offset = IF off >= D THEN 0 ELSE off,
                            !.prev_block = IF off >= D THEN e.cur_block ELSE @,
                            !.cur_block = IF off >= D THEN blk[@].next ELSE @]
  BY DEF AfterWrite, off
<1>7. AfterRead(e, n) \in FdEntry /\ AfterRead(e, n).type = e.type
      /\ AfterRead(e, n).file = e.file
      /\ AfterRead(e, n).block_offset = IF off >= D THEN 0 ELSE off
  BY <1>1, <1>2, <1>3, <1>4, <1>5 DEF FdEntry
<1>8. AfterWrite(e, n) \in FdEntry /\ AfterWrite(e, n).type = e.type
      /\ AfterWrite(e, n).file = e.file
      /\ AfterWrite(e, n).block_offset = IF off >= D THEN 0 ELSE off
  BY <1>1, <1>2, <1>3, <1>4, <1>6 DEF FdEntry
<1> QED BY <1>1, <1>7, <1>8 DEF Word

\* A new value for the descriptor of the call keeps the descriptors sound.
LEMMA UpdateFd ==
  ASSUME BaseInv, NEW f \in Fds, NEW e \in FdEntry,
         fd_table' = [fd_table EXCEPT ![f] = e],
         Valid(e.cur_block) => e.block_offset < D,
         e.type = "file" => e.file \in Files
  PROVE  /\ fd_table' \in [Fds -> FdEntry] /\ CursorInBlock' /\ FdsOnFiles'
         /\ fd_table'[f] = e
<1>1. /\ fd_table' \in [Fds -> FdEntry]
      /\ \A g \in Fds : fd_table'[g] = IF g = f THEN e ELSE fd_table[g]
  BY DEF BaseInv, TypeOK
<1> QED BY <1>1 DEF BaseInv, CursorInBlock, FdsOnFiles

LEMMA ReadCallBase ==
  ASSUME BaseInv, NEW f \in AnyFd, NEW count \in Counts, mfs_read(f, count)
  PROVE  BaseInv'
<1>1. CASE Reply(-1)
  BY <1>1, ReplyBase
<1>2. CASE Reply(0)
  BY <1>2, ReplyBase
<1>3. CASE /\ Usable(f, "r")
           /\ Begin([Idle EXCEPT !.op = "read", !.pc = "loop", !.fd = f,
                                 !.count = count])
           /\ UNCHANGED <<memory, meta, blk, fds>>
  <2> DEFINE c == [Idle EXCEPT !.op = "read", !.pc = "loop", !.fd = f,
                               !.count = count]
  <2>1. f \in Fds /\ fd_table[f].type = "file"
    BY <1>3 DEF Usable, IsFile
  <2>2. count \in Word
    BY InputAssumption
  <2>3. c \in CallRec /\ c.op = "read" /\ c.fd = f
    BY <2>1, <2>2, ZeroTypes DEF CallRec, Idle
  <2> QED BY <1>3, <2>1, <2>3, BeginBase
<1> QED BY <1>1, <1>2, <1>3 DEF mfs_read

LEMMA ReadBase ==
  ASSUME BaseInv, ReadBlock \/ ReadDone PROVE BaseInv'
<1>1. CASE ReadBlock
  <2> DEFINE e == fd_table[call.fd]
             n == ReadBytes(e)
             got == [k \in 1..n |-> blk[e.cur_block].data[e.block_offset + k - 1]]
  <2>1. /\ call \in CallRec /\ call.fd \in Fds /\ e \in FdEntry
        /\ e.type = "file" /\ e.file \in Files
    BY <1>1 DEF ReadBlock, BaseInv, TypeOK, CallRec, CallSound, FdsOnFiles
  <2>2. e.cur_block \in Blocks /\ e.block_offset < D
    BY <1>1, <2>1, BlockFacts
       DEF ReadBlock, ReadMore, BaseInv, CursorInBlock, FdEntry
  <2>3. (files[e.file].size - e.pos) % WordMod \in Word
    <3>1. files[e.file].size - e.pos \in Int
      BY <2>1 DEF BaseInv, TypeOK, FileEntry, FdEntry, Word
    <3> QED BY <3>1, ModWord
  <2>4. /\ n \in Word /\ call.done + n \in Word /\ e.block_offset + n <= D
    <3>1. /\ call.count \in Word /\ call.done \in Word /\ call.done < call.count
          /\ e.block_offset \in Word
      BY <1>1, <2>1 DEF ReadBlock, ReadMore, CallRec, FdEntry
    <3> QED BY <2>2, <2>3, <3>1, StepBytes DEF ReadBytes
  <2>5. got \in Seq(Bytes)
    <3>1. blk[e.cur_block].data \in [0..(D - 1) -> Bytes]
      BY <2>2 DEF BaseInv, TypeOK, Block
    <3>2. \A k \in 1..n : e.block_offset + k - 1 \in 0..(D - 1)
      BY <2>1, <2>4 DEF FdEntry, Word
    <3>3. got \in [1..n -> Bytes] /\ n \in Nat
      BY <2>4, <3>1, <3>2 DEF Word
    <3> HIDE DEF got, n
    <3> QED BY <3>3
  <2>6. /\ fd_table' = [fd_table EXCEPT ![call.fd] = AfterRead(e, n)]
        /\ call' = [call EXCEPT !.done = @ + n, !.buf = @ \o got]
    BY <1>1 DEF ReadBlock
  <2> HIDE DEF n, got
  <2>7. call' \in CallRec /\ call'.fd = call.fd /\ call'.op = "read"
    <3>1. call.op = "read"
      BY <1>1 DEF ReadBlock
    <3>2. call.buf \o got \in Seq(Bytes)
      BY <2>1, <2>5 DEF CallRec
    <3> QED BY <2>1, <2>4, <2>6, <3>1, <3>2 DEF CallRec
  <2>8. /\ fd_table' \in [Fds -> FdEntry] /\ CursorInBlock' /\ FdsOnFiles'
        /\ fd_table'[call.fd].type = "file"
    BY <2>1, <2>2, <2>4, <2>6, CursorAfter, UpdateFd
  <2>9. TypeOK'
    BY <1>1, <2>7, <2>8 DEF ReadBlock, BaseInv, TypeOK, memory, meta
  <2>10. CallSound'
    BY <2>7, <2>8 DEF CallSound
  <2> QED BY <2>8, <2>9, <2>10 DEF BaseInv
<1>2. CASE ReadDone
  <2>1. /\ fd_table' = fd_table /\ call' = Idle
        /\ ret' \in [val : Int, data : Seq(Bytes)]
    BY <1>2 DEF ReadDone, fds, BaseInv, TypeOK, CallRec, Word
  <2>2. TypeOK'
    BY <1>2, <2>1, ZeroTypes DEF ReadDone, BaseInv, TypeOK, memory, meta, fds
  <2> QED BY <2>1, <2>2, BaseFrame, IdleSound
<1> QED BY <1>1, <1>2

LEMMA BufferFacts ==
  \A buf \in Buffers : buf \in Seq(Bytes) /\ Len(buf) \in Word
<1> SUFFICES ASSUME NEW buf \in Buffers
             PROVE  buf \in Seq(Bytes) /\ Len(buf) \in Word
  OBVIOUS
<1>1. PICK k \in Counts : buf \in [1..k -> Bytes]
  BY DEF Buffers
<1>2. k \in Word /\ k \in Nat
  BY InputAssumption DEF Word
<1> QED BY <1>1, <1>2

LEMMA WriteCallBase ==
  ASSUME BaseInv, NEW f \in AnyFd, NEW buf \in Buffers, mfs_write(f, buf)
  PROVE  BaseInv'
<1>1. CASE Reply(-1)
  BY <1>1, ReplyBase
<1>2. CASE /\ Usable(f, "w")
           /\ Begin([Idle EXCEPT !.op = "write", !.pc = "loop", !.fd = f,
                                 !.count = Len(buf), !.buf = buf])
           /\ UNCHANGED <<memory, meta, blk, fds>>
  <2> DEFINE c == [Idle EXCEPT !.op = "write", !.pc = "loop", !.fd = f,
                               !.count = Len(buf), !.buf = buf]
  <2>1. f \in Fds /\ fd_table[f].type = "file"
    BY <1>2 DEF Usable, IsFile
  <2>2. /\ c \in CallRec /\ c.op = "write" /\ c.fd = f
        /\ c.buf = buf /\ c.count = Len(buf)
    BY <2>1, BufferFacts, ZeroTypes DEF CallRec, Idle
  <2> QED BY <1>2, <2>1, <2>2, BeginBase
<1> QED BY <1>1, <1>2 DEF mfs_write

\* Moving the cursor keeps a descriptor a descriptor.
LEMMA MovedFd ==
  \A e \in FdEntry, b \in Ptr, o \in Word, q \in Word :
    /\ [e EXCEPT !.cur_block = b, !.block_offset = o] \in FdEntry
    /\ [e EXCEPT !.pos = q, !.cur_block = b, !.block_offset = o] \in FdEntry
  BY DEF FdEntry

LEMMA BufferIndex ==
  ASSUME NEW d \in Nat, NEW c \in Nat, NEW o \in Nat, NEW n \in Nat, NEW k \in Nat,
         d + n <= c, k >= o, k < o + n
  PROVE  d + k - o + 1 \in 1..c
  OBVIOUS

LEMMA WriteBase ==
  ASSUME BaseInv,
         WriteAlloc \/ WriteFull \/ WriteLink \/ WriteData \/ WriteDone
  PROVE  BaseInv'
<1> DEFINE e == fd_table[call.fd]
<1>0. /\ call \in CallRec /\ call.op = "write" /\ call.fd \in Fds
      /\ e \in FdEntry /\ e.type = "file" /\ e.file \in Files
      /\ Len(call.buf) = call.count
  <2>1. call.op = "write"
    BY DEF WriteAlloc, WriteFull, WriteLink, WriteData, WriteDone, WriteMore, Writing
  <2> QED BY <2>1 DEF BaseInv, TypeOK, CallRec, CallSound, FdsOnFiles
<1>1. CASE WriteAlloc
  <2>1. PICK b \in Blocks :
          /\ bitmap' = bitmap \cup {b}
          /\ blk' = [blk EXCEPT ![b] = BlankBlock]
          /\ call' = [call EXCEPT !.pc = "link", !.block = b]
    BY <1>1 DEF WriteAlloc
  <2>2. bitmap' \in SUBSET Blocks /\ blk' \in [Blocks -> Block]
    BY <2>1, ZeroTypes DEF BaseInv, TypeOK
  <2>3. /\ call' \in CallRec /\ call'.op = "write" /\ call'.fd = call.fd
        /\ call'.buf = call.buf /\ call'.count = call.count
    BY <1>0, <2>1 DEF CallRec, Ptr
  <2>4. TypeOK' /\ fd_table' = fd_table
    BY <1>1, <2>2, <2>3 DEF WriteAlloc, BaseInv, TypeOK, meta, fds
  <2>5. CallSound'
    BY <1>0, <2>3, <2>4 DEF CallSound
  <2> QED BY <2>4, <2>5, BaseFrame
<1>2. CASE WriteFull
  <2>1. /\ fd_table' = fd_table /\ call' = Idle /\ call' \in CallRec
        /\ ret' \in [val : Int, data : Seq(Bytes)]
    BY <1>2, ReturnType DEF WriteFull, fds
  <2>2. TypeOK'
    BY <1>2, <2>1 DEF WriteFull, BaseInv, TypeOK, memory, meta, fds
  <2> QED BY <2>1, <2>2, BaseFrame, IdleSound
<1>3. CASE WriteLink
  <2> DEFINE x == [e EXCEPT !.cur_block = call.block, !.block_offset = 0]
  <2>1. call.block \in Ptr
    BY <1>0 DEF CallRec
  <2>2. blk' \in [Blocks -> Block]
    <3>1. CASE e.prev_block # 0 /\ blk' = [blk EXCEPT ![e.prev_block].next = call.block]
      <4>1. e.prev_block \in Blocks
        BY <1>0, <3>1, BlockFacts DEF FdEntry
      <4>2. blk[e.prev_block] \in Block /\ blk \in [Blocks -> Block]
        BY <4>1 DEF BaseInv, TypeOK
      <4>3. [blk[e.prev_block] EXCEPT !.next = call.block] \in Block
        BY <2>1, <4>2 DEF Block
      <4> HIDE DEF e
      <4> QED BY <3>1, <4>1, <4>2, <4>3
    <3> QED BY <1>3, <3>1 DEF WriteLink, BaseInv, TypeOK
  <2>3. files' \in [Files -> FileEntry]
    <3>1. CASE files' = [files EXCEPT ![e.file].block = call.block]
      BY <1>0, <2>1, <3>1 DEF BaseInv, TypeOK, FileEntry
    <3> QED BY <1>3, <3>1 DEF WriteLink, BaseInv, TypeOK
  <2>4. x \in FdEntry /\ x.block_offset < D /\ x.type = "file" /\ x.file \in Files
    <3>1. 0 \in Word /\ 0 < D
      BY DEF Word
    <3> HIDE DEF e
    <3>2. x \in FdEntry
      BY <1>0, <2>1, <3>1, MovedFd
    <3> QED BY <1>0, <3>1, <3>2 DEF FdEntry
  <2>5. fd_table' = [fd_table EXCEPT ![call.fd] = x]
    BY <1>3 DEF WriteLink, BaseInv, TypeOK
  <2>6. /\ fd_table' \in [Fds -> FdEntry] /\ CursorInBlock' /\ FdsOnFiles'
        /\ fd_table'[call.fd].type = "file"
    BY <1>0, <2>4, <2>5, UpdateFd
  <2>7. /\ call' \in CallRec /\ call'.op = "write" /\ call'.fd = call.fd
        /\ call'.buf = call.buf /\ call'.count = call.count
    BY <1>0, <1>3 DEF WriteLink, CallRec, Ptr
  <2>8. TypeOK'
    BY <1>3, <2>2, <2>3, <2>6, <2>7 DEF WriteLink, BaseInv, TypeOK, meta
  <2>9. CallSound'
    BY <1>0, <2>6, <2>7 DEF CallSound
  <2> QED BY <2>6, <2>8, <2>9 DEF BaseInv
<1>4. CASE WriteData
  <2> DEFINE n   == WriteBytes(e)
             pos == (e.pos + n) % WordMod
             new == [k \in 0..(D - 1) |->
                        IF k >= e.block_offset /\ k < e.block_offset + n
                        THEN call.buf[call.done + k - e.block_offset + 1]
                        ELSE blk[e.cur_block].data[k]]
  <2>1. e.cur_block \in Blocks /\ e.block_offset < D /\ e.block_offset \in Word
    BY <1>0, <1>4, BlockFacts DEF WriteData, BaseInv, CursorInBlock, FdEntry
  <2>2. /\ n \in Word /\ call.done + n \in Word
        /\ call.done + n <= call.count /\ e.block_offset + n <= D
    <3>1. /\ call.count \in Word /\ call.done \in Word /\ call.done < call.count
      BY <1>0, <1>4 DEF WriteData, WriteMore, CallRec
    <3> QED BY <2>1, <3>1, WriteStepBytes DEF WriteBytes
  <2>3. new \in [0..(D - 1) -> Bytes]
    <3>1. blk[e.cur_block].data \in [0..(D - 1) -> Bytes]
      BY <2>1 DEF BaseInv, TypeOK, Block
    <3>2. \A i \in 1..Len(call.buf) : call.buf[i] \in Bytes
      BY <1>0 DEF CallRec
    <3>3. ASSUME NEW k \in 0..(D - 1), k >= e.block_offset, k < e.block_offset + n
          PROVE  call.done + k - e.block_offset + 1 \in 1..Len(call.buf)
      <4>1. call.done \in Word /\ Len(call.buf) = call.count /\ call.count \in Word
        BY <1>0 DEF CallRec
      <4>2. /\ call.done \in Nat /\ call.count \in Nat /\ n \in Nat
            /\ e.block_offset \in Nat /\ k \in Nat
        BY <2>1, <2>2, <4>1 DEF Word
      <4> HIDE DEF n, e
      <4> QED BY <2>2, <3>3, <4>1, <4>2, BufferIndex
    <3> HIDE DEF n
    <3> QED BY <3>1, <3>2, <3>3
  <2>4. pos \in Word
    <3>1. e.pos + n \in Int
      BY <1>0, <2>2 DEF FdEntry, Word
    <3> QED BY <3>1, ModWord
  <2>5. /\ blk' = [blk EXCEPT ![e.cur_block].data = new]
        /\ fd_table' = [fd_table EXCEPT ![call.fd] = AfterWrite(e, n)]
        /\ files' = [files EXCEPT ![e.file].size = IF pos > @ THEN pos ELSE @]
        /\ call' = [call EXCEPT !.done = @ + n]
    BY <1>4, <2>1 DEF WriteData, BaseInv, TypeOK
  <2> HIDE DEF n, pos, new
  <2>6. blk' \in [Blocks -> Block]
    <3>1. blk \in [Blocks -> Block] /\ blk[e.cur_block] \in Block
      BY <2>1 DEF BaseInv, TypeOK
    <3>2. [blk[e.cur_block] EXCEPT !.data = new] \in Block
      BY <2>3, <3>1 DEF Block
    <3> HIDE DEF e
    <3> QED BY <2>1, <2>5, <3>1, <3>2
  <2>7. files' \in [Files -> FileEntry]
    <3> DEFINE x == files[e.file]
               s == IF pos > x.size THEN pos ELSE x.size
    <3>1. files \in [Files -> FileEntry] /\ x \in FileEntry /\ s \in Word
      BY <1>0, <2>4 DEF BaseInv, TypeOK, FileEntry
    <3>2. [x EXCEPT !.size = s] \in FileEntry
      <4> HIDE DEF e, x, s
      <4> QED BY <3>1 DEF FileEntry
    <3>3. files' = [files EXCEPT ![e.file] = [x EXCEPT !.size = s]]
      BY <2>5
    <3> HIDE DEF e, x, s
    <3> QED BY <1>0, <3>1, <3>2, <3>3
  <2>8. /\ call' \in CallRec /\ call'.op = "write" /\ call'.fd = call.fd
        /\ call'.buf = call.buf /\ call'.count = call.count
    BY <1>0, <2>2, <2>5 DEF CallRec
  <2>9. /\ fd_table' \in [Fds -> FdEntry] /\ CursorInBlock' /\ FdsOnFiles'
        /\ fd_table'[call.fd].type = "file"
    BY <1>0, <2>1, <2>2, <2>5, CursorAfter, UpdateFd
  <2>10. TypeOK'
    BY <1>4, <2>6, <2>7, <2>8, <2>9 DEF WriteData, BaseInv, TypeOK, meta
  <2>11. CallSound'
    BY <1>0, <2>8, <2>9 DEF CallSound
  <2> QED BY <2>9, <2>10, <2>11 DEF BaseInv
<1>5. CASE WriteDone
  <2>1. /\ fd_table' = fd_table /\ call' = Idle /\ call' \in CallRec
        /\ ret' \in [val : Int, data : Seq(Bytes)]
    <3>1. call.done \in Int
      BY <1>0 DEF CallRec, Word
    <3> QED BY <1>5, <3>1, ReturnType DEF WriteDone, fds
  <2>2. TypeOK'
    BY <1>5, <2>1 DEF WriteDone, BaseInv, TypeOK, memory, meta, fds
  <2> QED BY <2>1, <2>2, BaseFrame, IdleSound
<1> QED BY <1>1, <1>2, <1>3, <1>4, <1>5

LEMMA SeekCallBase ==
  ASSUME BaseInv, NEW f \in AnyFd, NEW pos \in SeekPos, NEW whence \in Whences,
         mfs_seek(f, pos, whence)
  PROVE  BaseInv'
<1>1. CASE Reply(-1)
  BY <1>1, ReplyBase
<1>2. CASE /\ IsFile(f)
           /\ \E o \in SeekOffsets(fd_table[f], pos, whence) :
                Begin([Idle EXCEPT !.op = "seek", !.pc = "loop", !.fd = f,
                           !.pos = pos, !.offset = o,
                           !.block = files[fd_table[f].file].block])
           /\ UNCHANGED <<memory, meta, blk, fds>>
  <2>1. f \in Fds /\ fd_table[f].file \in Files /\ fd_table[f] \in FdEntry
    BY <1>2 DEF IsFile, BaseInv, TypeOK, FdsOnFiles
  <2>2. pos \in Word
    BY InputAssumption
  <2>3. PICK o \in SeekOffsets(fd_table[f], pos, whence) :
          Begin([Idle EXCEPT !.op = "seek", !.pc = "loop", !.fd = f,
                     !.pos = pos, !.offset = o,
                     !.block = files[fd_table[f].file].block])
    BY <1>2
  <2>4. /\ files[fd_table[f].file].size + pos \in Int
        /\ fd_table[f].pos + pos \in Int
    BY <2>1, <2>2 DEF BaseInv, TypeOK, FileEntry, FdEntry, Word
  <2>5. o \in Word
    BY <2>2, <2>4, ModWord DEF SeekOffsets
  <2>6. files[fd_table[f].file].block \in Ptr
    BY <2>1 DEF BaseInv, TypeOK, FileEntry
  <2> DEFINE c == [Idle EXCEPT !.op = "seek", !.pc = "loop", !.fd = f,
                       !.pos = pos, !.offset = o,
                       !.block = files[fd_table[f].file].block]
  <2>7. c \in CallRec /\ c.op = "seek"
    BY <2>1, <2>2, <2>5, <2>6, ZeroTypes DEF CallRec, Idle
  <2> QED BY <1>2, <2>3, <2>7, BeginBase
<1> QED BY <1>1, <1>2 DEF mfs_seek

LEMMA SeekBase ==
  ASSUME BaseInv, SeekBlock \/ SeekDone PROVE BaseInv'
<1>0. /\ call \in CallRec /\ call.fd \in Fds /\ call.offset \in Word
      /\ call.block \in Ptr /\ call.pos \in Word /\ call.op = "seek"
  BY DEF BaseInv, TypeOK, CallRec, SeekBlock, SeekDone
<1>1. CASE SeekBlock
  <2>1. call.block \in Blocks /\ call.offset - D \in Word
    BY <1>0, <1>1, BlockFacts DEF SeekBlock, SeekMore, Word
  <2>2. blk[call.block].next \in Ptr
    BY <2>1 DEF BaseInv, TypeOK, Block
  <2>3. call' \in CallRec /\ call'.op = "seek"
    BY <1>0, <1>1, <2>1, <2>2 DEF SeekBlock, CallRec
  <2>4. TypeOK' /\ fd_table' = fd_table
    BY <1>1, <2>3 DEF SeekBlock, BaseInv, TypeOK, memory, meta, fds
  <2>5. CallSound'
    BY <2>3 DEF CallSound
  <2> QED BY <2>4, <2>5, BaseFrame
<1>2. CASE SeekDone
  <2> DEFINE e == fd_table[call.fd]
             x == [e EXCEPT !.pos = call.pos, !.cur_block = call.block,
                            !.block_offset = call.offset]
  <2>1. e \in FdEntry /\ (e.type = "file" => e.file \in Files)
    BY <1>0 DEF BaseInv, TypeOK, FdsOnFiles
  <2>2. fd_table' = [fd_table EXCEPT ![call.fd] = x]
    BY <1>2 DEF SeekDone, BaseInv, TypeOK
  <2>3. Valid(call.block) => call.offset < D
    BY <1>0, <1>2 DEF SeekDone, SeekMore, Word
  <2>4. /\ x \in FdEntry /\ x.type = e.type /\ x.file = e.file
        /\ x.cur_block = call.block /\ x.block_offset = call.offset
    <3> HIDE DEF e
    <3>1. x \in FdEntry
      BY <1>0, <2>1, MovedFd
    <3> QED BY <2>1, <3>1 DEF FdEntry
  <2> HIDE DEF e, x
  <2>5. fd_table' \in [Fds -> FdEntry] /\ CursorInBlock' /\ FdsOnFiles'
    BY <1>0, <2>1, <2>2, <2>3, <2>4, UpdateFd
  <2>6. call' = Idle /\ call' \in CallRec /\ ret' \in [val : Int, data : Seq(Bytes)]
    <3>1. call.pos \in Int
      BY <1>0 DEF Word
    <3> QED BY <1>2, <3>1, ReturnType DEF SeekDone
  <2>7. TypeOK'
    BY <1>2, <2>5, <2>6 DEF SeekDone, BaseInv, TypeOK, memory, meta
  <2> QED BY <2>5, <2>6, <2>7, IdleSound DEF BaseInv
<1> QED BY <1>1, <1>2

LEMMA DeleteCallBase ==
  ASSUME BaseInv, NEW n \in Names, mfs_delete(n) PROVE BaseInv'
<1>1. CASE Reply(-1)
  BY <1>1, ReplyBase
<1>2. ASSUME NEW i \in Files,
             Begin([Idle EXCEPT !.op = "delete", !.pc = "loop", !.file = i,
                                !.block = files[i].block]),
             UNCHANGED <<memory, meta, blk, fds>>
      PROVE  BaseInv'
  <2> DEFINE c == [Idle EXCEPT !.op = "delete", !.pc = "loop", !.file = i,
                               !.block = files[i].block]
  <2>1. files[i].block \in Ptr
    BY DEF BaseInv, TypeOK, FileEntry
  <2>2. c \in CallRec /\ c.op = "delete"
    BY <2>1, ZeroTypes DEF CallRec, Idle
  <2> QED BY <1>2, <2>2, BeginBase
<1> QED BY <1>1, <1>2 DEF mfs_delete

LEMMA DeleteBase ==
  ASSUME BaseInv, DeleteBlock \/ DeleteEntry PROVE BaseInv'
<1>0. /\ call \in CallRec /\ call.file \in Files /\ call.block \in Ptr
      /\ call.op = "delete"
  BY DEF BaseInv, TypeOK, CallRec, DeleteBlock, DeleteEntry, Deleting
<1>1. CASE DeleteBlock
  <2>1. call.block \in Blocks
    BY <1>0, <1>1, BlockFacts DEF DeleteBlock
  <2>2. blk[call.block].next \in Ptr
    BY <2>1 DEF BaseInv, TypeOK, Block
  <2>3. call' \in CallRec /\ call'.op = "delete"
    BY <1>0, <1>1, <2>2 DEF DeleteBlock, CallRec
  <2>4. blk' \in [Blocks -> Block] /\ bitmap' \in SUBSET Blocks
    BY <1>1, ZeroTypes DEF DeleteBlock, BaseInv, TypeOK
  <2>5. TypeOK' /\ fd_table' = fd_table
    BY <1>1, <2>3, <2>4 DEF DeleteBlock, BaseInv, TypeOK, meta, fds
  <2>6. CallSound'
    BY <2>3 DEF CallSound
  <2> QED BY <2>5, <2>6, BaseFrame
<1>2. CASE DeleteEntry
  <2>1. call' \in CallRec /\ call'.op = "delete"
    BY <1>0, <1>2 DEF DeleteEntry, CallRec
  <2>2. files' \in [Files -> FileEntry]
    BY <1>0, <1>2, ZeroTypes DEF DeleteEntry, BaseInv, TypeOK
  <2>3. filecount' \in 0..255
    <3>1. filecount - 1 \in Int
      BY DEF BaseInv, TypeOK
    <3> QED BY <1>2, <3>1, ModByte DEF DeleteEntry
  <2>4. TypeOK' /\ fd_table' = fd_table
    BY <1>2, <2>1, <2>2, <2>3 DEF DeleteEntry, BaseInv, TypeOK, meta, fds
  <2>5. CallSound'
    BY <2>1 DEF CallSound
  <2> QED BY <2>4, <2>5, BaseFrame
<1> QED BY <1>1, <1>2

LEMMA QueryBase ==
  ASSUME BaseInv,
         mfs_sync \/ mfs_list \/ \E n \in Names : mfs_filesize(n)
  PROVE  BaseInv'
<1>1. CASE mfs_sync
  BY <1>1, FlushType, BeginBase DEF mfs_sync
<1>2. CASE mfs_list
  <2>1. filecount \in Int
    BY DEF BaseInv, TypeOK
  <2> QED BY <1>2, <2>1, ReplyBase DEF mfs_list
<1>3. ASSUME NEW n \in Names, mfs_filesize(n) PROVE BaseInv'
  <2>1. \A i \in Files : files[i].size \in Int
    BY DEF BaseInv, TypeOK, FileEntry, Word
  <2> QED BY <1>3, <2>1, ReplyBase DEF mfs_filesize
<1> QED BY <1>1, <1>2, <1>3

LEMMA BaseStep == BaseInv /\ [Next]_vars => BaseInv'
<1> SUFFICES ASSUME BaseInv, [Next]_vars PROVE BaseInv'
  OBVIOUS
<1>1. CASE Syscall
  BY <1>1, OpenBase, CloseBase, ReadCallBase, WriteCallBase, SeekCallBase,
     DeleteCallBase, QueryBase DEF Syscall
<1>2. CASE KernelStep
  BY <1>2, FlushBase, ReadBase, WriteBase, SeekBase, DeleteBase DEF KernelStep
<1>3. CASE UNCHANGED vars
  BY <1>3 DEF vars, BaseInv, TypeOK, CursorInBlock, FdsOnFiles, CallSound
<1> QED BY <1>1, <1>2, <1>3 DEF Next

\* Every variable of the kernel keeps its type in every behaviour of the file
\* system: fields stay inside their words, pointers inside the disk, indices
\* inside the tables (fs/mfs.c, fs/fd.c).
THEOREM TypeCorrect == Spec => []TypeOK
<1>1. BaseInv => TypeOK
  BY DEF BaseInv
<1> QED BY <1>1, BaseInit, BaseStep, PTL DEF Spec

\* Whatever calls programs make, also with an unknown whence, the cursor of a
\* descriptor stays inside its block, so that mfs_read and mfs_write copy inside
\* the 512-byte sector buffer and move at least one byte per iteration.
THEOREM CursorStaysInBlock == Spec => []CursorInBlock
<1>1. BaseInv => CursorInBlock
  BY DEF BaseInv
<1> QED BY <1>1, BaseInit, BaseStep, PTL DEF Spec
----------------------------------------------------------------------------
(***************************************************************************)
(* The block chains of MFS: no block is pointed to twice, and every block  *)
(* that is pointed to is marked.  Neither fact is inductive alone: a new   *)
(* block is unpointed because what is pointed to is marked, and a delete   *)
(* may clear a bit because its block is pointed to once.                   *)
(***************************************************************************)

\* Nothing on disk or in the table points to b.
Unpointed(b) == /\ \A i \in Files : files[i].block # b
                /\ \A c \in Blocks : blk[c].next # b

\* The block a write has allocated and not yet linked.
NewBlock == Writing("link") => call.block \in bitmap /\ Unpointed(call.block)

\* The block a delete is about to erase: only its own file entry may still
\* point to it.
DoomedBlock ==
    Deleting /\ call.block # 0 =>
        /\ call.block \in bitmap
        /\ \A i \in Files \ {call.file} : files[i].block # call.block
        /\ \A c \in Blocks : blk[c].next # call.block

LinkInv == SinglyLinked /\ LinkedMarked /\ NewBlock /\ DoomedBlock

\* LinkInv speaks only of these: steps that keep them keep it.
LEMMA LinkFrame ==
  ASSUME LinkInv, bitmap \subseteq bitmap',
         \A i \in Files : files'[i].block = files[i].block,
         \A b \in Blocks : blk'[b].next = blk[b].next,
         ~Deleting, ~Writing("link")',
         ~Deleting'
  PROVE  LinkInv'
<1>1. SinglyLinked'
  BY DEF LinkInv, SinglyLinked
<1>2. LinkedMarked'
  BY DEF LinkInv, LinkedMarked
<1>3. NewBlock' /\ DoomedBlock'
  BY DEF NewBlock, DoomedBlock
<1> QED BY <1>1, <1>2, <1>3 DEF LinkInv

LEMMA LinkInit == Init => LinkInv
<1> SUFFICES ASSUME Init PROVE LinkInv
  OBVIOUS
<1>1. /\ \A i \in Files : files[i].block = 0
      /\ \A b \in Blocks : blk[b].next = 0
  BY DEF Init, ZeroFile, BlankBlock
<1>2. ~Deleting /\ ~Writing("link")
  BY DEF Init, Idle, Deleting, Writing
<1> QED BY <1>1, <1>2
        DEF LinkInv, SinglyLinked, LinkedMarked, NewBlock, DoomedBlock

\* A block that alloc_block returns is not pointed to.
LEMMA AllocUnpointed ==
  ASSUME LinkInv, ~Deleting, NEW b \in Blocks, b \notin bitmap
  PROVE  Unpointed(b)
<1>1. b # 0
  BY BlockFacts
<1> QED BY <1>1 DEF LinkInv, LinkedMarked, Unpointed

LEMMA IdleNot == call.op = "idle" => ~Deleting /\ ~Writing("link")
  BY DEF Deleting, Writing

LEMMA IdleNotPrimed == call' = Idle => ~Deleting' /\ ~Writing("link")'
  BY DEF Deleting, Writing, Idle

LEMMA ReplyLink ==
  ASSUME LinkInv, NEW r, Reply(r) PROVE LinkInv'
<1>1. ~Deleting /\ ~Deleting' /\ ~Writing("link")'
  BY IdleNot, IdleNotPrimed DEF Reply, Return
<1>2. bitmap' = bitmap /\ files' = files /\ blk' = blk
  BY DEF Reply, memory
<1> QED BY <1>1, <1>2, LinkFrame

\* A call that starts with nothing but its locals changed.
LEMMA BeginLink ==
  ASSUME LinkInv, NEW c, Begin(c), UNCHANGED <<memory, meta, blk, fds>>,
         c.op # "delete", c.pc # "link"
  PROVE  LinkInv'
<1>1. ~Deleting /\ ~Deleting' /\ ~Writing("link")'
  BY IdleNot DEF Begin, Deleting, Writing
<1>2. bitmap' = bitmap /\ files' = files /\ blk' = blk
  BY DEF memory
<1> QED BY <1>1, <1>2, LinkFrame

LEMMA FdCreateIdle == \A e : fd_create(e) => call' = Idle
  BY DEF fd_create, Return

LEMMA OpenLink ==
  ASSUME BaseInv, LinkInv, NEW n \in Names, NEW fl \in OpenFlags,
         \/ OpenExisting(n, fl) \/ OpenMissing(n, fl)
         \/ OpenNoRoom(n, fl)   \/ OpenCreate(n, fl)
  PROVE  LinkInv'
<1>1. CASE OpenExisting(n, fl)
  <2>1. call' = Idle
    BY <1>1, FdCreateIdle DEF OpenExisting, OpenFd
  <2>2. bitmap' = bitmap /\ files' = files /\ blk' = blk
    BY <1>1 DEF OpenExisting, memory
  <2>3. ~Deleting /\ ~Deleting' /\ ~Writing("link")'
    BY <1>1, <2>1, IdleNot, IdleNotPrimed DEF OpenExisting
  <2> QED BY <2>2, <2>3, LinkFrame
<1>2. CASE OpenMissing(n, fl)
  BY <1>2, ReplyLink DEF OpenMissing
<1>3. CASE OpenNoRoom(n, fl)
  <2>1. ~Deleting /\ ~Deleting' /\ ~Writing("link")'
    BY <1>3, IdleNot, IdleNotPrimed DEF OpenNoRoom, Return
  <2>2. bitmap \subseteq bitmap' /\ files' = files /\ blk' = blk
    BY <1>3 DEF OpenNoRoom
  <2> QED BY <2>1, <2>2, LinkFrame
<1>4. CASE OpenCreate(n, fl)
  <2>1. PICK b \in Blocks, i \in Files :
           /\ b \notin bitmap
           /\ bitmap' = bitmap \cup {b}
           /\ files' = [files EXCEPT ![i] = [used |-> TRUE, name |-> Stored[n],
                           size |-> 0, block_size |-> 0, block |-> b]]
           /\ blk' = [blk EXCEPT ![b] = BlankBlock]
           /\ Begin([Flush("open") EXCEPT !.file = i, !.acc = fl.acc,
                                          !.append = fl.append])
    BY <1>4 DEF OpenCreate, alloc_block
  <2>2. ~Deleting /\ ~Deleting' /\ ~Writing("link")'
    BY <2>1, IdleNot DEF Begin, Flush, Idle, Deleting, Writing
  <2>3. Unpointed(b) /\ b # 0
    BY <2>1, <2>2, AllocUnpointed, BlockFacts
  <2>4. \A j \in Files : files'[j].block = IF j = i THEN b ELSE files[j].block
    BY <2>1 DEF BaseInv, TypeOK
  <2>5. \A c \in Blocks : blk'[c].next = IF c = b THEN 0 ELSE blk[c].next
    BY <2>1 DEF BaseInv, TypeOK, BlankBlock
  <2>6. SinglyLinked'
    BY <2>3, <2>4, <2>5 DEF LinkInv, SinglyLinked, Unpointed
  <2>7. LinkedMarked'
    BY <2>1, <2>2, <2>4, <2>5 DEF LinkInv, LinkedMarked
  <2> QED BY <2>2, <2>6, <2>7 DEF LinkInv, NewBlock, DoomedBlock
<1> QED BY <1>1, <1>2, <1>3, <1>4

LEMMA FlushLink ==
  ASSUME BaseInv, LinkInv, WriteRoot \/ WriteBitmap \/ WriteEntries
  PROVE  LinkInv'
<1>1. ~Deleting
  BY DEF WriteRoot, WriteBitmap, WriteEntries, Deleting
<1>2. bitmap' = bitmap /\ files' = files /\ blk' = blk
  BY DEF WriteRoot, WriteBitmap, WriteEntries, memory
<1>3. ~Deleting' /\ ~Writing("link")'
  <2>1. CASE WriteRoot \/ WriteBitmap
    BY <2>1 DEF WriteRoot, WriteBitmap, Deleting, Writing, BaseInv, TypeOK, CallRec
  <2>2. CASE WriteEntries
    <3>1. call' = Idle
      BY <2>2, FdCreateIdle DEF WriteEntries, OpenFd, CloseFd, Return
    <3> QED BY <3>1, IdleNotPrimed
  <2> QED BY <2>1, <2>2
<1> QED BY <1>1, <1>2, <1>3, LinkFrame

LEMMA CloseLink ==
  ASSUME LinkInv, NEW f \in AnyFd, fd_close(f) PROVE LinkInv'
<1>1. CASE Reply(1)
  BY <1>1, ReplyLink
<1>2. CASE /\ Begin([Flush("close") EXCEPT !.fd = f])
           /\ UNCHANGED <<memory, meta, blk, fds>>
  <2>1. /\ [Flush("close") EXCEPT !.fd = f].op = "close"
        /\ [Flush("close") EXCEPT !.fd = f].pc = "root"
    BY DEF Flush, Idle
  <2> QED BY <1>2, <2>1, BeginLink
<1>3. CASE call.op = "idle" /\ Return(0) /\ UNCHANGED <<memory, meta, blk>>
  <2>1. ~Deleting /\ ~Deleting' /\ ~Writing("link")'
    BY <1>3, IdleNot, IdleNotPrimed DEF Return
  <2>2. bitmap' = bitmap /\ files' = files /\ blk' = blk
    BY <1>3 DEF memory
  <2> QED BY <2>1, <2>2, LinkFrame
<1> QED BY <1>1, <1>2, <1>3 DEF fd_close

\* The calls that only start a transfer or a walk, and the queries.
LEMMA OtherCallLink ==
  ASSUME LinkInv,
         \/ \E f \in AnyFd :
              \/ \E count \in Counts : mfs_read(f, count)
              \/ \E buf \in Buffers : mfs_write(f, buf)
              \/ \E pos \in SeekPos, whence \in Whences : mfs_seek(f, pos, whence)
         \/ \E n \in Names : mfs_filesize(n)
         \/ mfs_sync \/ mfs_list
  PROVE  LinkInv'
<1>1. ASSUME NEW f, NEW count, mfs_read(f, count) PROVE LinkInv'
  <2> DEFINE c == [Idle EXCEPT !.op = "read", !.pc = "loop", !.fd = f,
                               !.count = count]
  <2>1. c.op = "read" /\ c.pc = "loop"
    BY DEF Idle
  <2> QED BY <1>1, <2>1, ReplyLink, BeginLink DEF mfs_read
<1>2. ASSUME NEW f, NEW buf, mfs_write(f, buf) PROVE LinkInv'
  <2> DEFINE c == [Idle EXCEPT !.op = "write", !.pc = "loop", !.fd = f,
                               !.count = Len(buf), !.buf = buf]
  <2>1. c.op = "write" /\ c.pc = "loop"
    BY DEF Idle
  <2> QED BY <1>2, <2>1, ReplyLink, BeginLink DEF mfs_write
<1>3. ASSUME NEW f, NEW pos, NEW whence, mfs_seek(f, pos, whence) PROVE LinkInv'
  <2>1. CASE Reply(-1)
    BY <2>1, ReplyLink
  <2>2. ASSUME NEW o,
               Begin([Idle EXCEPT !.op = "seek", !.pc = "loop", !.fd = f,
                        !.pos = pos, !.offset = o,
                        !.block = files[fd_table[f].file].block]),
               UNCHANGED <<memory, meta, blk, fds>>
        PROVE  LinkInv'
    <3> DEFINE c == [Idle EXCEPT !.op = "seek", !.pc = "loop", !.fd = f,
                        !.pos = pos, !.offset = o,
                        !.block = files[fd_table[f].file].block]
    <3>1. c.op = "seek" /\ c.pc = "loop"
      BY DEF Idle
    <3> QED BY <2>2, <3>1, BeginLink
  <2> QED BY <1>3, <2>1, <2>2 DEF mfs_seek
<1>4. ASSUME NEW n, mfs_filesize(n) PROVE LinkInv'
  BY <1>4, ReplyLink DEF mfs_filesize
<1>5. CASE mfs_list
  BY <1>5, ReplyLink DEF mfs_list
<1>6. CASE mfs_sync
  <2>1. Flush("sync").op = "sync" /\ Flush("sync").pc = "root"
    BY DEF Flush, Idle
  <2> QED BY <1>6, <2>1, BeginLink DEF mfs_sync
<1> QED BY <1>1, <1>2, <1>3, <1>4, <1>5, <1>6

\* Reads and seeks change no pointer.
LEMMA WalkLink ==
  ASSUME BaseInv, LinkInv, ReadBlock \/ ReadDone \/ SeekBlock \/ SeekDone
  PROVE  LinkInv'
<1>1. bitmap' = bitmap /\ files' = files /\ blk' = blk
  BY DEF ReadBlock, ReadDone, SeekBlock, SeekDone, memory
<1>2. ~Deleting
  BY DEF ReadBlock, ReadDone, SeekBlock, SeekDone, Deleting
<1>3. ~Deleting' /\ ~Writing("link")'
  <2>1. CASE call' = Idle
    BY <2>1, IdleNotPrimed
  <2>2. CASE ReadBlock
    <3>1. call'.op = "read"
      BY <2>2 DEF ReadBlock, BaseInv, TypeOK, CallRec
    <3> QED BY <3>1 DEF Deleting, Writing
  <2>3. CASE SeekBlock
    <3>1. call'.op = "seek"
      BY <2>3 DEF SeekBlock, BaseInv, TypeOK, CallRec
    <3> QED BY <3>1 DEF Deleting, Writing
  <2> QED BY <2>1, <2>2, <2>3 DEF ReadDone, SeekDone, Return
<1> QED BY <1>1, <1>2, <1>3, LinkFrame

LEMMA WriteAllocLink ==
  ASSUME BaseInv, LinkInv, WriteAlloc PROVE LinkInv'
<1>1. PICK b \in Blocks :
        /\ b \notin bitmap /\ bitmap' = bitmap \cup {b}
        /\ blk' = [blk EXCEPT ![b] = BlankBlock]
        /\ call' = [call EXCEPT !.pc = "link", !.block = b]
  BY DEF WriteAlloc, alloc_block
<1>2. files' = files /\ ~Deleting
  BY DEF WriteAlloc, WriteMore, Writing, Deleting
<1>3. call'.op = "write" /\ call'.pc = "link" /\ call'.block = b
  BY <1>1 DEF WriteAlloc, WriteMore, Writing, BaseInv, TypeOK, CallRec
<1>4. Unpointed(b) /\ b # 0
  BY <1>1, <1>2, AllocUnpointed, BlockFacts
<1>5. \A c \in Blocks : blk'[c].next = IF c = b THEN 0 ELSE blk[c].next
  BY <1>1 DEF BaseInv, TypeOK, BlankBlock
<1>6. SinglyLinked'
  BY <1>2, <1>5 DEF LinkInv, SinglyLinked
<1>7. LinkedMarked'
  BY <1>1, <1>2, <1>5 DEF LinkInv, LinkedMarked
<1>8. NewBlock'
  BY <1>1, <1>2, <1>3, <1>4, <1>5 DEF NewBlock, Unpointed
<1>9. DoomedBlock'
  BY <1>3 DEF DoomedBlock, Deleting
<1> QED BY <1>6, <1>7, <1>8, <1>9 DEF LinkInv

\* Exactly one pointer is set to the new block.
LEMMA WriteLinkLink ==
  ASSUME BaseInv, LinkInv, WriteLink PROVE LinkInv'
<1> DEFINE e == fd_table[call.fd]
           b == call.block
<1>1. Unpointed(b) /\ b \in bitmap /\ ~Deleting
  BY DEF LinkInv, NewBlock, WriteLink, Writing, Deleting
<1>2. e \in FdEntry /\ e.file \in Files
  BY DEF BaseInv, TypeOK, CallRec, CallSound, FdsOnFiles, WriteLink, Writing
<1>3. ~Deleting' /\ ~Writing("link")'
  BY DEF WriteLink, BaseInv, TypeOK, CallRec, Writing, Deleting
<1>4. bitmap' = bitmap
  BY DEF WriteLink
<1>5. CASE e.prev_block # 0
  <2>1. e.prev_block \in Blocks
    BY <1>2, <1>5, BlockFacts DEF FdEntry
  <2>2. files' = files /\ blk' = [blk EXCEPT ![e.prev_block].next = b]
    BY <1>5 DEF WriteLink
  <2>3. \A c \in Blocks : blk'[c].next = IF c = e.prev_block THEN b ELSE blk[c].next
    BY <2>1, <2>2 DEF BaseInv, TypeOK, Block
  <2> HIDE DEF e, b
  <2>4. SinglyLinked'
    BY <1>1, <2>2, <2>3 DEF LinkInv, SinglyLinked, Unpointed
  <2>5. LinkedMarked'
    BY <1>1, <1>4, <2>2, <2>3 DEF LinkInv, LinkedMarked
  <2> QED BY <1>3, <2>4, <2>5 DEF LinkInv, NewBlock, DoomedBlock
<1>6. CASE e.prev_block = 0
  <2>1. blk' = blk /\ files' = [files EXCEPT ![e.file].block = b]
    BY <1>6 DEF WriteLink
  <2>2. \A i \in Files : files'[i].block = IF i = e.file THEN b ELSE files[i].block
    BY <1>2, <2>1 DEF BaseInv, TypeOK, FileEntry
  <2> HIDE DEF e, b
  <2>3. SinglyLinked'
    BY <1>1, <2>1, <2>2 DEF LinkInv, SinglyLinked, Unpointed
  <2>4. LinkedMarked'
    BY <1>1, <1>4, <2>1, <2>2 DEF LinkInv, LinkedMarked
  <2> QED BY <1>3, <2>3, <2>4 DEF LinkInv, NewBlock, DoomedBlock
<1> QED BY <1>5, <1>6

LEMMA WriteDataLink ==
  ASSUME BaseInv, LinkInv, WriteData PROVE LinkInv'
<1> DEFINE e == fd_table[call.fd]
<1>1. /\ call \in CallRec /\ call.op = "write" /\ call.pc = "loop"
      /\ e \in FdEntry /\ e.file \in Files
  BY DEF BaseInv, TypeOK, CallRec, CallSound, FdsOnFiles, WriteData,
         WriteMore, Writing
<1>2. ~Deleting /\ ~Deleting' /\ ~Writing("link")'
  <2>1. call'.op = "write" /\ call'.pc = "loop"
    BY <1>1 DEF WriteData, CallRec
  <2> QED BY <1>1, <2>1 DEF Deleting, Writing
<1>3. bitmap' = bitmap
  BY DEF WriteData
<1>4. PICK new : blk' = [blk EXCEPT ![e.cur_block].data = new]
  BY DEF WriteData
<1>5. PICK s : files' = [files EXCEPT ![e.file].size = s]
  BY DEF WriteData
<1> HIDE DEF e
<1>6. \A b \in Blocks : blk'[b].next = blk[b].next
  BY <1>4 DEF BaseInv, TypeOK, Block
<1>7. \A i \in Files : files'[i].block = files[i].block
  BY <1>5 DEF BaseInv, TypeOK, FileEntry
<1> QED BY <1>2, <1>3, <1>6, <1>7, LinkFrame

LEMMA WriteEndLink ==
  ASSUME LinkInv, WriteFull \/ WriteDone PROVE LinkInv'
<1>1. bitmap' = bitmap /\ files' = files /\ blk' = blk /\ call' = Idle
  BY DEF WriteFull, WriteDone, memory, Return
<1>2. ~Deleting
  BY DEF WriteFull, WriteDone, WriteMore, Writing, Deleting
<1> QED BY <1>1, <1>2, IdleNotPrimed, LinkFrame

LEMMA DeleteCallLink ==
  ASSUME BaseInv, LinkInv, NEW n, mfs_delete(n) PROVE LinkInv'
<1>1. CASE Reply(-1)
  BY <1>1, ReplyLink
<1>2. ASSUME NEW i \in Files,
             Begin([Idle EXCEPT !.op = "delete", !.pc = "loop", !.file = i,
                                !.block = files[i].block]),
             UNCHANGED <<memory, meta, blk, fds>>
      PROVE  LinkInv'
  <2>1. bitmap' = bitmap /\ files' = files /\ blk' = blk
    BY <1>2 DEF memory
  <2>2. /\ call'.op = "delete" /\ call'.file = i /\ call'.block = files[i].block
        /\ call.op = "idle"
    BY <1>2 DEF Begin, Idle
  <2>3. ~Deleting /\ ~Writing("link")'
    BY <2>2 DEF Deleting, Writing
  <2>4. SinglyLinked' /\ LinkedMarked'
    BY <2>1, <2>3 DEF LinkInv, SinglyLinked, LinkedMarked
  <2>5. DoomedBlock'
    BY <2>1, <2>2, <2>3 DEF LinkInv, SinglyLinked, LinkedMarked, DoomedBlock
  <2> QED BY <2>3, <2>4, <2>5 DEF LinkInv, NewBlock
<1> QED BY <1>1, <1>2 DEF mfs_delete

\* The block erased is pointed to by nothing that stays; the next one then
\* has lost its only pointer.
LEMMA DeleteBlockLink ==
  ASSUME BaseInv, LinkInv, DeleteBlock PROVE LinkInv'
<1> DEFINE b == call.block
           x == blk[call.block].next
<1>1. b \in Blocks /\ b # 0 /\ call.file \in Files /\ Deleting
  BY BlockFacts DEF DeleteBlock, BaseInv, TypeOK, CallRec
<1>2. /\ call'.op = "delete" /\ call'.pc = "loop" /\ call'.file = call.file
      /\ call'.block = x
  BY DEF DeleteBlock, Deleting, BaseInv, TypeOK, CallRec
<1>3. files' = files /\ bitmap' = bitmap \ {b}
  BY DEF DeleteBlock
<1>4. \A c \in Blocks : blk'[c].next = IF c = b THEN 0 ELSE blk[c].next
  BY <1>1 DEF DeleteBlock, BaseInv, TypeOK, BlankBlock
<1>5. /\ \A i \in Files \ {call.file} : files[i].block # b
      /\ \A c \in Blocks : blk[c].next # b
  BY <1>1 DEF LinkInv, DoomedBlock
<1> HIDE DEF b
<1>6. SinglyLinked'
  BY <1>3, <1>4 DEF LinkInv, SinglyLinked
<1>7. LinkedMarked'
  <2>1. ASSUME NEW i \in Files, i # call.file
        PROVE  files'[i].block \in bitmap' \cup {0}
    BY <1>3, <1>5, <2>1 DEF LinkInv, LinkedMarked
  <2>2. ASSUME NEW c \in Blocks PROVE blk'[c].next \in bitmap' \cup {0}
    BY <1>3, <1>4, <1>5 DEF LinkInv, LinkedMarked
  <2> QED BY <1>2, <2>1, <2>2 DEF LinkedMarked, Deleting
<1>8. DoomedBlock'
  <2> SUFFICES ASSUME x # 0
               PROVE  /\ x \in bitmap'
                      /\ \A i \in Files \ {call.file} : files'[i].block # x
                      /\ \A c \in Blocks : blk'[c].next # x
    BY <1>2 DEF DoomedBlock
  <2>1. x = blk[b].next
    BY DEF b
  <2> HIDE DEF x
  <2>2. x \in bitmap'
    BY <1>1, <1>3, <1>5, <2>1 DEF LinkInv, LinkedMarked
  <2>3. \A i \in Files \ {call.file} : files'[i].block # x
    BY <1>1, <1>3, <2>1 DEF LinkInv, SinglyLinked
  <2>4. \A c \in Blocks : blk'[c].next # x
    BY <1>1, <1>4, <2>1 DEF LinkInv, SinglyLinked
  <2> QED BY <2>2, <2>3, <2>4
<1>9. NewBlock'
  BY <1>2 DEF NewBlock, Writing
<1> QED BY <1>6, <1>7, <1>8, <1>9 DEF LinkInv

LEMMA DeleteEntryLink ==
  ASSUME BaseInv, LinkInv, DeleteEntry PROVE LinkInv'
<1>1. call.file \in Files /\ bitmap' = bitmap /\ blk' = blk
  BY DEF DeleteEntry, BaseInv, TypeOK, CallRec
<1>2. ~Deleting' /\ ~Writing("link")'
  BY DEF DeleteEntry, Deleting, Writing, BaseInv, TypeOK, CallRec
<1>3. \A i \in Files : files'[i].block = IF i = call.file THEN 0 ELSE files[i].block
  BY <1>1 DEF DeleteEntry, BaseInv, TypeOK, ZeroFile
<1>4. SinglyLinked'
  BY <1>1, <1>3 DEF LinkInv, SinglyLinked
<1>5. LinkedMarked'
  BY <1>1, <1>3 DEF LinkInv, LinkedMarked
<1> QED BY <1>2, <1>4, <1>5 DEF LinkInv, NewBlock, DoomedBlock

LEMMA LinkStep == BaseInv /\ LinkInv /\ [Next]_vars => LinkInv'
<1> SUFFICES ASSUME BaseInv, LinkInv, [Next]_vars PROVE LinkInv'
  OBVIOUS
<1>1. CASE Syscall
  BY <1>1, OpenLink, CloseLink, OtherCallLink, DeleteCallLink DEF Syscall
<1>2. CASE KernelStep
  BY <1>2, FlushLink, WalkLink, WriteAllocLink, WriteLinkLink, WriteDataLink,
     WriteEndLink, DeleteBlockLink, DeleteEntryLink DEF KernelStep
<1>3. CASE UNCHANGED vars
  BY <1>3 DEF vars, LinkInv, SinglyLinked, LinkedMarked, NewBlock, DoomedBlock,
              Unpointed, Writing, Deleting
<1> QED BY <1>1, <1>2, <1>3 DEF Next

\* On a disk of any size and for any calls, descriptors on deleted files
\* included, mfs_open, mfs_write and mfs_delete never make two pointers lead to
\* one block: files are not cross-linked and chains do not close into loops.
THEOREM ChainsSinglyLinked == Spec => []SinglyLinked
<1>1. LinkInv => SinglyLinked
  BY DEF LinkInv
<1> QED BY <1>1, BaseInit, BaseStep, LinkInit, LinkStep, PTL DEF Spec

\* Every block that an entry or a block points to has its bit set, so that
\* alloc_block never returns a block in use; only the file that mfs_delete is
\* erasing is exempt.
THEOREM BlocksMarked == Spec => []LinkedMarked
<1>1. LinkInv => LinkedMarked
  BY DEF LinkInv
<1> QED BY <1>1, BaseInit, BaseStep, LinkInit, LinkStep, PTL DEF Spec

===========================================================================
