-------------------------- MODULE MFSDisk_proofs --------------------------
(***************************************************************************)
(* The directory of MFS: the number of files in the root sector, the first *)
(* blocks that the file entries on disk name, and the cursors of           *)
(* descriptors on a machine that may lose power.                           *)
(***************************************************************************)
EXTENDS MFS_proofs, MFSCrash, FiniteSetTheorems

USE TableAssumption

\* mfs_delete has found entry i.
DeleteBegins(i) ==
    /\ files[i].name \in Names
    /\ Begin([Idle EXCEPT !.op = "delete", !.pc = "loop", !.file = i,
                          !.block = files[i].block])
    /\ UNCHANGED <<memory, meta, blk, fds>>

\* A step outside a delete that allocates nothing that it links and writes
\* none of the three sectors.
Quiet ==
    /\ filecount' = filecount /\ bitmap \subseteq bitmap'
    /\ dbitmap' = dbitmap /\ dfiles' = dfiles
    /\ \A i \in Files : /\ files'[i].used = files[i].used
                        /\ files'[i].name = files[i].name
                        /\ files'[i].block = files[i].block
    /\ \A b \in Blocks : blk'[b].next = blk[b].next
    /\ call.op # "delete" /\ call'.op # "delete" /\ ~Writing("link")'
    /\ call'.op \in {"open", "close", "sync"} => call'.pc = "root"

LEMMA QuietReply == \A r : Reply(r) => Quiet
  BY DEF Reply, Return, Idle, memory, meta, Quiet, Writing

LEMMA QuietBegin ==
  ASSUME NEW c, Begin(c), UNCHANGED <<memory, meta, blk, fds>>, c.op # "delete",
         c.pc # "link", c.op \in {"open", "close", "sync"} => c.pc = "root"
  PROVE  Quiet
  BY DEF Begin, memory, meta, Quiet, Writing

LEMMA QuietOpen ==
  ASSUME NEW n, NEW fl, OpenExisting(n, fl) \/ OpenMissing(n, fl) \/ OpenNoRoom(n, fl)
  PROVE  Quiet
<1>1. CASE OpenExisting(n, fl)
  <2>1. call' = Idle
    BY <1>1, FdCreateIdle DEF OpenExisting, OpenFd
  <2> QED BY <1>1, <2>1 DEF OpenExisting, Idle, memory, meta, Quiet, Writing
<1>2. CASE OpenMissing(n, fl)
  BY <1>2, QuietReply DEF OpenMissing
<1>3. CASE OpenNoRoom(n, fl)
  BY <1>3 DEF OpenNoRoom, Return, Idle, meta, Quiet, Writing
<1> QED BY <1>1, <1>2, <1>3

LEMMA QuietClose == \A f : fd_close(f) => Quiet
<1> SUFFICES ASSUME NEW f, fd_close(f) PROVE Quiet
  OBVIOUS
<1>1. CASE Reply(1)
  BY <1>1, QuietReply
<1>2. CASE /\ Begin([Flush("close") EXCEPT !.fd = f])
           /\ UNCHANGED <<memory, meta, blk, fds>>
  <2>1. /\ [Flush("close") EXCEPT !.fd = f].op = "close"
        /\ [Flush("close") EXCEPT !.fd = f].pc = "root"
    BY DEF Flush, Idle
  <2> QED BY <1>2, <2>1, QuietBegin
<1>3. CASE call.op = "idle" /\ Return(0) /\ UNCHANGED <<memory, meta, blk>>
  BY <1>3 DEF Return, Idle, memory, meta, Quiet, Writing
<1> QED BY <1>1, <1>2, <1>3 DEF fd_close

LEMMA QuietCalls ==
  ASSUME \/ \E f \in AnyFd :
              \/ \E count \in Counts : mfs_read(f, count)
              \/ \E buf \in Buffers : mfs_write(f, buf)
              \/ \E pos \in SeekPos, whence \in Whences : mfs_seek(f, pos, whence)
         \/ \E n \in Names : mfs_filesize(n)
         \/ mfs_sync \/ mfs_list
  PROVE  Quiet
<1>1. ASSUME NEW f, NEW count, mfs_read(f, count) PROVE Quiet
  <2> DEFINE c == [Idle EXCEPT !.op = "read", !.pc = "loop", !.fd = f,
                               !.count = count]
  <2>1. c.op = "read" /\ c.pc = "loop"
    BY DEF Idle
  <2> QED BY <1>1, <2>1, QuietReply, QuietBegin DEF mfs_read
<1>2. ASSUME NEW f, NEW buf, mfs_write(f, buf) PROVE Quiet
  <2> DEFINE c == [Idle EXCEPT !.op = "write", !.pc = "loop", !.fd = f,
                               !.count = Len(buf), !.buf = buf]
  <2>1. c.op = "write" /\ c.pc = "loop"
    BY DEF Idle
  <2> QED BY <1>2, <2>1, QuietReply, QuietBegin DEF mfs_write
<1>3. ASSUME NEW f, NEW pos, NEW whence, mfs_seek(f, pos, whence) PROVE Quiet
  <2>1. CASE Reply(-1)
    BY <2>1, QuietReply
  <2>2. ASSUME NEW o,
               Begin([Idle EXCEPT !.op = "seek", !.pc = "loop", !.fd = f,
                        !.pos = pos, !.offset = o,
                        !.block = files[fd_table[f].file].block]),
               UNCHANGED <<memory, meta, blk, fds>>
        PROVE  Quiet
    <3> DEFINE c == [Idle EXCEPT !.op = "seek", !.pc = "loop", !.fd = f,
                        !.pos = pos, !.offset = o,
                        !.block = files[fd_table[f].file].block]
    <3>1. c.op = "seek" /\ c.pc = "loop"
      BY DEF Idle
    <3> QED BY <2>2, <3>1, QuietBegin
  <2> QED BY <1>3, <2>1, <2>2 DEF mfs_seek
<1>4. ASSUME NEW n, mfs_filesize(n) PROVE Quiet
  BY <1>4, QuietReply DEF mfs_filesize
<1>5. CASE mfs_list
  BY <1>5, QuietReply DEF mfs_list
<1>6. CASE mfs_sync
  <2>1. Flush("sync").op = "sync" /\ Flush("sync").pc = "root"
    BY DEF Flush, Idle
  <2> QED BY <1>6, <2>1, QuietBegin DEF mfs_sync
<1> QED BY <1>1, <1>2, <1>3, <1>4, <1>5, <1>6

LEMMA QuietWalk ==
  ASSUME BaseInv, ReadBlock \/ ReadDone \/ SeekBlock \/ SeekDone PROVE Quiet
<1>1. /\ filecount' = filecount /\ bitmap' = bitmap /\ files' = files /\ blk' = blk
      /\ dbitmap' = dbitmap /\ dfiles' = dfiles
  BY DEF ReadBlock, ReadDone, SeekBlock, SeekDone, memory, meta
<1>2. call.op \in {"read", "seek"}
  BY DEF ReadBlock, ReadDone, SeekBlock, SeekDone
<1>3. call'.op \in {"idle", "read", "seek"}
  <2>1. CASE call' = Idle
    BY <2>1 DEF Idle
  <2>2. CASE ReadBlock
    BY <2>2 DEF ReadBlock, BaseInv, TypeOK, CallRec
  <2>3. CASE SeekBlock
    BY <2>3 DEF SeekBlock, BaseInv, TypeOK, CallRec
  <2> QED BY <2>1, <2>2, <2>3 DEF ReadDone, SeekDone, Return
<1> QED BY <1>1, <1>2, <1>3 DEF Quiet, Writing

LEMMA QuietWrite ==
  ASSUME BaseInv, WriteFull \/ WriteData \/ WriteDone PROVE Quiet
<1>1. CASE WriteFull \/ WriteDone
  BY <1>1 DEF WriteFull, WriteDone, WriteMore, Writing, Return, Idle, memory, meta, Quiet
<1>2. CASE WriteData
  <2> DEFINE e == fd_table[call.fd]
  <2>1. call \in CallRec /\ call.op = "write" /\ call.pc = "loop"
    BY <1>2 DEF BaseInv, TypeOK, WriteData, WriteMore, Writing
  <2>2. call'.op = "write" /\ call'.pc = "loop"
    BY <1>2, <2>1 DEF WriteData, CallRec
  <2>3. PICK new : blk' = [blk EXCEPT ![e.cur_block].data = new]
    BY <1>2 DEF WriteData
  <2>4. PICK s : files' = [files EXCEPT ![e.file].size = s]
    BY <1>2 DEF WriteData
  <2>5. /\ filecount' = filecount /\ bitmap' = bitmap
        /\ dbitmap' = dbitmap /\ dfiles' = dfiles
    BY <1>2 DEF WriteData, meta
  <2> HIDE DEF e
  <2>6. \A b \in Blocks : blk'[b].next = blk[b].next
    BY <2>3 DEF BaseInv, TypeOK, Block
  <2>7. \A i \in Files : /\ files'[i].used = files[i].used
                         /\ files'[i].name = files[i].name
                         /\ files'[i].block = files[i].block
    BY <2>4 DEF BaseInv, TypeOK, FileEntry
  <2> QED BY <2>1, <2>2, <2>5, <2>6, <2>7 DEF Quiet, Writing
<1> QED BY <1>1, <1>2

\* The steps that matter to the directory, and the others.
LEMMA DirectorySteps ==
  ASSUME BaseInv, Next
  PROVE  \/ \E n \in Names, fl \in OpenFlags : OpenCreate(n, fl)
         \/ \E i \in Files : DeleteBegins(i)
         \/ WriteRoot \/ WriteBitmap \/ WriteEntries
         \/ WriteAlloc \/ WriteLink
         \/ DeleteBlock \/ DeleteEntry
         \/ Quiet
<1>1. ASSUME NEW n \in Names, mfs_delete(n)
      PROVE  Quiet \/ \E i \in Files : DeleteBegins(i)
  <2>1. CASE Reply(-1)
    BY <2>1, QuietReply
  <2>2. CASE ~Reply(-1)
    BY <1>1, <2>2 DEF mfs_delete, find_file, DeleteBegins
  <2> QED BY <2>1, <2>2
<1>2. CASE Syscall
  BY <1>1, <1>2, QuietOpen, QuietClose, QuietCalls DEF Syscall
<1>3. CASE KernelStep
  BY <1>3, QuietWalk, QuietWrite DEF KernelStep
<1> QED BY <1>2, <1>3 DEF Next

-----------------------------------------------------------------------------
(* The number of files                                                     *)

UsedFiles == {i \in Files : files[i].used}

\* find_file knows nothing of the used flag: that it finds only used entries
\* rests on unused entries having lost their names.
NamedUsed == \A i \in Files : files[i].name # EmptyName => files[i].used

DoomedUsed == Deleting => files[call.file].used

CountInv == FilecountExact /\ NamedUsed /\ DoomedUsed

LEMMA FilesFinite == IsFiniteSet(Files) /\ Cardinality(Files) = MaxFiles
<1>1. /\ IsFiniteSet(0..(MaxFiles - 1))
      /\ Cardinality(0..(MaxFiles - 1)) =
            IF 0 > MaxFiles - 1 THEN 0 ELSE (MaxFiles - 1) - 0 + 1
  BY FS_Interval
<1> QED BY <1>1 DEF Files

LEMMA UsedFinite ==
  /\ IsFiniteSet(UsedFiles) /\ Cardinality(UsedFiles) \in 0..MaxFiles
<1>1. UsedFiles \in SUBSET Files
  BY DEF UsedFiles
<1>2. IsFiniteSet(UsedFiles) /\ Cardinality(UsedFiles) <= Cardinality(Files)
  BY <1>1, FilesFinite, FS_Subset
<1>3. Cardinality(UsedFiles) \in Nat
  BY <1>2, FS_CardinalityType
<1> QED BY <1>2, <1>3, FilesFinite

LEMMA CountInit == Init => CountInv
<1> SUFFICES ASSUME Init PROVE CountInv
  OBVIOUS
<1>1. UsedFiles = {} /\ NamedUsed
  BY DEF Init, ZeroFile, UsedFiles, NamedUsed
<1>2. filecount = Cardinality(UsedFiles)
  BY <1>1, FS_EmptySet DEF Init
<1>3. DoomedUsed
  BY DEF Init, Idle, DoomedUsed, Deleting
<1> QED BY <1>1, <1>2, <1>3 DEF CountInv, FilecountExact, UsedFiles

\* Steps that leave names, flags and the count alone.
LEMMA CountFrame ==
  ASSUME CountInv, filecount' = filecount,
         \A i \in Files : files'[i].used = files[i].used /\ files'[i].name = files[i].name,
         Deleting' => /\ call'.file \in Files /\ files[call'.file].used
  PROVE  CountInv'
<1>1. UsedFiles' = UsedFiles
  BY DEF UsedFiles
<1>2. FilecountExact'
  BY <1>1 DEF CountInv, FilecountExact, UsedFiles
<1>3. NamedUsed' /\ DoomedUsed'
  BY DEF CountInv, NamedUsed, DoomedUsed
<1> QED BY <1>2, <1>3 DEF CountInv

LEMMA CountOpen ==
  ASSUME BaseInv, CountInv, NEW n \in Names, NEW fl \in OpenFlags, OpenCreate(n, fl)
  PROVE  CountInv'
<1>1. PICK b \in Blocks, i \in Files :
         /\ ~files[i].used
         /\ files' = [files EXCEPT ![i] = [used |-> TRUE, name |-> Stored[n],
                         size |-> 0, block_size |-> 0, block |-> b]]
         /\ Begin([Flush("open") EXCEPT !.file = i, !.acc = fl.acc,
                                        !.append = fl.append])
  BY DEF OpenCreate
<1>2. /\ files'[i].used
      /\ \A j \in Files : j # i => files'[j] = files[j]
  BY <1>1 DEF BaseInv, TypeOK
<1>3. UsedFiles' = UsedFiles \cup {i} /\ i \notin UsedFiles
  BY <1>1, <1>2 DEF UsedFiles
<1>4. Cardinality(UsedFiles \cup {i}) = Cardinality(UsedFiles) + 1
  BY <1>3, UsedFinite, FS_AddElement
<1>5. filecount' = (filecount + 1) % 256 /\ filecount < MaxFiles
  BY DEF OpenCreate
<1>6. filecount = Cardinality(UsedFiles)
  BY DEF CountInv, FilecountExact, UsedFiles
<1>7. filecount' = filecount + 1
  BY <1>5, <1>6, UsedFinite
<1>8. filecount' = Cardinality(UsedFiles')
  BY <1>3, <1>4, <1>6, <1>7
<1>9. NamedUsed'
  BY <1>2 DEF CountInv, NamedUsed
<1>10. DoomedUsed'
  BY <1>1 DEF Begin, Flush, Idle, DoomedUsed, Deleting
<1> QED BY <1>8, <1>9, <1>10 DEF CountInv, FilecountExact, UsedFiles

LEMMA CountDelete ==
  ASSUME BaseInv, CountInv, DeleteEntry PROVE CountInv'
<1> DEFINE i == call.file
<1>1. i \in Files /\ files[i].used
  BY DEF DeleteEntry, CountInv, DoomedUsed, BaseInv, TypeOK, CallRec
<1>2. /\ files'[i] = ZeroFile
      /\ \A j \in Files : j # i => files'[j] = files[j]
  BY <1>1 DEF DeleteEntry, BaseInv, TypeOK
<1>3. filecount' = (filecount - 1) % 256
  BY DEF DeleteEntry
<1>4. call'.pc = "root"
  BY DEF DeleteEntry, BaseInv, TypeOK, CallRec
<1> HIDE DEF i
<1>5. UsedFiles' = UsedFiles \ {i} /\ i \in UsedFiles
  BY <1>1, <1>2 DEF UsedFiles, ZeroFile
<1>6. Cardinality(UsedFiles \ {i}) = Cardinality(UsedFiles) - 1
  BY <1>5, UsedFinite, FS_RemoveElement
<1>7. Cardinality(UsedFiles \ {i}) \in Nat
  <2>1. IsFiniteSet(UsedFiles \ {i})
    BY <1>5, UsedFinite, FS_RemoveElement
  <2> QED BY <2>1, FS_CardinalityType
<1>8. filecount = Cardinality(UsedFiles)
  BY DEF CountInv, FilecountExact, UsedFiles
<1>9. filecount' = filecount - 1
  BY <1>3, <1>6, <1>7, <1>8, UsedFinite
<1>10. filecount' = Cardinality(UsedFiles')
  BY <1>5, <1>6, <1>8, <1>9
<1>11. NamedUsed'
  BY <1>2 DEF CountInv, NamedUsed, ZeroFile
<1>12. DoomedUsed'
  BY <1>4 DEF DoomedUsed, Deleting
<1> QED BY <1>10, <1>11, <1>12 DEF CountInv, FilecountExact, UsedFiles

LEMMA CountStep ==
  ASSUME BaseInv, CountInv, [Next]_vars PROVE CountInv'
<1>1. CASE \E n \in Names, fl \in OpenFlags : OpenCreate(n, fl)
  BY <1>1, CountOpen
<1>2. ASSUME NEW i \in Files, DeleteBegins(i) PROVE CountInv'
  <2>1. files[i].used
    BY <1>2, NameAssumption DEF DeleteBegins, CountInv, NamedUsed
  <2>2. call'.file = i /\ files' = files /\ filecount' = filecount
    BY <1>2 DEF DeleteBegins, Begin, Idle, memory
  <2> QED BY <2>1, <2>2, CountFrame
<1>3. CASE WriteRoot \/ WriteBitmap \/ WriteEntries
  <2>1. files' = files /\ filecount' = filecount
    BY <1>3 DEF WriteRoot, WriteBitmap, WriteEntries, memory
  <2>2. ~Deleting'
    <3>1. CASE WriteRoot \/ WriteBitmap
      BY <3>1 DEF WriteRoot, WriteBitmap, Deleting, BaseInv, TypeOK, CallRec
    <3>2. CASE WriteEntries
      <4>1. call' = Idle
        BY <3>2, FdCreateIdle DEF WriteEntries, OpenFd, CloseFd, Return
      <4> QED BY <4>1, IdleNotPrimed
    <3> QED BY <1>3, <3>1, <3>2
  <2> QED BY <2>1, <2>2, CountFrame
<1>4. CASE WriteAlloc
  <2>1. files' = files /\ filecount' = filecount /\ call'.op = "write"
    BY <1>4 DEF WriteAlloc, WriteMore, Writing, BaseInv, TypeOK, CallRec
  <2> QED BY <2>1, CountFrame DEF Deleting
<1>5. CASE WriteLink
  <2>1. call'.op = "write" /\ filecount' = filecount
    BY <1>5 DEF WriteLink, Writing, BaseInv, TypeOK, CallRec
  <2>2. \A i \in Files : files'[i].used = files[i].used /\ files'[i].name = files[i].name
    <3>1. CASE files' = files
      BY <3>1
    <3>2. CASE files' = [files EXCEPT ![fd_table[call.fd].file].block = call.block]
      BY <3>2 DEF BaseInv, TypeOK, FileEntry
    <3> QED BY <1>5, <3>1, <3>2 DEF WriteLink
  <2> QED BY <2>1, <2>2, CountFrame DEF Deleting
<1>6. CASE DeleteBlock
  <2>1. /\ files' = files /\ filecount' = filecount /\ call'.file = call.file
        /\ call.file \in Files /\ files[call.file].used
    BY <1>6 DEF DeleteBlock, CountInv, DoomedUsed, BaseInv, TypeOK, CallRec
  <2> QED BY <2>1, CountFrame
<1>7. CASE DeleteEntry
  BY <1>7, CountDelete
<1>8. CASE Quiet
  BY <1>8, CountFrame DEF Quiet, Deleting
<1>9. CASE UNCHANGED vars
  BY <1>9 DEF vars, CountInv, FilecountExact, NamedUsed, DoomedUsed, Deleting
<1> QED BY <1>1, <1>2, <1>3, <1>4, <1>5, <1>6, <1>7, <1>8, <1>9, DirectorySteps

\* fs->filecount is the number of used entries whatever is created and deleted:
\* it neither wraps nor passes max_files, and the scans that stop at it stay
\* inside the table.
THEOREM FilecountStaysExact == Spec => []FilecountExact
<1>1. CountInv => FilecountExact
  BY DEF CountInv
<1> QED BY <1>1, BaseInit, BaseStep, CountInit, CountStep, PTL DEF Spec

-----------------------------------------------------------------------------
(* The file entries on disk                                                *)

\* The entry that mfs_delete is removing.
Removed(i) == call.op = "delete" /\ call.file = i

\* The first block of an entry on disk is marked in memory, and no pointer in
\* memory leads to it but the entry's own: it is the first block of the same
\* file still, or one that the file has lost and nobody can reach.
DiskHeads ==
    \A i \in Files : dfiles[i].block # 0 =>
        \/ Removed(i)
        \/ /\ dfiles[i].block \in bitmap
           /\ \A c \in Blocks : blk[c].next # dfiles[i].block
           /\ \A j \in Files \ {i} : files[j].block # dfiles[i].block

\* So a block under way to be linked, or to be erased, is none of them.
HeadsApart ==
    /\ Writing("link") => \A i \in Files : dfiles[i].block # call.block
    /\ Deleting /\ call.block # 0 =>
         \A i \in Files \ {call.file} : dfiles[i].block # call.block

\* Between the second and the third write the disk has the bitmap of memory.
BitmapSaved ==
    call.pc = "fentry" /\ call.op \in {"open", "close", "delete", "sync"}
        => dbitmap = bitmap

DiskInv == DiskEntryMarked /\ DiskHeads /\ HeadsApart /\ BitmapSaved

LEMMA DiskInit == Init => DiskInv
<1> SUFFICES ASSUME Init PROVE DiskInv
  OBVIOUS
<1>1. \A i \in Files : dfiles[i].block = 0
  BY DEF Init, ZeroFile
<1>2. call.op = "idle" /\ call.pc = "-"
  BY DEF Init, Idle
<1> QED BY <1>1, <1>2
        DEF DiskInv, DiskEntryMarked, DiskHeads, HeadsApart, BitmapSaved, Writing, Deleting

\* Outside the handlers' own writes nothing on disk changes.
LEMMA DiskQuiet ==
  ASSUME DiskInv, Quiet PROVE DiskInv'
<1>1. DiskEntryMarked'
  BY DEF DiskInv, DiskEntryMarked, Quiet
<1>2. DiskHeads'
  BY DEF DiskInv, DiskHeads, Removed, Quiet
<1>3. HeadsApart' /\ BitmapSaved'
  BY DEF HeadsApart, BitmapSaved, Quiet, Deleting
<1> QED BY <1>1, <1>2, <1>3 DEF DiskInv

LEMMA DiskOpen ==
  ASSUME BaseInv, LinkInv, DiskInv, NEW n \in Names, NEW fl \in OpenFlags, OpenCreate(n, fl)
  PROVE  DiskInv'
<1>1. PICK b \in Blocks, i \in Files :
         /\ b \notin bitmap
         /\ bitmap' = bitmap \cup {b}
         /\ files' = [files EXCEPT ![i] = [used |-> TRUE, name |-> Stored[n],
                         size |-> 0, block_size |-> 0, block |-> b]]
         /\ blk' = [blk EXCEPT ![b] = BlankBlock]
         /\ Begin([Flush("open") EXCEPT !.file = i, !.acc = fl.acc,
                                        !.append = fl.append])
  BY DEF OpenCreate, alloc_block
<1>2. call.op = "idle" /\ call'.op = "open" /\ call'.pc = "root"
  BY <1>1 DEF Begin, Flush, Idle
<1>3. dbitmap' = dbitmap /\ dfiles' = dfiles
  BY DEF OpenCreate, meta
<1>4. \A j \in Files : files'[j].block = IF j = i THEN b ELSE files[j].block
  BY <1>1 DEF BaseInv, TypeOK
<1>5. \A c \in Blocks : blk'[c].next = IF c = b THEN 0 ELSE blk[c].next
  BY <1>1 DEF BaseInv, TypeOK, BlankBlock
<1>6. DiskHeads'
  BY <1>1, <1>2, <1>3, <1>4, <1>5 DEF DiskInv, DiskHeads, Removed
<1>7. DiskEntryMarked'
  BY <1>2, <1>3 DEF DiskInv, DiskEntryMarked
<1>8. HeadsApart' /\ BitmapSaved'
  BY <1>2 DEF HeadsApart, BitmapSaved, Writing, Deleting
<1> QED BY <1>6, <1>7, <1>8 DEF DiskInv

LEMMA DiskDeleteBegins ==
  ASSUME BaseInv, DiskInv, NEW i \in Files, DeleteBegins(i) PROVE DiskInv'
<1>1. /\ bitmap' = bitmap /\ files' = files /\ blk' = blk
      /\ dbitmap' = dbitmap /\ dfiles' = dfiles
  BY DEF DeleteBegins, memory, meta
<1>2. /\ call.op = "idle" /\ call'.op = "delete" /\ call'.pc = "loop"
      /\ call'.file = i /\ call'.block = files[i].block
  BY DEF DeleteBegins, Begin, Idle
<1>3. DiskEntryMarked' /\ DiskHeads'
  BY <1>1, <1>2 DEF DiskInv, DiskEntryMarked, DiskHeads, Removed
<1>4. HeadsApart'
  <2>1. \A j \in Files \ {i} : files[i].block # 0 => dfiles[j].block # files[i].block
    BY <1>2 DEF DiskInv, DiskHeads, Removed
  <2> QED BY <1>1, <1>2, <2>1 DEF HeadsApart, Writing
<1>5. BitmapSaved'
  BY <1>2 DEF BitmapSaved
<1> QED BY <1>3, <1>4, <1>5 DEF DiskInv

\* The three writes of write_changes.
LEMMA DiskFlush ==
  ASSUME BaseInv, LinkInv, DiskInv, WriteRoot \/ WriteBitmap \/ WriteEntries
  PROVE  DiskInv'
<1>1. bitmap' = bitmap /\ files' = files /\ blk' = blk
  BY DEF WriteRoot, WriteBitmap, WriteEntries, memory
<1>2. CASE WriteRoot
  <2>1. /\ call'.op = call.op /\ call'.file = call.file /\ call'.pc = "bitmap"
        /\ call.pc = "root" /\ dbitmap' = dbitmap /\ dfiles' = dfiles
    BY <1>2 DEF WriteRoot, BaseInv, TypeOK, CallRec
  <2> QED BY <1>1, <2>1 DEF DiskInv, DiskEntryMarked, DiskHeads, Removed, HeadsApart,
                            BitmapSaved, Writing, Deleting
<1>3. CASE WriteBitmap
  <2>1. /\ call'.op = call.op /\ call'.file = call.file /\ call'.pc = "fentry"
        /\ call.pc = "bitmap" /\ dbitmap' = bitmap /\ dfiles' = dfiles
    BY <1>3 DEF WriteBitmap, BaseInv, TypeOK, CallRec
  <2>2. DiskEntryMarked'
    BY <2>1 DEF DiskInv, DiskHeads, Removed, DiskEntryMarked
  <2> QED BY <1>1, <2>1, <2>2 DEF DiskInv, DiskHeads, Removed, HeadsApart, BitmapSaved,
                                  Writing, Deleting
<1>4. CASE WriteEntries
  <2>1. call' = Idle
    BY <1>4, FdCreateIdle DEF WriteEntries, OpenFd, CloseFd, Return
  <2>2. /\ call'.op = "idle" /\ call'.pc = "-" /\ ~Deleting
        /\ dbitmap' = bitmap /\ dfiles' = files
    BY <1>4, <2>1 DEF WriteEntries, Idle, Deleting, DiskInv, BitmapSaved
  <2>3. \A i \in Files : files[i].block \in bitmap \cup {0}
    BY <2>2 DEF LinkInv, LinkedMarked
  <2>4. DiskEntryMarked'
    BY <2>2, <2>3 DEF DiskEntryMarked
  <2>5. DiskHeads'
    BY <1>1, <2>2, <2>3 DEF DiskHeads, LinkInv, SinglyLinked
  <2>6. HeadsApart' /\ BitmapSaved'
    BY <2>2 DEF HeadsApart, BitmapSaved, Writing, Deleting
  <2> QED BY <2>4, <2>5, <2>6 DEF DiskInv
<1> QED BY <1>2, <1>3, <1>4

LEMMA DiskWriteAlloc ==
  ASSUME BaseInv, DiskInv, WriteAlloc PROVE DiskInv'
<1>1. PICK b \in Blocks :
        /\ b \notin bitmap /\ bitmap' = bitmap \cup {b}
        /\ blk' = [blk EXCEPT ![b] = BlankBlock]
        /\ call' = [call EXCEPT !.pc = "link", !.block = b]
  BY DEF WriteAlloc, alloc_block
<1>2. files' = files /\ dbitmap' = dbitmap /\ dfiles' = dfiles
  BY DEF WriteAlloc, meta
<1>3. call.op = "write" /\ call'.op = "write" /\ call'.pc = "link" /\ call'.block = b
  BY <1>1 DEF WriteAlloc, WriteMore, Writing, BaseInv, TypeOK, CallRec
<1>4. \A c \in Blocks : blk'[c].next = IF c = b THEN 0 ELSE blk[c].next
  BY <1>1 DEF BaseInv, TypeOK, BlankBlock
<1>5. DiskHeads' /\ DiskEntryMarked'
  BY <1>1, <1>2, <1>3, <1>4 DEF DiskInv, DiskHeads, DiskEntryMarked, Removed
<1>6. \A i \in Files : dfiles[i].block # b
  BY <1>1, <1>3, BlockFacts DEF DiskInv, DiskHeads, Removed
<1>7. HeadsApart' /\ BitmapSaved'
  BY <1>2, <1>3, <1>6 DEF HeadsApart, BitmapSaved, Deleting
<1> QED BY <1>5, <1>7 DEF DiskInv

LEMMA DiskWriteLink ==
  ASSUME BaseInv, DiskInv, WriteLink PROVE DiskInv'
<1> DEFINE e == fd_table[call.fd]
           b == call.block
<1>1. /\ call.op = "write" /\ call'.op = "write" /\ call'.pc = "loop"
      /\ bitmap' = bitmap /\ dbitmap' = dbitmap /\ dfiles' = dfiles
  BY DEF WriteLink, Writing, BaseInv, TypeOK, CallRec, meta
<1>2. \A i \in Files : dfiles[i].block # b
  BY DEF DiskInv, HeadsApart, WriteLink
<1>3. /\ \A i \in Files : files'[i].block \in {files[i].block, b}
      /\ \A c \in Blocks : blk'[c].next \in {blk[c].next, b}
  <2>1. CASE files' = files /\ blk' = [blk EXCEPT ![e.prev_block].next = b]
    BY <2>1 DEF BaseInv, TypeOK, Block
  <2>2. CASE blk' = blk /\ files' = [files EXCEPT ![e.file].block = b]
    BY <2>2 DEF BaseInv, TypeOK, FileEntry
  <2> QED BY <2>1, <2>2 DEF WriteLink
<1> HIDE DEF e, b
<1>4. DiskHeads' /\ DiskEntryMarked'
  BY <1>1, <1>2, <1>3 DEF DiskInv, DiskHeads, DiskEntryMarked, Removed
<1>5. HeadsApart' /\ BitmapSaved'
  BY <1>1 DEF HeadsApart, BitmapSaved, Writing, Deleting
<1> QED BY <1>4, <1>5 DEF DiskInv

LEMMA DiskDelete ==
  ASSUME BaseInv, DiskInv, DeleteBlock \/ DeleteEntry PROVE DiskInv'
<1>1. /\ call.op = "delete" /\ call.pc = "loop" /\ call.file \in Files
      /\ dbitmap' = dbitmap /\ dfiles' = dfiles
  BY DEF DeleteBlock, DeleteEntry, Deleting, BaseInv, TypeOK, CallRec, meta
<1>2. CASE DeleteBlock
  <2> DEFINE b == call.block
             x == blk[call.block].next
  <2>1. b \in Blocks /\ b # 0
    BY <1>2, BlockFacts DEF DeleteBlock, BaseInv, TypeOK, CallRec
  <2>2. /\ call'.op = "delete" /\ call'.pc = "loop" /\ call'.file = call.file
        /\ call'.block = x
    BY <1>1, <1>2 DEF DeleteBlock, BaseInv, TypeOK, CallRec
  <2>3. files' = files /\ bitmap' = bitmap \ {b}
    BY <1>2 DEF DeleteBlock
  <2>4. \A c \in Blocks : blk'[c].next = IF c = b THEN 0 ELSE blk[c].next
    BY <1>2, <2>1 DEF DeleteBlock, BaseInv, TypeOK, BlankBlock
  <2>5. \A i \in Files \ {call.file} : dfiles[i].block # b
    BY <1>1, <2>1 DEF DiskInv, HeadsApart, Deleting
  <2>6. \A i \in Files \ {call.file} : x # 0 => dfiles[i].block # x
    BY <1>1, <2>1 DEF DiskInv, DiskHeads, Removed
  <2> HIDE DEF b, x
  <2>7. DiskHeads' /\ DiskEntryMarked'
    BY <1>1, <2>2, <2>3, <2>4, <2>5 DEF DiskInv, DiskHeads, DiskEntryMarked, Removed
  <2>8. HeadsApart' /\ BitmapSaved'
    BY <1>1, <2>2, <2>6 DEF HeadsApart, BitmapSaved, Writing, Deleting
  <2> QED BY <2>7, <2>8 DEF DiskInv
<1>3. CASE DeleteEntry
  <2>1. call'.op = "delete" /\ call'.pc = "root" /\ call'.file = call.file
    BY <1>1, <1>3 DEF DeleteEntry, BaseInv, TypeOK, CallRec
  <2>2. bitmap' = bitmap /\ blk' = blk
    BY <1>3 DEF DeleteEntry
  <2>3. \A i \in Files : files'[i].block = IF i = call.file THEN 0 ELSE files[i].block
    BY <1>1, <1>3 DEF DeleteEntry, BaseInv, TypeOK, ZeroFile
  <2>4. DiskHeads' /\ DiskEntryMarked'
    BY <1>1, <2>1, <2>2, <2>3 DEF DiskInv, DiskHeads, DiskEntryMarked, Removed
  <2>5. HeadsApart' /\ BitmapSaved'
    BY <2>1 DEF HeadsApart, BitmapSaved, Writing, Deleting
  <2> QED BY <2>4, <2>5 DEF DiskInv
<1> QED BY <1>2, <1>3

LEMMA DiskStep ==
  ASSUME BaseInv, LinkInv, DiskInv, [Next]_vars PROVE DiskInv'
<1>1. CASE UNCHANGED vars
  BY <1>1 DEF vars, DiskInv, DiskEntryMarked, DiskHeads, Removed, HeadsApart, BitmapSaved,
              Writing, Deleting
<1> QED BY <1>1, DirectorySteps, DiskOpen, DiskDeleteBegins, DiskFlush, DiskWriteAlloc,
           DiskWriteLink, DiskDelete, DiskQuiet

\* Between any two disk writes the bitmap a restart would load has the first
\* block of every file entry it would load, but for the file that a delete is
\* removing: write_changes saves the bitmap before the entries, and no block on
\* disk as a first block is freed by the delete of another file.
THEOREM DiskStaysMarked == Spec => []DiskEntryMarked
<1>1. DiskInv => DiskEntryMarked
  BY DEF DiskInv
<1> QED BY <1>1, BaseInit, BaseStep, LinkInit, LinkStep, DiskInit, DiskStep, PTL DEF Spec

-----------------------------------------------------------------------------
(* Power cuts                                                              *)

LEMMA RestartBase == BaseInv /\ Restart => BaseInv'
<1> SUFFICES ASSUME BaseInv, Restart PROVE BaseInv'
  OBVIOUS
<1>1. call' = Idle /\ fd_table' = InitFdTable
  BY DEF Restart
<1>2. ret' \in [val : Int, data : Seq(Bytes)] /\ fd_count' \in 0..(CountMod - 1)
  BY ModCount DEF Restart, NoAnswer
<1>3. TypeOK'
  BY <1>1, <1>2, ZeroTypes DEF Restart, BaseInv, TypeOK, meta
<1>4. \A f \in Fds : fd_table'[f].type # "file" /\ fd_table'[f].cur_block = 0
  BY <1>1, Zenon DEF InitFdTable, ZeroFd
<1>5. CursorInBlock' /\ FdsOnFiles'
  BY <1>4 DEF CursorInBlock, Valid, FdsOnFiles
<1> QED BY <1>1, <1>3, <1>5, IdleSound DEF BaseInv

\* However often power is lost, and whatever chains and bitmap the disk is left
\* with, the cursors of descriptors stay inside their blocks.
THEOREM CursorSurvivesPowerCuts == CrashSpec => []CursorInBlock
<1>1. BaseInv /\ [CrashNext]_vars => BaseInv'
  BY BaseStep, RestartBase DEF CrashNext
<1>2. BaseInv => CursorInBlock
  BY DEF BaseInv
<1> QED BY <1>1, <1>2, BaseInit, PTL DEF CrashSpec
===========================================================================
