------------------------------ MODULE MfsUtil ------------------------------
(***************************************************************************)
(* The host tool (mfs-util.c) and the kernel that boots from its images.   *)
(* One action is one run of the tool: it reads the root, the bitmap and    *)
(* the file table into memory, works on them and on the data sectors, and  *)
(* saves what it changed.  A data sector is its link and its payload of at *)
(* most D bytes; the used byte of a sector is never read.                  *)
(*                                                                         *)
(* Sizes keep their C types: the length of the host file becomes a         *)
(* uint16_t, the blocks are counted from it as an int16_t into a uint8_t,  *)
(* the bytes pass through a buffer of BUF bytes whose end nobody checks,   *)
(* and block_sectors[0] is uninitialised when no block is needed.          *)
(***************************************************************************)
EXTENDS Integers, Sequences, FiniteSetsExt, SequencesExt

CONSTANTS
  Names, NoName,     \* the names of files, and that of a blank entry
  Contents,          \* the host files, as sequences of bytes
  MAX_FILES,
  FS_MAX_SECTORS,
  D,                 \* payload bytes of a sector
  BUF,               \* bytes of fs_program_buf
  BLOCK_SECTORS,     \* entries of block_sectors
  CountMod,          \* a uint8_t is counted modulo this
  SizeMod            \* a uint16_t is counted modulo this

ASSUME MfsUtilAssumption ==
  /\ MAX_FILES \in Nat \ {0} /\ FS_MAX_SECTORS \in Nat /\ D \in Nat \ {0}
  /\ CountMod \in Nat /\ CountMod > MAX_FILES
  /\ BUF \in Nat /\ BLOCK_SECTORS \in Nat /\ SizeMod \in Nat
  /\ BUF <= BLOCK_SECTORS * D /\ BLOCK_SECTORS < CountMod /\ 2 * BUF < SizeMod
  /\ NoName \notin Names /\ Contents \subseteq Seq(Nat)

VARIABLES
  image,             \* the disk image
  stored,            \* the contents last stored under each name; NoContents without any
  deleted,           \* a file has been deleted since the image was formatted
  astray             \* since then a run has used an uninitialised block or overrun a buffer

vars == <<image, stored, deleted, astray>>

FS_BLOCK_SECTOR == 3
Sectors == FS_BLOCK_SECTOR .. FS_MAX_SECTORS - 1
Slots == 0 .. MAX_FILES - 1
BlankEntry == [used |-> FALSE, name |-> NoName, size |-> 0, block |-> 0]
BlankSector == [next |-> 0, data |-> <<>>]
NoContents == <<-1>>   \* -1 is no byte
Blank == [formatted |-> FALSE]

mfs_format ==
  [formatted |-> TRUE, filecount |-> 0, bitmap |-> 0 .. 2,
   files |-> [i \in Slots |-> BlankEntry], data |-> [b \in Sectors |-> BlankSector]]
----------------------------------------------------------------------------
\* The lowest free block, 0 if there is none, and the image once it is marked.
alloc_block(m) == LET free == Sectors \ m.bitmap IN IF free = {} THEN 0 ELSE Min(free)
\* Mutant: the block stays free.
Marked_Free(m, b) == m

Marked(m, b) == [m EXCEPT !.bitmap = @ \cup {b}]

\* The first entry of that name among the first n, or -1: the tool looks at all entries, also
\* at deleted ones, the kernel at the first filecount.
Index(m, name, n) ==
  LET at == {i \in 0 .. n - 1 : m.files[i].name = name} IN IF at = {} THEN -1 ELSE Min(at)
find_file(m, name) == Index(m, name, MAX_FILES)
KernelFind(m, name) == Index(m, name, IF m.filecount < MAX_FILES THEN m.filecount ELSE MAX_FILES)

\* The sectors of a chain, until its link leaves the data sectors.
Chain(m, first) ==
  LET walk[k \in Nat] == IF k = 0 THEN first
                         ELSE IF walk[k - 1] \in Sectors THEN m.data[walk[k - 1]].next ELSE 0
      long == {k \in 0 .. FS_MAX_SECTORS : walk[k] \notin Sectors}
  IN  [k \in 1 .. IF long = {} THEN FS_MAX_SECTORS ELSE Min(long) |-> walk[k - 1]]

\* Byte j of a payload: behind the bytes written to it a sector holds zeros.
PayloadByte(payload, j) == IF j <= Len(payload) THEN payload[j] ELSE 0

\* The file's bytes gathered along its chain, D from each sector, until the size or the end of
\* the chain is reached (load_to_memory, load_executable).  A size above BUF, which as an
\* int16_t may be negative, makes the tool copy over the end of its buffer: nothing is read.
load(m, i) ==
  LET file == m.files[i]
      chain == Chain(m, file.block)
      there == Len(chain) * D
  IN  IF i = -1 THEN NoContents
      ELSE IF file.size > BUF THEN NoContents
      ELSE [k \in 1 .. IF file.size < there THEN file.size ELSE there |->
              PayloadByte(m.data[chain[((k - 1) \div D) + 1]].data, ((k - 1) % D) + 1)]

\* The sectors of the file are erased and its entry emptied; the bitmap, the name and the
\* used flag stay as they are.
mfs_delete(m, i) ==
  LET gone == Range(Chain(m, m.files[i].block))
  IN  [m EXCEPT !.data = [b \in Sectors |-> IF b \in gone THEN BlankSector ELSE @[b]],
                !.files[i] = [@ EXCEPT !.size = 0, !.block = 0],
                !.filecount = (@ - 1) % CountMod]

\* Mutant: the file is not counted.
create_Uncounted(m, name, i) ==
  LET b == alloc_block(m)
  IN  [Marked(m, b) EXCEPT !.data[b] = BlankSector,
         !.files[i] = [used |-> TRUE, name |-> name, size |-> 0, block |-> b]]

\* mfs_open with O_CREAT for a name that is not in the table, saved at once.
create(m, name, i) ==
  LET b == alloc_block(m)
  IN  [Marked(m, b) EXCEPT !.data[b] = BlankSector, !.filecount = (@ + 1) % CountMod,
         !.files[i] = [used |-> TRUE, name |-> name, size |-> 0, block |-> b]]

\* n sectors are taken one by one, 0 where none is left.
Allocate(m, n) ==
  LET got[k \in 0 .. n] == IF k = 0 THEN [m |-> m, list |-> <<>>]
        ELSE LET b == alloc_block(got[k - 1].m)
             IN  [m |-> IF b = 0 THEN got[k - 1].m ELSE Marked(got[k - 1].m, b),
                  list |-> Append(got[k - 1].list, b)]
  IN  got[n]
\* The old file is erased but still counted; the number of sectors that bytes need, and the
\* bytes that go into the k-th of them.
Erased(m, i) == [mfs_delete(m, i) EXCEPT !.filecount = (@ + 1) % CountMod]
\* Mutant: the last, partly filled sector is not counted.
SectorsFor_Whole(bytes) == Len(bytes) \div D

SectorsFor(bytes) ==
  LET remaining == IF 2 * Len(bytes) < SizeMod THEN Len(bytes) ELSE Len(bytes) - SizeMod
  IN  IF remaining <= 0 THEN 0 ELSE ((remaining + D - 1) \div D) % CountMod
Part(bytes, k) == SubSeq(bytes, (k - 1) * D + 1, IF k * D < Len(bytes) THEN k * D ELSE Len(bytes))

\* The old sectors are erased, new ones taken, then written with their links, unless there are
\* too few.  first is what block_sectors[0] holds when no sector is counted.
save_to_disk(m, i, bytes, first) ==
  LET n == SectorsFor(bytes)
      new == Allocate(Erased(m, i), n)
      Link(k) == IF k < n THEN new.list[k + 1] ELSE 0
      At(b) == CHOOSE k \in 1 .. n : new.list[k] = b
  IN  IF 0 \in Range(new.list) THEN new.m
      ELSE [new.m EXCEPT
              !.data = [b \in Sectors |-> IF b \in Range(new.list)
                                          THEN [next |-> Link(At(b)), data |-> Part(bytes, At(b))] ELSE @[b]],
              !.files[i] = [m.files[i] EXCEPT !.size = Len(bytes),
                                              !.block = IF n = 0 THEN first ELSE new.list[1]]]
OutOfSpace(m, i, bytes) == 0 \in Range(Allocate(Erased(m, i), SectorsFor(bytes)).list)

\* What mfs_write takes of a host file: as many bytes as its length as a uint16_t says.
Kept(bytes) == SubSeq(bytes, 1, Len(bytes) % SizeMod)
\* fs_program_buf is overrun when the old file is loaded into it or the new bytes are copied to it.
Overrun(m, i, bytes) == Len(Kept(bytes)) > BUF \/ m.files[i].size > BUF
Astray(m, i, bytes) == SectorsFor(Kept(bytes)) = 0 \/ Overrun(m, i, bytes)

\* The images that storing bytes under entry i of m may leave.  After an overrun, which
\* nothing defines, the tool goes on, dies before or behind mfs_delete's save, or saves a root
\* that is none; no property says anything of the image until it is formatted again.
Saved(m, i, bytes) ==
  LET kept == Kept(bytes)
  IN  {save_to_disk(m, i, kept, first) :
         first \in IF SectorsFor(kept) = 0 THEN Sectors \cup {0} ELSE {0}}
      \cup IF Overrun(m, i, bytes) THEN {m, mfs_delete(m, i), Blank} ELSE {}
----------------------------------------------------------------------------
Init ==
  /\ image = Blank /\ stored = [name \in Names |-> NoContents]
  /\ deleted = FALSE /\ astray = FALSE

\* The operation -f; every other operation also formats an image it cannot read.
Format ==
  /\ image' = mfs_format /\ stored' = [name \in Names |-> NoContents]
  /\ deleted' = FALSE /\ astray' = FALSE

\* The operation -d.
Delete(name) ==
  /\ image.formatted
  /\ find_file(image, name) # -1
  /\ image' = mfs_delete(image, find_file(image, name))
  /\ stored' = [stored EXCEPT ![name] = NoContents]
  /\ deleted' = TRUE /\ UNCHANGED astray

\* The operation -w for a name in the table, be it of a deleted file.
Overwrite(name, bytes) ==
  LET i == find_file(image, name)
  IN  /\ image.formatted /\ i # -1
      /\ image' \in Saved(image, i, bytes)
      /\ stored' = [stored EXCEPT ![name] = IF OutOfSpace(image, i, Kept(bytes)) THEN <<>> ELSE Kept(bytes)]
      /\ astray' = (astray \/ Astray(image, i, bytes))
      /\ UNCHANGED deleted

\* The operation -w for a new name.  Without a block, an entry or with a filecount at its
\* limit the tool ends before it has saved anything.
Write(name, bytes) ==
  LET free == {i \in Slots : ~image.files[i].used}
      m == create(image, name, Min(free))
  IN  /\ image.formatted /\ find_file(image, name) = -1
      /\ alloc_block(image) # 0 /\ image.filecount < MAX_FILES /\ free # {}
      /\ image' \in Saved(m, Min(free), bytes)
      /\ stored' = [stored EXCEPT ![name] = IF OutOfSpace(m, Min(free), Kept(bytes)) THEN <<>> ELSE Kept(bytes)]
      /\ astray' = (astray \/ Astray(m, Min(free), bytes))
      /\ UNCHANGED deleted

Next == \/ Format
        \/ \E name \in Names : Delete(name)
        \/ \E name \in Names, bytes \in Contents : Overwrite(name, bytes) \/ Write(name, bytes)
Spec == Init /\ [][Next]_vars
----------------------------------------------------------------------------
Live == {name \in Names : stored[name] # NoContents}
ChainOf(name) == Range(Chain(image, image.files[find_file(image, name)].block))

\* What was stored last under a name is what -r reads back, whatever was deleted, overwritten
\* or did not fit in between, as long as no run went astray: every host file had 1 to BUF
\* bytes, counted modulo SizeMod (in the code 1 to 16384, modulo 65536; of a longer file only
\* the first bytes are kept).  A file that did not fit is left empty.
ReadsBack ==
  image.formatted /\ ~astray =>
    \A name \in Live : load(image, find_file(image, name)) = stored[name]

\* As long as no file has been deleted and no run went astray, the kernel, which looks at the
\* first filecount entries only, finds and loads every file the tool has stored.
KernelLoads ==
  image.formatted /\ ~astray /\ ~deleted =>
    \A name \in Live : load(image, KernelFind(image, name)) = stored[name]

\* The sectors of different files are disjoint and marked in the bitmap, so that the kernel
\* will not allocate them: no sequence of runs that did not go astray (a file of no bytes or,
\* as an int16_t, of a negative number of them; one above BUF) lets two files share a sector.
SectorsDisjoint ==
  image.formatted /\ ~astray =>
    /\ \A name \in Live : ChainOf(name) \subseteq image.bitmap
    /\ \A n1, n2 \in Live : n1 # n2 => ChainOf(n1) \cap ChainOf(n2) = {}
=============================================================================
