-------------------------- MODULE MFSChain_proofs --------------------------
(***************************************************************************)
(* The chains of MFS as programs see them: files share no block, no chain  *)
(* has a loop, and, if open files are not deleted, no descriptor leaves    *)
(* the chain of its file.  That every block is pointed to once is enough   *)
(* for the first two: what is not reached from a first block is closed     *)
(* under the pointers.                                                     *)
(***************************************************************************)
EXTENDS MFS_proofs

\* The least closed set, for any pointers nx.
LEMMA FollowLeast ==
  ASSUME NEW nx, NEW x, NEW S \in SUBSET Blocks, x \in S \cup {0}, Closed(nx, S)
  PROVE  Follow(nx, x) \subseteq S
  BY DEF Follow

LEMMA FollowClosed ==
  ASSUME NEW nx \in [Blocks -> Ptr], NEW x \in Ptr
  PROVE  /\ Follow(nx, x) \in SUBSET Blocks
         /\ x \in Follow(nx, x) \cup {0}
         /\ Closed(nx, Follow(nx, x))
<1>1. Follow(nx, x) \in SUBSET Blocks
  BY DEF Follow
<1>2. x \in Follow(nx, x) \cup {0}
  BY DEF Follow, Ptr
<1>3. ASSUME NEW c \in Follow(nx, x), nx[c] # 0 PROVE nx[c] \in Follow(nx, x)
  <2>1. c \in Blocks /\ nx[c] \in Blocks
    BY <1>3 DEF Follow, Ptr
  <2>2. ASSUME NEW S \in SUBSET Blocks, x \in S \cup {0}, Closed(nx, S)
        PROVE  nx[c] \in S
    <3>1. c \in S
      BY <2>2, FollowLeast
    <3> QED BY <1>3, <2>2, <3>1 DEF Closed
  <2> QED BY <2>1, <2>2 DEF Follow
<1> QED BY <1>1, <1>2, <1>3 DEF Closed

\* Nothing is in it without a reason.
LEMMA FollowBack ==
  ASSUME NEW nx \in [Blocks -> Ptr], NEW x \in Ptr, NEW c \in Follow(nx, x), c # x
  PROVE  \E d \in Follow(nx, x) : nx[d] = c
<1> SUFFICES ASSUME \A d \in Follow(nx, x) : nx[d] # c PROVE FALSE
  OBVIOUS
<1> DEFINE S == Follow(nx, x) \ {c}
<1>1. S \in SUBSET Blocks /\ x \in S \cup {0} /\ Closed(nx, S)
  BY FollowClosed DEF Closed
<1>2. Follow(nx, x) \subseteq S
  BY <1>1, FollowLeast
<1> QED BY <1>2

\* Pointers that agree on what is reached lead to the same blocks.
LEMMA FollowAgree ==
  ASSUME NEW nx \in [Blocks -> Ptr], NEW ny \in [Blocks -> Ptr], NEW x \in Ptr,
         \A c \in Follow(nx, x) : ny[c] = nx[c]
  PROVE  Follow(ny, x) = Follow(nx, x)
<1> DEFINE F == Follow(nx, x)
           G == Follow(ny, x)
<1>1. /\ F \in SUBSET Blocks /\ x \in F \cup {0} /\ Closed(nx, F)
      /\ G \in SUBSET Blocks /\ x \in G \cup {0} /\ Closed(ny, G)
  BY FollowClosed
<1>2. Closed(ny, F)
  BY <1>1 DEF Closed
<1>3. G \subseteq F
  BY <1>1, <1>2, FollowLeast
<1>4. Closed(nx, G)
  BY <1>1, <1>3 DEF Closed
<1>5. F \subseteq G
  BY <1>1, <1>4, FollowLeast
<1> QED BY <1>3, <1>5

\* Cutting pointers only takes blocks away.
LEMMA FollowCut ==
  ASSUME NEW nx \in [Blocks -> Ptr], NEW ny \in [Blocks -> Ptr], NEW x \in Ptr,
         \A c \in Blocks : ny[c] \in {nx[c], 0}
  PROVE  Follow(ny, x) \subseteq Follow(nx, x)
<1>1. /\ Follow(nx, x) \in SUBSET Blocks /\ x \in Follow(nx, x) \cup {0}
      /\ Closed(nx, Follow(nx, x))
  BY FollowClosed
<1>2. Closed(ny, Follow(nx, x))
  BY <1>1 DEF Closed
<1> QED BY <1>1, <1>2, FollowLeast

-----------------------------------------------------------------------------
(* Chains of a table of first blocks h and pointers nx, each block pointed *)
(* to once                                                                 *)

Once(h, nx) ==
    /\ \A i, j \in Files : h[i] # 0 /\ h[i] = h[j] => i = j
    /\ \A b, c \in Blocks : nx[b] # 0 /\ nx[b] = nx[c] => b = c
    /\ \A i \in Files, b \in Blocks : h[i] # 0 => h[i] # nx[b]

\* The complement of a set that is reached, or that has its own predecessors,
\* is closed: a way into the set comes from inside.
LEMMA OutsideClosed ==
  ASSUME NEW h \in [Files -> Ptr], NEW nx \in [Blocks -> Ptr], Once(h, nx),
         NEW C \in SUBSET Blocks, NEW x, \A b \in Blocks : nx[b] # x,
         \A c \in C : c = x \/ \E d \in C : nx[d] = c
  PROVE  Closed(nx, Blocks \ C)
<1> SUFFICES ASSUME NEW y \in Blocks \ C, nx[y] # 0, nx[y] \notin Blocks \ C PROVE FALSE
  BY DEF Closed
<1>1. nx[y] \in C
  BY DEF Ptr
<1>2. PICK d \in C : nx[d] = nx[y]
  BY <1>1
<1>3. d = y
  BY <1>2 DEF Once
<1> QED BY <1>3

\* Chains are disjoint.
LEMMA ChainsDisjoint ==
  ASSUME NEW h \in [Files -> Ptr], NEW nx \in [Blocks -> Ptr], Once(h, nx),
         NEW i \in Files, NEW j \in Files, i # j
  PROVE  Follow(nx, h[i]) \cap Follow(nx, h[j]) = {}
<1> DEFINE C == Follow(nx, h[i])
<1>1. h[i] \in Ptr /\ h[j] \in Ptr
  OBVIOUS
<1>2. C \in SUBSET Blocks /\ Closed(nx, C)
  BY <1>1, FollowClosed
<1>3. CASE h[i] = 0
  <2>1. {} \in SUBSET Blocks /\ Closed(nx, {})
    BY DEF Closed
  <2>2. C \subseteq {}
    BY <1>3, <2>1, FollowLeast
  <2> QED BY <2>2
<1>4. CASE h[i] # 0
  <2>1. \A b \in Blocks : nx[b] # h[i]
    BY <1>4 DEF Once
  <2>2. \A c \in C : c = h[i] \/ \E d \in C : nx[d] = c
    BY <1>1, FollowBack
  <2>3. Closed(nx, Blocks \ C)
    <3> HIDE DEF C
    <3> QED BY <1>2, <2>1, <2>2, OutsideClosed
  <2>4. h[j] \notin C
    <3>1. CASE h[j] = 0
      BY <1>2, <3>1, BlockFacts
    <3>2. CASE h[j] # 0
      BY <1>2, <1>4, <2>2, <3>2 DEF Once
    <3> QED BY <3>1, <3>2
  <2>5. h[j] \in (Blocks \ C) \cup {0}
    BY <1>1, <2>4 DEF Ptr
  <2>6. Follow(nx, h[j]) \subseteq Blocks \ C
    BY <2>3, <2>5, FollowLeast
  <2> QED BY <2>6
<1> QED BY <1>3, <1>4

\* No chain comes back to a block it has visited.
LEMMA ChainsLoopFree ==
  ASSUME NEW h \in [Files -> Ptr], NEW nx \in [Blocks -> Ptr], Once(h, nx),
         NEW i \in Files, NEW b \in Follow(nx, h[i])
  PROVE  b \notin Follow(nx, nx[b])
<1> SUFFICES ASSUME b \in Follow(nx, nx[b]) PROVE FALSE
  OBVIOUS
<1> DEFINE C == Follow(nx, nx[b])
<1>1. h[i] \in Ptr /\ b \in Blocks /\ nx[b] \in Ptr
  BY DEF Follow
<1>2. C \in SUBSET Blocks /\ nx[b] \in C \cup {0} /\ Closed(nx, C)
  BY <1>1, FollowClosed
<1>3. \A c \in C : \E d \in C : nx[d] = c
  <2> SUFFICES ASSUME NEW c \in C PROVE \E d \in C : nx[d] = c
    OBVIOUS
  <2>1. CASE c = nx[b]
    BY <2>1
  <2>2. CASE c # nx[b]
    BY <1>1, <2>2, FollowBack
  <2> QED BY <2>1, <2>2
<1>4. Closed(nx, Blocks \ C)
  <2> HIDE DEF C
  <2>1. PICK x : x \notin Ptr
    <3>1. -1 \notin Ptr
      BY BlockFacts DEF Ptr
    <3> QED BY <3>1
  <2>2. \A c \in Blocks : nx[c] # x
    BY <2>1
  <2> QED BY <1>2, <1>3, <2>2, OutsideClosed
<1>5. h[i] \in (Blocks \ C) \cup {0}
  <2>1. h[i] # 0 => h[i] \notin C
    BY <1>2, <1>3 DEF Once
  <2> QED BY <1>1, <2>1 DEF Ptr
<1>6. Follow(nx, h[i]) \subseteq Blocks \ C
  BY <1>4, <1>5, FollowLeast
<1> QED BY <1>6

-----------------------------------------------------------------------------
Heads == [i \in Files |-> files[i].block]
Nexts == [c \in Blocks |-> blk[c].next]

LEMMA PointerTypes ==
  ASSUME TypeOK
  PROVE  Heads \in [Files -> Ptr] /\ Nexts \in [Blocks -> Ptr]
  BY DEF TypeOK, FileEntry, Block, Heads, Nexts

LEMMA LinkedOnce ==
  ASSUME TypeOK, SinglyLinked
  PROVE  Once(Heads, Nexts)
  BY DEF SinglyLinked, Once, Heads, Nexts

LEMMA ChainFollows ==
  /\ \A b : Reach(b) = Follow(Nexts, b)
  /\ \A i \in Files : Chain(i) = Follow(Nexts, Heads[i])
  BY DEF Reach, Chain, Nexts, Heads

LEMMA SoundFiles ==
  ASSUME TypeOK, SinglyLinked PROVE FilesSound
<1>1. Heads \in [Files -> Ptr] /\ Nexts \in [Blocks -> Ptr] /\ Once(Heads, Nexts)
  BY PointerTypes, LinkedOnce
<1>2. ASSUME NEW i \in Files, NEW b \in Chain(i) PROVE b \notin Reach(blk[b].next)
  <2>1. b \in Follow(Nexts, Heads[i])
    BY ChainFollows
  <2>2. b \in Blocks /\ Nexts[b] = blk[b].next
    BY <2>1 DEF Follow, Nexts
  <2>3. b \notin Follow(Nexts, Nexts[b])
    BY <1>1, <2>1, ChainsLoopFree, Zenon
  <2> QED BY <2>2, <2>3, ChainFollows
<1>3. ASSUME NEW i \in Files, NEW j \in Files \ {i} PROVE Chain(i) \cap Chain(j) = {}
  <2>1. Follow(Nexts, Heads[i]) \cap Follow(Nexts, Heads[j]) = {}
    BY <1>1, ChainsDisjoint
  <2> QED BY <2>1, ChainFollows
<1> QED BY <1>2, <1>3 DEF FilesSound

\* On a disk of any size, whatever programs do, no two files share a block and
\* no chain leads back to one of its own blocks.
THEOREM FilesStaySound == Spec => []FilesSound
<1>1. BaseInv /\ LinkInv => FilesSound
  BY SoundFiles DEF BaseInv, LinkInv
<1> QED BY <1>1, BaseInit, BaseStep, LinkInit, LinkStep, PTL DEF Spec

-----------------------------------------------------------------------------
(* Descriptors                                                             *)

\* Block x may be held on behalf of file g: it is marked, and in no chain of
\* another file.
Held(g, x, h, nx, m) == /\ x \in m \cup {0}
                        /\ \A i \in Files : i # g => x \notin Follow(nx, h[i])

FdHeld(e, h, nx, m) == Held(e.file, e.cur_block, h, nx, m)
                       /\ Held(e.file, e.prev_block, h, nx, m)

FdsHeld ==
    \A f \in Fds : fd_table[f].type = "file" =>
        f \in UserFds /\ FdHeld(fd_table[f], Heads, Nexts, bitmap)

\* So is the block that a seek has come to.
SeekHeld == call.op = "seek" =>
                Held(fd_table[call.fd].file, call.block, Heads, Nexts, bitmap)

\* The block that a write is about to link ends a chain and nobody holds it.
FreshBlock ==
    Writing("link") =>
        /\ Nexts[call.block] = 0
        /\ \A f \in Fds : fd_table[f].type = "file" =>
              fd_table[f].cur_block # call.block /\ fd_table[f].prev_block # call.block

\* What a delete has still to erase is held by nobody.
DoomedFree ==
    Deleting =>
        \A f \in Fds : fd_table[f].type = "file" =>
            /\ fd_table[f].file # call.file
            /\ fd_table[f].cur_block \notin Follow(Nexts, call.block)
            /\ fd_table[f].prev_block \notin Follow(Nexts, call.block)

HeldInv == FdsHeld /\ SeekHeld /\ FreshBlock /\ DoomedFree

LEMMA HeldIsolates ==
  ASSUME HeldInv PROVE DescriptorsIsolated
<1> SUFFICES ASSUME NEW f \in Fds, NEW i \in Files,
                    fd_table[f].type = "file", fd_table[f].file # i
             PROVE  {fd_table[f].cur_block, fd_table[f].prev_block} \cap Chain(i) = {}
  BY DEF DescriptorsIsolated
<1>1. /\ fd_table[f].cur_block \notin Follow(Nexts, Heads[i])
      /\ fd_table[f].prev_block \notin Follow(Nexts, Heads[i])
  BY DEF HeldInv, FdsHeld, FdHeld, Held
<1> QED BY <1>1, ChainFollows

LEMMA ReachInside == \A nx, x : Follow(nx, x) \subseteq Blocks
  BY DEF Follow

LEMMA ReachNothing == \A nx : Follow(nx, 0) = {}
<1> SUFFICES ASSUME NEW nx PROVE Follow(nx, 0) = {}
  OBVIOUS
<1>1. {} \in SUBSET Blocks /\ Closed(nx, {})
  BY DEF Closed
<1> QED BY <1>1, FollowLeast

LEMMA ZeroHeld == \A g, h, nx, m : Held(g, 0, h, nx, m)
  BY ReachInside, BlockFacts DEF Held

\* The first block of a file may be held on its behalf.
LEMMA HeadHeld ==
  ASSUME BaseInv, LinkInv, ~Deleting, NEW i \in Files
  PROVE  Held(i, files[i].block, Heads, Nexts, bitmap)
<1>1. Heads \in [Files -> Ptr] /\ Nexts \in [Blocks -> Ptr] /\ Once(Heads, Nexts)
  BY PointerTypes, LinkedOnce DEF BaseInv, LinkInv
<1>2. files[i].block = Heads[i] /\ Heads[i] \in Ptr
  BY <1>1 DEF Heads
<1>3. files[i].block \in bitmap \cup {0}
  BY DEF LinkInv, LinkedMarked
<1>4. ASSUME NEW j \in Files, j # i PROVE Heads[i] \notin Follow(Nexts, Heads[j])
  <2>1. CASE Heads[i] = 0
    BY <2>1, ReachInside, BlockFacts
  <2>2. CASE Heads[i] # 0
    <3>1. Heads[i] \in Follow(Nexts, Heads[i])
      BY <1>1, <1>2, <2>2, FollowClosed
    <3>2. Follow(Nexts, Heads[i]) \cap Follow(Nexts, Heads[j]) = {}
      BY <1>1, <1>4, ChainsDisjoint
    <3> QED BY <3>1, <3>2
  <2> QED BY <2>1, <2>2
<1> QED BY <1>2, <1>3, <1>4 DEF Held

\* So may the block behind one that is held.
LEMMA NextHeld ==
  ASSUME BaseInv, LinkInv, NEW g, NEW x \in Blocks, Held(g, x, Heads, Nexts, bitmap)
  PROVE  Held(g, blk[x].next, Heads, Nexts, bitmap)
<1>1. Heads \in [Files -> Ptr] /\ Nexts \in [Blocks -> Ptr] /\ Once(Heads, Nexts)
  BY PointerTypes, LinkedOnce DEF BaseInv, LinkInv
<1> DEFINE y == Nexts[x]
<1>2. y = blk[x].next /\ y \in bitmap \cup {0}
  BY DEF Nexts, LinkInv, LinkedMarked
<1>3. ASSUME NEW i \in Files, i # g, y \in Follow(Nexts, Heads[i]) PROVE FALSE
  <2>1. Heads[i] \in Ptr /\ y # 0
    BY <1>1, <1>3, ReachInside, BlockFacts
  <2>2. y # Heads[i]
    BY <1>1, <2>1 DEF Once
  <2>3. PICK d \in Follow(Nexts, Heads[i]) : Nexts[d] = y
    BY <1>1, <1>3, <2>1, <2>2, FollowBack
  <2>4. d = x
    BY <2>1, <2>3, ReachInside, <1>1 DEF Once
  <2> QED BY <1>3, <2>3, <2>4 DEF Held
<1> HIDE DEF y
<1> QED BY <1>2, <1>3 DEF Held

\* Blocks stay held when chains lose blocks or gain only others.
LEMMA StillHeld ==
  ASSUME NEW g, NEW x, NEW h, NEW nx, NEW m, NEW h2, NEW nx2, NEW m2,
         Held(g, x, h, nx, m), x \in m2 \cup {0},
         \A i \in Files : x \in Follow(nx2, h2[i]) => x \in Follow(nx, h[i])
  PROVE  Held(g, x, h2, nx2, m2)
  BY DEF Held

-----------------------------------------------------------------------------
(* Steps that change no pointer                                            *)

LEMMA HeldInit == Init => HeldInv
<1> SUFFICES ASSUME Init PROVE HeldInv
  OBVIOUS
<1>1. \A f \in Fds : fd_table[f].type # "file"
  BY Zenon DEF Init, InitFdTable, ZeroFd
<1>2. call.op = "idle"
  BY DEF Init, Idle
<1> QED BY <1>1, <1>2
        DEF HeldInv, FdsHeld, SeekHeld, FreshBlock, DoomedFree, Writing, Deleting

Pointers == /\ bitmap \subseteq bitmap'
            /\ \A i \in Files : files'[i].block = files[i].block
            /\ \A b \in Blocks : blk'[b].next = blk[b].next

LEMMA SamePointers == Pointers => Heads' = Heads /\ Nexts' = Nexts
  BY DEF Pointers, Heads, Nexts

LEMMA MoreMarked ==
  ASSUME NEW g, NEW x, Held(g, x, Heads, Nexts, bitmap), bitmap \subseteq bitmap'
  PROVE  Held(g, x, Heads, Nexts, bitmap')
  BY DEF Held

\* A descriptor may be replaced by one that holds blocks of its own file.
LEMMA HeldQuiet ==
  ASSUME HeldInv, Pointers, ~Deleting', ~Writing("link")', call'.op # "seek",
         \A f \in Fds : fd_table'[f].type = "file" =>
            \/ fd_table'[f] = fd_table[f]
            \/ f \in UserFds /\ FdHeld(fd_table'[f], Heads, Nexts, bitmap)
  PROVE  HeldInv'
<1>1. Heads' = Heads /\ Nexts' = Nexts /\ bitmap \subseteq bitmap'
  BY SamePointers DEF Pointers
<1>2. ASSUME NEW f \in Fds, fd_table'[f].type = "file"
      PROVE  f \in UserFds /\ FdHeld(fd_table'[f], Heads, Nexts, bitmap')
  <2>1. f \in UserFds /\ FdHeld(fd_table'[f], Heads, Nexts, bitmap)
    BY <1>2 DEF HeldInv, FdsHeld
  <2> QED BY <1>1, <2>1, MoreMarked DEF FdHeld
<1>3. FdsHeld'
  BY <1>1, <1>2 DEF FdsHeld
<1> QED BY <1>3 DEF HeldInv, SeekHeld, FreshBlock, DoomedFree

LEMMA HeldReply == \A r : HeldInv /\ Reply(r) => HeldInv'
<1> SUFFICES ASSUME NEW r, HeldInv, Reply(r) PROVE HeldInv'
  OBVIOUS
<1>1. Pointers /\ fd_table' = fd_table /\ call' = Idle
  BY DEF Reply, Return, memory, fds, Pointers
<1>2. ~Deleting' /\ ~Writing("link")' /\ call'.op # "seek"
  BY <1>1 DEF Idle, Deleting, Writing
<1> QED BY <1>1, <1>2, HeldQuiet

LEMMA HeldBegin ==
  ASSUME HeldInv, NEW c, Begin(c), UNCHANGED <<memory, meta, blk, fds>>,
         c.op \notin {"delete", "seek"}, c.pc # "link"
  PROVE  HeldInv'
<1>1. Pointers /\ fd_table' = fd_table /\ call' = c
  BY DEF Begin, memory, fds, Pointers
<1>2. ~Deleting' /\ ~Writing("link")' /\ call'.op # "seek"
  BY <1>1 DEF Deleting, Writing
<1> QED BY <1>1, <1>2, HeldQuiet

\* mfs_open at its end: the new descriptor holds the first block.
LEMMA HeldOpenFd ==
  ASSUME BaseInv, LinkInv, HeldInv, ~Deleting, Pointers,
         NEW i \in Files, NEW acc, NEW append, OpenFd(i, acc, append)
  PROVE  HeldInv'
<1>1. PICK p : fd_create([type |-> "file", flags |-> Rights(acc), pos |-> p,
                   cur_block |-> files[i].block, prev_block |-> 0,
                   block_offset |-> 0, file |-> i])
  BY DEF OpenFd
<1> DEFINE e == [type |-> "file", flags |-> Rights(acc), pos |-> p,
                 cur_block |-> files[i].block, prev_block |-> 0,
                 block_offset |-> 0, file |-> i]
<1>2. FdHeld(e, Heads, Nexts, bitmap)
  BY HeadHeld, ZeroHeld DEF FdHeld
<1>3. fd_create(e) /\ call' = Idle
  BY <1>1, FdCreateIdle
<1>4. ~Deleting' /\ ~Writing("link")' /\ call'.op # "seek"
  BY <1>3 DEF Idle, Deleting, Writing
<1> HIDE DEF e
<1>5. CASE UNCHANGED fds
  BY <1>4, <1>5, HeldQuiet DEF fds
<1>6. ASSUME NEW f \in UserFds, fd_table' = [fd_table EXCEPT ![f] = e] PROVE HeldInv'
  <2>1. f \in Fds
    BY DEF UserFds, Fds
  <2>2. \A g \in Fds : fd_table'[g] = IF g = f THEN e ELSE fd_table[g]
    BY <1>6, <2>1 DEF BaseInv, TypeOK
  <2> QED BY <1>2, <1>4, <2>2, HeldQuiet
<1> QED BY <1>3, <1>5, <1>6 DEF fd_create

LEMMA HeldZeroFd ==
  ASSUME BaseInv, HeldInv, Pointers, call' = Idle, NEW f \in Fds,
         fd_table' = [fd_table EXCEPT ![f] = ZeroFd]
  PROVE  HeldInv'
<1>1. \A g \in Fds : fd_table'[g] = IF g = f THEN ZeroFd ELSE fd_table[g]
  BY DEF BaseInv, TypeOK
<1>2. ~Deleting' /\ ~Writing("link")' /\ call'.op # "seek"
  BY DEF Idle, Deleting, Writing
<1> QED BY <1>1, <1>2, HeldQuiet DEF ZeroFd

LEMMA HeldClose == \A f \in AnyFd : BaseInv /\ HeldInv /\ fd_close(f) => HeldInv'
<1> SUFFICES ASSUME NEW f \in AnyFd, BaseInv, HeldInv, fd_close(f) PROVE HeldInv'
  OBVIOUS
<1>1. CASE Reply(1)
  BY <1>1, HeldReply
<1>2. CASE /\ Begin([Flush("close") EXCEPT !.fd = f])
           /\ UNCHANGED <<memory, meta, blk, fds>>
  <2>1. /\ [Flush("close") EXCEPT !.fd = f].op = "close"
        /\ [Flush("close") EXCEPT !.fd = f].pc = "root"
    BY DEF Flush, Idle
  <2> QED BY <1>2, <2>1, HeldBegin
<1>3. CASE /\ f \in UserFds /\ fd_table' = [fd_table EXCEPT ![f] = ZeroFd]
           /\ Return(0) /\ UNCHANGED <<memory, meta, blk>>
  <2>1. f \in Fds /\ Pointers /\ call' = Idle
    BY <1>3 DEF UserFds, Fds, Return, memory, Pointers
  <2> QED BY <1>3, <2>1, HeldZeroFd
<1> QED BY <1>1, <1>2, <1>3 DEF fd_close

LEMMA HeldFlush ==
  ASSUME BaseInv, LinkInv, HeldInv, WriteRoot \/ WriteBitmap \/ WriteEntries
  PROVE  HeldInv'
<1>1. ~Deleting /\ Pointers
  BY DEF WriteRoot, WriteBitmap, WriteEntries, Deleting, memory, Pointers
<1>2. call \in CallRec /\ call.file \in Files /\ call.fd \in Fds
  BY DEF BaseInv, TypeOK, CallRec
<1>3. CASE WriteRoot \/ WriteBitmap
  <2>1. fd_table' = fd_table /\ call'.op = call.op /\ call'.pc \in {"bitmap", "fentry"}
    BY <1>2, <1>3 DEF WriteRoot, WriteBitmap, CallRec, fds
  <2>2. Heads' = Heads /\ Nexts' = Nexts /\ bitmap' = bitmap
    BY <1>1, <1>3, SamePointers DEF WriteRoot, WriteBitmap, memory
  <2>3. call'.block = call.block /\ call'.fd = call.fd
    BY <1>2, <1>3 DEF WriteRoot, WriteBitmap, CallRec
  <2>4. FdsHeld' /\ SeekHeld'
    BY <2>1, <2>2, <2>3 DEF HeldInv, FdsHeld, SeekHeld
  <2> QED BY <2>1, <2>4 DEF HeldInv, FreshBlock, DoomedFree, Writing, Deleting
<1>4. CASE WriteEntries
  <2>1. CASE OpenFd(call.file, call.acc, call.append)
    BY <1>1, <1>2, <2>1, HeldOpenFd
  <2>2. CASE CloseFd(call.fd)
    BY <1>1, <1>2, <2>2, HeldZeroFd DEF CloseFd, Return
  <2>3. CASE Return(0) /\ UNCHANGED fds
    <3>1. ~Deleting' /\ ~Writing("link")' /\ call'.op # "seek" /\ fd_table' = fd_table
      BY <2>3 DEF Return, Idle, Deleting, Writing, fds
    <3> QED BY <1>1, <3>1, HeldQuiet
  <2> QED BY <1>4, <2>1, <2>2, <2>3 DEF WriteEntries
<1> QED BY <1>3, <1>4

\* The start of a seek: the first block of the descriptor's file.
LEMMA HeldSeekCall ==
  ASSUME BaseInv, LinkInv, HeldInv, NEW f \in AnyFd, NEW pos, NEW whence,
         mfs_seek(f, pos, whence)
  PROVE  HeldInv'
<1>1. CASE Reply(-1)
  BY <1>1, HeldReply
<1>2. ASSUME NEW o, IsFile(f),
             Begin([Idle EXCEPT !.op = "seek", !.pc = "loop", !.fd = f,
                      !.pos = pos, !.offset = o,
                      !.block = files[fd_table[f].file].block]),
             UNCHANGED <<memory, meta, blk, fds>>
      PROVE  HeldInv'
  <2>1. /\ call.op = "idle" /\ call'.op = "seek" /\ call'.pc = "loop" /\ call'.fd = f
        /\ call'.block = files[fd_table[f].file].block
    BY <1>2 DEF Begin, Idle
  <2>2. Pointers /\ bitmap' = bitmap /\ fd_table' = fd_table
    BY <1>2 DEF memory, fds, Pointers
  <2>3. Heads' = Heads /\ Nexts' = Nexts
    BY <2>2, SamePointers
  <2>4. fd_table[f].file \in Files /\ ~Deleting
    BY <1>2, <2>1 DEF IsFile, BaseInv, FdsOnFiles, Deleting
  <2>5. FdsHeld' /\ SeekHeld'
    BY <2>1, <2>2, <2>3, <2>4, HeadHeld DEF HeldInv, FdsHeld, SeekHeld
  <2> QED BY <2>1, <2>5 DEF HeldInv, FreshBlock, DoomedFree, Writing, Deleting
<1> QED BY <1>1, <1>2 DEF mfs_seek

LEMMA HeldOtherCalls ==
  ASSUME HeldInv,
         \/ \E f \in AnyFd :
              \/ \E count \in Counts : mfs_read(f, count)
              \/ \E buf \in Buffers : mfs_write(f, buf)
         \/ \E n \in Names : mfs_filesize(n)
         \/ mfs_sync \/ mfs_list
  PROVE  HeldInv'
<1>1. ASSUME NEW f, NEW count, mfs_read(f, count) PROVE HeldInv'
  <2> DEFINE c == [Idle EXCEPT !.op = "read", !.pc = "loop", !.fd = f,
                               !.count = count]
  <2>1. c.op = "read" /\ c.pc = "loop"
    BY DEF Idle
  <2> QED BY <1>1, <2>1, HeldReply, HeldBegin DEF mfs_read
<1>2. ASSUME NEW f, NEW buf, mfs_write(f, buf) PROVE HeldInv'
  <2> DEFINE c == [Idle EXCEPT !.op = "write", !.pc = "loop", !.fd = f,
                               !.count = Len(buf), !.buf = buf]
  <2>1. c.op = "write" /\ c.pc = "loop"
    BY DEF Idle
  <2> QED BY <1>2, <2>1, HeldReply, HeldBegin DEF mfs_write
<1>3. ASSUME NEW n, mfs_filesize(n) PROVE HeldInv'
  BY <1>3, HeldReply DEF mfs_filesize
<1>4. CASE mfs_list
  BY <1>4, HeldReply DEF mfs_list
<1>5. CASE mfs_sync
  <2>1. Flush("sync").op = "sync" /\ Flush("sync").pc = "root"
    BY DEF Flush, Idle
  <2> QED BY <1>5, <2>1, HeldBegin DEF mfs_sync
<1> QED BY <1>1, <1>2, <1>3, <1>4, <1>5

\* A transfer ends in the block it began in or in the next one.
LEMMA HeldAfter ==
  ASSUME BaseInv, LinkInv, NEW e \in FdEntry, e.cur_block \in Blocks, NEW n,
         FdHeld(e, Heads, Nexts, bitmap)
  PROVE  /\ FdHeld(AfterRead(e, n), Heads, Nexts, bitmap)
         /\ FdHeld(AfterWrite(e, n), Heads, Nexts, bitmap)
<1>1. Held(e.file, blk[e.cur_block].next, Heads, Nexts, bitmap)
  BY NextHeld DEF FdHeld
<1>2. /\ AfterRead(e, n).file = e.file /\ AfterRead(e, n).prev_block = e.prev_block
      /\ AfterRead(e, n).cur_block \in {e.cur_block, blk[e.cur_block].next}
  BY DEF AfterRead, FdEntry
<1>3. /\ AfterWrite(e, n).file = e.file
      /\ AfterWrite(e, n).prev_block \in {e.prev_block, e.cur_block}
      /\ AfterWrite(e, n).cur_block \in {e.cur_block, blk[e.cur_block].next}
  BY DEF AfterWrite, FdEntry
<1> QED BY <1>1, <1>2, <1>3 DEF FdHeld

LEMMA HeldReadData ==
  ASSUME BaseInv, LinkInv, HeldInv, ReadBlock \/ WriteData PROVE HeldInv'
<1> DEFINE e == fd_table[call.fd]
<1>1. /\ call \in CallRec /\ call.fd \in Fds /\ e \in FdEntry /\ e.type = "file"
      /\ call.op \in {"read", "write"} /\ e.cur_block \in Blocks
  <2>1. Valid(e.cur_block) /\ call.op \in {"read", "write"}
    BY DEF ReadBlock, ReadMore, WriteData, WriteMore, Writing
  <2> QED BY <2>1, BlockFacts DEF BaseInv, TypeOK, CallRec, CallSound, FdEntry
<1>2. FdHeld(e, Heads, Nexts, bitmap) /\ call.fd \in UserFds
  BY <1>1 DEF HeldInv, FdsHeld
<1>3. PICK n : \/ fd_table' = [fd_table EXCEPT ![call.fd] = AfterRead(e, n)]
               \/ fd_table' = [fd_table EXCEPT ![call.fd] = AfterWrite(e, n)]
  BY DEF ReadBlock, WriteData
<1>4. Pointers
  <2>1. CASE ReadBlock
    BY <2>1 DEF ReadBlock, memory, Pointers
  <2>2. CASE WriteData
    <3>1. PICK new : blk' = [blk EXCEPT ![e.cur_block].data = new]
      BY <2>2 DEF WriteData
    <3>2. PICK s : files' = [files EXCEPT ![e.file].size = s]
      BY <2>2 DEF WriteData
    <3>3. bitmap' = bitmap
      BY <2>2 DEF WriteData
    <3> HIDE DEF e
    <3>4. \A b \in Blocks : blk'[b].next = blk[b].next
      BY <3>1 DEF BaseInv, TypeOK, Block
    <3>5. \A i \in Files : files'[i].block = files[i].block
      BY <3>2 DEF BaseInv, TypeOK, FileEntry
    <3> QED BY <3>3, <3>4, <3>5 DEF Pointers
  <2> QED BY <2>1, <2>2
<1>5. ~Deleting' /\ ~Writing("link")' /\ call'.op # "seek"
  <2>1. CASE ReadBlock
    <3>1. call'.op = "read"
      BY <1>1, <2>1 DEF ReadBlock, CallRec
    <3> QED BY <3>1 DEF Deleting, Writing
  <2>2. CASE WriteData
    <3>1. call'.op = "write" /\ call'.pc = "loop"
      BY <1>1, <2>2 DEF WriteData, WriteMore, Writing, CallRec
    <3> QED BY <3>1 DEF Deleting, Writing
  <2> QED BY <2>1, <2>2
<1>6. /\ FdHeld(AfterRead(e, n), Heads, Nexts, bitmap)
      /\ FdHeld(AfterWrite(e, n), Heads, Nexts, bitmap)
  BY <1>1, <1>2, HeldAfter
<1> HIDE DEF e
<1>7. \A f \in Fds : fd_table'[f] = IF f = call.fd THEN fd_table'[call.fd] ELSE fd_table[f]
  BY <1>3 DEF BaseInv, TypeOK
<1>8. fd_table'[call.fd] \in {AfterRead(e, n), AfterWrite(e, n)}
  BY <1>1, <1>3 DEF BaseInv, TypeOK
<1>9. \A f \in Fds : fd_table'[f].type = "file" =>
         \/ fd_table'[f] = fd_table[f]
         \/ f \in UserFds /\ FdHeld(fd_table'[f], Heads, Nexts, bitmap)
  BY <1>2, <1>6, <1>7, <1>8
<1> QED BY <1>4, <1>5, <1>9, HeldQuiet

LEMMA HeldEnds ==
  ASSUME HeldInv, ReadDone \/ WriteFull \/ WriteDone PROVE HeldInv'
<1>1. Pointers /\ fd_table' = fd_table /\ call' = Idle
  BY DEF ReadDone, WriteFull, WriteDone, Return, memory, fds, Pointers
<1>2. ~Deleting' /\ ~Writing("link")' /\ call'.op # "seek"
  BY <1>1 DEF Idle, Deleting, Writing
<1> QED BY <1>1, <1>2, HeldQuiet

LEMMA HeldSeek ==
  ASSUME BaseInv, LinkInv, HeldInv, SeekBlock \/ SeekDone PROVE HeldInv'
<1>1. /\ call \in CallRec /\ call.op = "seek" /\ call.fd \in Fds /\ call.block \in Ptr
      /\ Held(fd_table[call.fd].file, call.block, Heads, Nexts, bitmap)
  BY DEF SeekBlock, SeekDone, BaseInv, TypeOK, CallRec, HeldInv, SeekHeld
<1>2. Pointers /\ bitmap' = bitmap
  BY DEF SeekBlock, SeekDone, memory, Pointers
<1>3. CASE SeekBlock
  <2>1. call.block \in Blocks
    BY <1>1, <1>3, BlockFacts DEF SeekBlock, SeekMore
  <2>2. /\ call'.op = "seek" /\ call'.fd = call.fd /\ fd_table' = fd_table
        /\ call'.block = blk[call.block].next
    BY <1>1, <1>3 DEF SeekBlock, CallRec, fds
  <2>3. Held(fd_table[call.fd].file, blk[call.block].next, Heads, Nexts, bitmap)
    BY <1>1, <2>1, NextHeld
  <2>4. Heads' = Heads /\ Nexts' = Nexts
    BY <1>2, SamePointers
  <2>5. FdsHeld' /\ SeekHeld'
    BY <1>2, <2>2, <2>3, <2>4 DEF HeldInv, FdsHeld, SeekHeld
  <2> QED BY <2>2, <2>5 DEF HeldInv, FreshBlock, DoomedFree, Writing, Deleting
<1>4. CASE SeekDone
  <2> DEFINE e == fd_table[call.fd]
             x == [e EXCEPT !.pos = call.pos, !.cur_block = call.block,
                            !.block_offset = call.offset]
  <2>1. e \in FdEntry
    BY <1>1 DEF BaseInv, TypeOK
  <2>2. \A f \in Fds : fd_table'[f] = IF f = call.fd THEN x ELSE fd_table[f]
    BY <1>1, <1>4 DEF SeekDone, BaseInv, TypeOK
  <2>3. /\ x.type = e.type /\ x.file = e.file /\ x.cur_block = call.block
        /\ x.prev_block = e.prev_block
    <3> HIDE DEF e
    <3> QED BY <2>1 DEF FdEntry
  <2>4. ~Deleting' /\ ~Writing("link")' /\ call'.op # "seek"
    BY <1>4 DEF SeekDone, Return, Idle, Deleting, Writing
  <2>5. e.type = "file" => call.fd \in UserFds /\ FdHeld(e, Heads, Nexts, bitmap)
    BY <1>1 DEF HeldInv, FdsHeld
  <2>6. e.type = "file" => FdHeld(x, Heads, Nexts, bitmap)
    <3> HIDE DEF x
    <3> QED BY <1>1, <2>3, <2>5 DEF FdHeld
  <2> HIDE DEF e, x
  <2> QED BY <1>2, <2>2, <2>3, <2>4, <2>5, <2>6, HeldQuiet
<1> QED BY <1>3, <1>4

-----------------------------------------------------------------------------
(* Steps that change pointers                                              *)

\* A block that nothing points to is in no chain.
LEMMA UnpointedOutside ==
  ASSUME BaseInv, NEW b \in Blocks, Unpointed(b), NEW i \in Files
  PROVE  b \notin Follow(Nexts, Heads[i])
<1>1. Heads \in [Files -> Ptr] /\ Nexts \in [Blocks -> Ptr] /\ Heads[i] \in Ptr
  BY PointerTypes DEF BaseInv
<1>2. b # Heads[i] /\ \A d \in Blocks : Nexts[d] # b
  BY DEF Unpointed, Heads, Nexts
<1> QED BY <1>1, <1>2, FollowBack, ReachInside

\* The blocks held by descriptors, in any state that follows.
LEMMA FdsStillHeld ==
  ASSUME HeldInv, UNCHANGED fd_table,
         \A f \in Fds : fd_table[f].type = "file" =>
            \A x \in {fd_table[f].cur_block, fd_table[f].prev_block} :
               /\ x \in bitmap' \cup {0}
               /\ \A i \in Files : x \in Follow(Nexts', Heads'[i])
                                      => x \in Follow(Nexts, Heads[i])
  PROVE  FdsHeld'
<1>1. ASSUME NEW f \in Fds, fd_table[f].type = "file"
      PROVE  f \in UserFds /\ FdHeld(fd_table[f], Heads', Nexts', bitmap')
  <2>1. f \in UserFds /\ FdHeld(fd_table[f], Heads, Nexts, bitmap)
    BY <1>1 DEF HeldInv, FdsHeld
  <2> QED BY <1>1, <2>1, StillHeld DEF FdHeld
<1> QED BY <1>1 DEF FdsHeld

\* Marks that descriptors rely on: a block not marked is held by nobody.
LEMMA HeldMarked ==
  ASSUME HeldInv, NEW f \in Fds, fd_table[f].type = "file",
         NEW x \in {fd_table[f].cur_block, fd_table[f].prev_block}
  PROVE  x \in bitmap \cup {0}
  BY DEF HeldInv, FdsHeld, FdHeld, Held

LEMMA HeldOpenCreate ==
  ASSUME BaseInv, LinkInv, HeldInv, NEW n \in Names, NEW fl \in OpenFlags, OpenCreate(n, fl)
  PROVE  HeldInv'
<1>1. PICK b \in Blocks, i \in Files :
         /\ b \notin bitmap
         /\ bitmap' = bitmap \cup {b}
         /\ files' = [files EXCEPT ![i] = [used |-> TRUE, name |-> Stored[n],
                         size |-> 0, block_size |-> 0, block |-> b]]
         /\ blk' = [blk EXCEPT ![b] = BlankBlock]
         /\ Begin([Flush("open") EXCEPT !.file = i, !.acc = fl.acc,
                                        !.append = fl.append])
  BY DEF OpenCreate, alloc_block
<1>2. call'.op = "open" /\ fd_table' = fd_table
  BY <1>1 DEF OpenCreate, Begin, Flush, Idle, fds
<1>3. Heads \in [Files -> Ptr] /\ Nexts \in [Blocks -> Ptr]
  BY PointerTypes DEF BaseInv
<1>4. Heads' = [Heads EXCEPT ![i] = b] /\ Nexts' = [Nexts EXCEPT ![b] = 0]
  BY <1>1 DEF BaseInv, TypeOK, Heads, Nexts, BlankBlock
<1>5. Nexts' \in [Blocks -> Ptr]
  BY <1>3, <1>4 DEF Ptr
<1>6. \A j \in Files : Follow(Nexts', Heads'[j]) \subseteq Follow(Nexts, Heads[j]) \cup {b}
  <2> SUFFICES ASSUME NEW j \in Files
               PROVE  Follow(Nexts', Heads'[j]) \subseteq Follow(Nexts, Heads[j]) \cup {b}
    OBVIOUS
  <2>1. CASE j = i
    <3>1. {b} \in SUBSET Blocks /\ Heads'[j] \in {b} \cup {0} /\ Closed(Nexts', {b})
      BY <1>3, <1>4, <2>1 DEF Closed
    <3>2. Follow(Nexts', Heads'[j]) \subseteq {b}
      BY <3>1, FollowLeast
    <3> QED BY <3>2
  <2>2. CASE j # i
    <3>1. Heads'[j] = Heads[j] /\ Heads[j] \in Ptr /\ \A c \in Blocks : Nexts'[c] \in {Nexts[c], 0}
      BY <1>3, <1>4, <2>2
    <3>2. Follow(Nexts', Heads[j]) \subseteq Follow(Nexts, Heads[j])
      BY <1>3, <1>5, <3>1, FollowCut
    <3> QED BY <3>1, <3>2
  <2> QED BY <2>1, <2>2
<1>7. b # 0
  BY BlockFacts
<1>8. FdsHeld'
  <2>1. ASSUME NEW f \in Fds, fd_table[f].type = "file",
               NEW x \in {fd_table[f].cur_block, fd_table[f].prev_block}
        PROVE  x \in bitmap' \cup {0} /\ x # b
    BY <1>1, <1>7, <2>1, HeldMarked
  <2> QED BY <1>2, <1>6, <2>1, FdsStillHeld
<1> QED BY <1>2, <1>8 DEF HeldInv, SeekHeld, FreshBlock, DoomedFree, Writing, Deleting

LEMMA HeldWriteAlloc ==
  ASSUME BaseInv, LinkInv, HeldInv, WriteAlloc PROVE HeldInv'
<1>1. PICK b \in Blocks :
        /\ b \notin bitmap /\ bitmap' = bitmap \cup {b}
        /\ blk' = [blk EXCEPT ![b] = BlankBlock]
        /\ call' = [call EXCEPT !.pc = "link", !.block = b]
  BY DEF WriteAlloc, alloc_block
<1>2. call'.op = "write" /\ call'.block = b /\ fd_table' = fd_table /\ files' = files
  BY <1>1 DEF WriteAlloc, WriteMore, Writing, BaseInv, TypeOK, CallRec, fds
<1>3. Heads \in [Files -> Ptr] /\ Nexts \in [Blocks -> Ptr] /\ b # 0
  BY PointerTypes, BlockFacts DEF BaseInv
<1>4. Heads' = Heads /\ Nexts' = [Nexts EXCEPT ![b] = 0]
  BY <1>1, <1>2 DEF BaseInv, TypeOK, Heads, Nexts, BlankBlock
<1>5. Nexts' \in [Blocks -> Ptr] /\ \A c \in Blocks : Nexts'[c] \in {Nexts[c], 0}
  BY <1>3, <1>4 DEF Ptr
<1>6. \A j \in Files : Follow(Nexts', Heads[j]) \subseteq Follow(Nexts, Heads[j])
  BY <1>3, <1>5, FollowCut
<1>7. FdsHeld'
  <2>1. ASSUME NEW f \in Fds, fd_table[f].type = "file",
               NEW x \in {fd_table[f].cur_block, fd_table[f].prev_block}
        PROVE  x \in bitmap' \cup {0}
    BY <1>1, <2>1, HeldMarked
  <2> QED BY <1>2, <1>4, <1>6, <2>1, FdsStillHeld
<1>8. FreshBlock'
  <2>1. Nexts'[b] = 0
    BY <1>3, <1>4
  <2>2. ASSUME NEW f \in Fds, fd_table[f].type = "file"
        PROVE  fd_table[f].cur_block # b /\ fd_table[f].prev_block # b
    BY <1>1, <1>3, <2>2, HeldMarked
  <2> QED BY <1>2, <2>1, <2>2 DEF FreshBlock
<1> QED BY <1>2, <1>7, <1>8 DEF HeldInv, SeekHeld, DoomedFree, Deleting

\* The pointer that is set belongs to the descriptor's own file, so no other
\* chain changes, and the own one gains only the new block.
LEMMA HeldWriteLink ==
  ASSUME BaseInv, LinkInv, HeldInv, WriteLink PROVE HeldInv'
<1> DEFINE e == fd_table[call.fd]
           b == call.block
           g == e.file
<1>1. /\ call \in CallRec /\ call.fd \in Fds /\ call.op = "write" /\ Writing("link")
      /\ e \in FdEntry /\ e.type = "file" /\ g \in Files
  BY DEF BaseInv, TypeOK, CallRec, CallSound, FdsOnFiles, WriteLink, Writing
<1>2. b \in bitmap /\ b \in Blocks /\ Unpointed(b) /\ Nexts[b] = 0
  BY <1>1 DEF LinkInv, NewBlock, HeldInv, FreshBlock, BaseInv, TypeOK
<1>3. bitmap' = bitmap /\ call'.op = "write" /\ call'.pc = "loop"
  BY <1>1 DEF WriteLink, CallRec
<1>4. /\ \A f \in Fds : f # call.fd => fd_table'[f] = fd_table[f]
      /\ fd_table'[call.fd].file = g /\ fd_table'[call.fd].cur_block = b
      /\ fd_table'[call.fd].prev_block = e.prev_block
  BY <1>1 DEF WriteLink, BaseInv, TypeOK, FdEntry
<1>5. \A f \in Fds : fd_table[f].type = "file" =>
         fd_table[f].cur_block # b /\ fd_table[f].prev_block # b
  BY <1>1 DEF HeldInv, FreshBlock
<1>6. Heads \in [Files -> Ptr] /\ Nexts \in [Blocks -> Ptr]
  BY PointerTypes DEF BaseInv
<1>7. call.fd \in UserFds /\ FdHeld(e, Heads, Nexts, bitmap)
  BY <1>1 DEF HeldInv, FdsHeld
<1>8. \A j \in Files : /\ Follow(Nexts', Heads'[j]) \subseteq Follow(Nexts, Heads[j]) \cup {b}
                       /\ j # g => Follow(Nexts', Heads'[j]) \subseteq Follow(Nexts, Heads[j])
  <2> SUFFICES ASSUME NEW j \in Files
               PROVE  /\ Follow(Nexts', Heads'[j]) \subseteq Follow(Nexts, Heads[j]) \cup {b}
                      /\ j # g => Follow(Nexts', Heads'[j]) \subseteq Follow(Nexts, Heads[j])
    OBVIOUS
  <2> DEFINE F == Follow(Nexts, Heads[j])
  <2>1. /\ F \in SUBSET Blocks /\ Heads[j] \in F \cup {0} /\ Closed(Nexts, F)
    BY <1>6, FollowClosed
  <2>2. CASE e.prev_block # 0
    <3> DEFINE p == e.prev_block
    <3>1. p \in Blocks /\ p # b
      BY <1>1, <1>5, <2>2, BlockFacts DEF FdEntry
    <3>2. files' = files /\ blk' = [blk EXCEPT ![p].next = b]
      BY <2>2 DEF WriteLink
    <3> HIDE DEF e, p, b
    <3>3. Heads' = Heads /\ Nexts' = [Nexts EXCEPT ![p] = b]
      BY <3>1, <3>2 DEF BaseInv, TypeOK, Block, Heads, Nexts
    <3>4. Closed(Nexts', F \cup {b})
      BY <1>2, <1>6, <2>1, <3>1, <3>3 DEF Closed
    <3>5. Follow(Nexts', Heads[j]) \subseteq F \cup {b}
      BY <1>2, <2>1, <3>4, FollowLeast
    <3>6. ASSUME j # g PROVE Follow(Nexts', Heads[j]) \subseteq F
      <4>1. p \notin F
        BY <1>7, <3>6 DEF FdHeld, Held, p
      <4>2. Closed(Nexts', F)
        BY <1>6, <2>1, <3>3, <4>1 DEF Closed
      <4> QED BY <2>1, <4>2, FollowLeast
    <3> QED BY <3>3, <3>5, <3>6
  <2>3. CASE e.prev_block = 0
    <3>1. blk' = blk /\ files' = [files EXCEPT ![g].block = b]
      BY <2>3 DEF WriteLink
    <3>2. Nexts' = Nexts
      BY <3>1 DEF Nexts
    <3> HIDE DEF g, b, e
    <3>3. Heads' = [Heads EXCEPT ![g] = b]
      BY <1>1, <3>1 DEF BaseInv, TypeOK, FileEntry, Heads
    <3>4. CASE j = g
      <4>1. {b} \in SUBSET Blocks /\ Heads'[j] \in {b} \cup {0} /\ Closed(Nexts, {b})
        BY <1>2, <1>6, <3>3, <3>4 DEF Closed
      <4>2. Follow(Nexts, Heads'[j]) \subseteq {b}
        BY <4>1, FollowLeast
      <4> QED BY <3>2, <3>4, <4>2
    <3>5. CASE j # g
      <4>1. Heads'[j] = Heads[j]
        BY <1>6, <3>3, <3>5
      <4> QED BY <3>2, <4>1
    <3> QED BY <3>4, <3>5
  <2> QED BY <2>2, <2>3
<1>9. ASSUME NEW f \in Fds, fd_table'[f].type = "file", f # call.fd
      PROVE  f \in UserFds /\ FdHeld(fd_table'[f], Heads', Nexts', bitmap')
  <2>1. fd_table'[f] = fd_table[f] /\ fd_table[f].type = "file"
    BY <1>4, <1>9
  <2>2. f \in UserFds /\ FdHeld(fd_table[f], Heads, Nexts, bitmap)
    BY <2>1 DEF HeldInv, FdsHeld
  <2>3. fd_table[f].cur_block # b /\ fd_table[f].prev_block # b
    BY <1>5, <2>1
  <2> HIDE DEF b, g, e
  <2>4. FdHeld(fd_table[f], Heads', Nexts', bitmap')
    BY <1>3, <1>8, <2>2, <2>3 DEF FdHeld, Held
  <2> QED BY <2>1, <2>2, <2>4
<1>10. FdHeld(fd_table'[call.fd], Heads', Nexts', bitmap')
  <2>1. \A j \in Files : b \notin Follow(Nexts, Heads[j])
    BY <1>2, UnpointedOutside
  <2>2. e.prev_block # b
    BY <1>1, <1>5
  <2> HIDE DEF b, g, e
  <2>3. Held(g, b, Heads', Nexts', bitmap')
    BY <1>2, <1>3, <1>8, <2>1 DEF Held
  <2>4. Held(g, e.prev_block, Heads, Nexts, bitmap)
    BY <1>7 DEF FdHeld, g
  <2>5. Held(g, e.prev_block, Heads', Nexts', bitmap')
    BY <1>3, <1>8, <2>2, <2>4 DEF Held
  <2> QED BY <1>4, <2>3, <2>5 DEF FdHeld
<1>11. FdsHeld'
  BY <1>7, <1>9, <1>10 DEF FdsHeld
<1> QED BY <1>3, <1>11 DEF HeldInv, SeekHeld, FreshBlock, DoomedFree, Writing, Deleting

\* Nobody has the file open, so nobody holds a block of its chain.
LEMMA HeldDeleteCall ==
  ASSUME ~DeleteOpen, BaseInv, LinkInv, HeldInv, NEW n, mfs_delete(n) PROVE HeldInv'
<1>1. CASE Reply(-1)
  BY <1>1, HeldReply
<1>2. ASSUME NEW i \in Files, \A f \in UserFds : ~IsOpenOn(f, i),
             Begin([Idle EXCEPT !.op = "delete", !.pc = "loop", !.file = i,
                                !.block = files[i].block]),
             UNCHANGED <<memory, meta, blk, fds>>
      PROVE  HeldInv'
  <2>1. Pointers /\ bitmap' = bitmap /\ fd_table' = fd_table
    BY <1>2 DEF memory, fds, Pointers
  <2>2. call'.op = "delete" /\ call'.file = i /\ call'.block = Heads[i]
    BY <1>2 DEF Begin, Idle, Heads
  <2>3. Heads' = Heads /\ Nexts' = Nexts
    BY <2>1, SamePointers
  <2>4. FdsHeld'
    BY <2>1, <2>3 DEF HeldInv, FdsHeld
  <2>5. ASSUME NEW f \in Fds, fd_table[f].type = "file"
        PROVE  /\ fd_table[f].file # i
               /\ fd_table[f].cur_block \notin Follow(Nexts, Heads[i])
               /\ fd_table[f].prev_block \notin Follow(Nexts, Heads[i])
    <3>1. f \in UserFds /\ FdHeld(fd_table[f], Heads, Nexts, bitmap)
      BY <2>5 DEF HeldInv, FdsHeld
    <3>2. fd_table[f].file # i
      BY <1>2, <2>5, <3>1 DEF IsOpenOn
    <3> QED BY <3>1, <3>2 DEF FdHeld, Held
  <2>6. DoomedFree'
    BY <2>1, <2>2, <2>3, <2>5 DEF DoomedFree
  <2> QED BY <2>2, <2>4, <2>6 DEF HeldInv, SeekHeld, FreshBlock, Writing
<1> QED BY <1>1, <1>2 DEF mfs_delete

LEMMA HeldDeleteBlock ==
  ASSUME BaseInv, LinkInv, HeldInv, DeleteBlock PROVE HeldInv'
<1> DEFINE b == call.block
<1>1. b \in Blocks /\ b # 0 /\ call.file \in Files /\ Deleting
  BY BlockFacts DEF DeleteBlock, BaseInv, TypeOK, CallRec
<1>2. /\ call'.op = "delete" /\ call'.file = call.file /\ call'.block = Nexts[b]
      /\ fd_table' = fd_table /\ files' = files /\ bitmap' = bitmap \ {b}
  BY <1>1 DEF DeleteBlock, Deleting, BaseInv, TypeOK, CallRec, Nexts, fds
<1>3. Heads \in [Files -> Ptr] /\ Nexts \in [Blocks -> Ptr]
  BY PointerTypes DEF BaseInv
<1>4. Heads' = Heads /\ Nexts' = [Nexts EXCEPT ![b] = 0]
  BY <1>1, <1>2 DEF DeleteBlock, BaseInv, TypeOK, Heads, Nexts, BlankBlock
<1>5. Nexts' \in [Blocks -> Ptr] /\ \A c \in Blocks : Nexts'[c] \in {Nexts[c], 0}
  BY <1>3, <1>4 DEF Ptr
<1>6. \A j \in Files : Follow(Nexts', Heads[j]) \subseteq Follow(Nexts, Heads[j])
  BY <1>3, <1>5, FollowCut
<1>7. /\ Follow(Nexts, b) \in SUBSET Blocks /\ b \in Follow(Nexts, b)
      /\ Closed(Nexts, Follow(Nexts, b))
  <2>1. b \in Ptr
    BY <1>1 DEF Ptr
  <2> QED BY <1>1, <1>3, <2>1, FollowClosed
<1>8. Follow(Nexts', Nexts[b]) \subseteq Follow(Nexts, b)
  <2>1. Nexts[b] \in Follow(Nexts, b) \cup {0} /\ Nexts[b] \in Ptr
    BY <1>1, <1>3, <1>7 DEF Closed
  <2>2. Follow(Nexts, Nexts[b]) \subseteq Follow(Nexts, b)
    BY <1>7, <2>1, FollowLeast
  <2>3. Follow(Nexts', Nexts[b]) \subseteq Follow(Nexts, Nexts[b])
    BY <1>3, <1>5, <2>1, FollowCut
  <2> QED BY <2>2, <2>3
<1>9. ASSUME NEW f \in Fds, fd_table[f].type = "file",
             NEW x \in {fd_table[f].cur_block, fd_table[f].prev_block}
      PROVE  /\ fd_table[f].file # call.file /\ x \notin Follow(Nexts, b)
             /\ x \in bitmap' \cup {0}
  <2>1. fd_table[f].file # call.file /\ x \notin Follow(Nexts, b)
    BY <1>1, <1>9 DEF HeldInv, DoomedFree
  <2>2. x \in bitmap \cup {0}
    BY <1>9, HeldMarked
  <2> QED BY <1>2, <1>7, <2>1, <2>2
<1> HIDE DEF b
<1>10. FdsHeld'
  BY <1>2, <1>4, <1>6, <1>9, FdsStillHeld
<1>11. DoomedFree'
  BY <1>2, <1>8, <1>9 DEF DoomedFree
<1> QED BY <1>2, <1>10, <1>11 DEF HeldInv, SeekHeld, FreshBlock, Writing

LEMMA HeldDeleteEntry ==
  ASSUME BaseInv, HeldInv, DeleteEntry PROVE HeldInv'
<1>1. /\ call.file \in Files /\ call'.op = "delete" /\ call'.pc = "root"
      /\ fd_table' = fd_table /\ blk' = blk /\ bitmap' = bitmap
  BY DEF DeleteEntry, Deleting, BaseInv, TypeOK, CallRec, fds
<1>2. Heads \in [Files -> Ptr]
  BY PointerTypes DEF BaseInv
<1>3. Nexts' = Nexts /\ Heads' = [Heads EXCEPT ![call.file] = 0]
  BY <1>1 DEF DeleteEntry, BaseInv, TypeOK, Heads, Nexts, ZeroFile
<1>4. \A j \in Files : Follow(Nexts', Heads'[j]) \subseteq Follow(Nexts, Heads[j])
  BY <1>1, <1>2, <1>3, ReachNothing
<1>5. ASSUME NEW f \in Fds, fd_table[f].type = "file",
             NEW x \in {fd_table[f].cur_block, fd_table[f].prev_block}
      PROVE  x \in bitmap' \cup {0}
  BY <1>1, <1>5, HeldMarked
<1>6. FdsHeld'
  BY <1>1, <1>4, <1>5, FdsStillHeld
<1> QED BY <1>1, <1>6 DEF HeldInv, SeekHeld, FreshBlock, DoomedFree, Writing, Deleting

LEMMA HeldOpen ==
  ASSUME BaseInv, LinkInv, HeldInv, NEW n \in Names, NEW fl \in OpenFlags,
         \/ OpenExisting(n, fl) \/ OpenMissing(n, fl)
         \/ OpenNoRoom(n, fl)   \/ OpenCreate(n, fl)
  PROVE  HeldInv'
<1>1. CASE OpenExisting(n, fl)
  <2>1. PICK i \in Files : OpenFd(i, fl.acc, fl.append)
    BY <1>1 DEF OpenExisting
  <2>2. ~Deleting /\ Pointers
    BY <1>1 DEF OpenExisting, Deleting, memory, Pointers
  <2> QED BY <2>1, <2>2, HeldOpenFd
<1>2. CASE OpenMissing(n, fl)
  BY <1>2, HeldReply DEF OpenMissing
<1>3. CASE OpenNoRoom(n, fl)
  <2>1. Pointers /\ fd_table' = fd_table /\ call' = Idle
    BY <1>3 DEF OpenNoRoom, Return, fds, Pointers
  <2>2. ~Deleting' /\ ~Writing("link")' /\ call'.op # "seek"
    BY <2>1 DEF Idle, Deleting, Writing
  <2> QED BY <2>1, <2>2, HeldQuiet
<1>4. CASE OpenCreate(n, fl)
  BY <1>4, HeldOpenCreate
<1> QED BY <1>1, <1>2, <1>3, <1>4

LEMMA HeldStep ==
  ASSUME ~DeleteOpen, BaseInv, LinkInv, HeldInv, [Next]_vars PROVE HeldInv'
<1>1. CASE Syscall
  BY <1>1, HeldOpen, HeldClose, HeldSeekCall, HeldOtherCalls, HeldDeleteCall DEF Syscall
<1>2. CASE KernelStep
  BY <1>2, HeldFlush, HeldReadData, HeldEnds, HeldSeek, HeldWriteAlloc, HeldWriteLink,
     HeldDeleteBlock, HeldDeleteEntry DEF KernelStep
<1>3. CASE UNCHANGED vars
  BY <1>3 DEF vars, HeldInv, FdsHeld, SeekHeld, FreshBlock, DoomedFree, Heads, Nexts,
              Writing, Deleting
<1> QED BY <1>1, <1>2, <1>3 DEF Next

\* If programs delete files only while they are closed, a descriptor never
\* comes to point into the chain of a file other than its own, although
\* mfs_write trusts prev_block after reads and seeks that leave it behind:
\* a stale prev_block is in the chain of its own file, or in none.
THEOREM DescriptorsStayIsolated == ~DeleteOpen => (Spec => []DescriptorsIsolated)
<1> SUFFICES ASSUME ~DeleteOpen PROVE Spec => []DescriptorsIsolated
  OBVIOUS
<1>1. HeldInv => DescriptorsIsolated
  BY HeldIsolates
<1>2. BaseInv /\ LinkInv /\ HeldInv /\ [Next]_vars => HeldInv'
  BY HeldStep
<1> QED BY <1>1, <1>2, BaseInit, BaseStep, LinkInit, LinkStep, HeldInit, PTL DEF Spec
=============================================================================
