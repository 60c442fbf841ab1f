--------------------------- MODULE MfsUtil_proofs ---------------------------
(***************************************************************************)
(* Proofs about MfsUtil, for images, tables, sectors and buffers of every  *)
(* size: as long as every file has 1 to BUF bytes no sequence of runs of   *)
(* the tool lets two files share a sector, and what was stored last under  *)
(* a name is what the tool reads back and, until a file is deleted, what   *)
(* the kernel loads.                                                       *)
(***************************************************************************)
EXTENDS MfsUtil, TLAPS, NaturalsInduction, WellFoundedInduction, FiniteSetTheorems, SequenceTheorems

Ptr == Sectors \cup {0}

LEMMA Least == ASSUME NEW T \in SUBSET Nat, T # {} PROVE \E x \in T : \A y \in T : x <= y
<1> DEFINE R == OpToRel(<, Nat)
<1>1. \E x \in T : \A y \in T : ~(<<y, x>> \in R)
  BY NatLessThanWellFounded, WFMin
<1>2. \A x, y \in T : <<y, x>> \in R <=> y < x
  BY DEF OpToRel
<1> HIDE DEF R
<1>3. PICK x \in T : \A y \in T : ~(<<y, x>> \in R)
  BY <1>1
<1>4. ASSUME NEW y \in T PROVE x <= y
  <2>1. ~(y < x)
    BY <1>2, <1>3
  <2> QED BY <2>1
<1> QED BY <1>4

LEMMA Minimum == ASSUME NEW S \in SUBSET Nat, S # {} PROVE Min(S) \in S /\ \A x \in S : Min(S) <= x
<1>1. \E x \in S : \A y \in S : x <= y
  BY Least
<1> QED BY <1>1, Zenon DEF Min

LEMMA SectorNumbers == Sectors \in SUBSET Nat /\ 0 \notin Sectors
BY MfsUtilAssumption DEF Sectors, FS_BLOCK_SECTOR

LEMMA SlotNumbers == Slots \in SUBSET Nat /\ Slots = 0 .. MAX_FILES - 1
BY MfsUtilAssumption DEF Slots

LEMMA AllocFree ==
  ASSUME NEW m
  PROVE  alloc_block(m) \in Ptr /\ (alloc_block(m) # 0 => alloc_block(m) \in Sectors \ m.bitmap)
<1>1. CASE Sectors \ m.bitmap = {}
  BY <1>1 DEF alloc_block, Ptr
<1>2. CASE Sectors \ m.bitmap # {}
  <2>1. Sectors \ m.bitmap \in SUBSET Nat
    BY SectorNumbers
  <2>2. Min(Sectors \ m.bitmap) \in Sectors \ m.bitmap
    BY <1>2, <2>1, Minimum
  <2> QED BY <1>2, <2>2 DEF alloc_block, Ptr
<1> QED BY <1>1, <1>2

-----------------------------------------------------------------------------
(* Pointers: h are the first blocks of the entries, x the links of the     *)
(* sectors, marked the bitmap.                                             *)

Linked(h, x, marked) ==
  /\ h \in [Slots -> Ptr] /\ x \in [Sectors -> Ptr]
  /\ \A i \in Slots : h[i] # 0 => h[i] \in marked
  /\ \A b \in Sectors : x[b] # 0 => x[b] \in marked
  /\ \A i, j \in Slots : h[i] = h[j] /\ h[i] # 0 => i = j
  /\ \A b, c \in Sectors : x[b] = x[c] /\ x[b] # 0 => b = c
  /\ \A i \in Slots, b \in Sectors : h[i] = x[b] => h[i] = 0

\* A walk along the links.
Walks(w, x, first) ==
  /\ w[0] = first
  /\ \A k \in Nat : k # 0 => w[k] = IF w[k - 1] \in Sectors THEN x[w[k - 1]] ELSE 0

LEMMA WalkMarked ==
  ASSUME NEW h, NEW x, NEW marked, Linked(h, x, marked), NEW i \in Slots, NEW w, Walks(w, x, h[i]),
         NEW k \in Nat, w[k] \in Sectors
  PROVE  w[k] \in marked
<1>1. w[k] # 0
  BY SectorNumbers
<1>2. CASE k = 0
  BY <1>1, <1>2 DEF Linked, Walks
<1>3. CASE k # 0
  <2>1. w[k - 1] \in Sectors /\ w[k] = x[w[k - 1]]
    BY <1>1, <1>3 DEF Walks
  <2> QED BY <1>1, <2>1 DEF Linked
<1> QED BY <1>2, <1>3

LEMMA WalksApart ==
  ASSUME NEW h, NEW x, NEW marked, Linked(h, x, marked), NEW i \in Slots, NEW j \in Slots, i # j,
         NEW w, Walks(w, x, h[i]), NEW v, Walks(v, x, h[j])
  PROVE  \A k, l \in Nat : w[k] \in Sectors => w[k] # v[l]
<1> DEFINE T == {k \in Nat : \E l \in Nat : w[k] \in Sectors /\ w[k] = v[l]}
<1> SUFFICES ASSUME T # {} PROVE FALSE
  OBVIOUS
<1>1. PICK k \in T : \A y \in T : k <= y
  BY Least
<1>2. PICK l \in Nat : w[k] \in Sectors /\ w[k] = v[l]
  BY <1>1
<1>3. w[k] # 0 /\ k \in Nat
  BY <1>2, SectorNumbers
<1>4. k # 0 => w[k - 1] \in Sectors /\ w[k] = x[w[k - 1]] /\ k - 1 \in Nat /\ ~(k <= k - 1)
  BY <1>3 DEF Walks
<1>5. l # 0 => v[l - 1] \in Sectors /\ v[l] = x[v[l - 1]] /\ l - 1 \in Nat
  BY <1>2, <1>3 DEF Walks
<1>6. w[0] = h[i] /\ v[0] = h[j]
  BY DEF Walks
<1>7. CASE k = 0 /\ l = 0
  BY <1>2, <1>3, <1>6, <1>7 DEF Linked
<1>8. CASE k = 0 /\ l # 0
  BY <1>2, <1>3, <1>5, <1>6, <1>8 DEF Linked
<1>9. CASE k # 0 /\ l = 0
  BY <1>2, <1>3, <1>4, <1>6, <1>9 DEF Linked
<1>10. CASE k # 0 /\ l # 0
  <2>1. w[k - 1] = v[l - 1]
    BY <1>2, <1>3, <1>4, <1>5, <1>10 DEF Linked
  <2>2. k - 1 \in T
    BY <1>4, <1>5, <1>10, <2>1
  <2> QED BY <1>1, <1>4, <1>10, <2>2
<1> QED BY <1>7, <1>8, <1>9, <1>10

-----------------------------------------------------------------------------
(* `walk' of Chain is defined by recursion.  A function with that          *)
(* recursion exists: its beginnings do, by the least length without one,   *)
(* and they agree.                                                         *)

Onward(m, b) == IF b \in Sectors THEN m.data[b].next ELSE 0
Recursion(g, m, first) == [k \in Nat |-> IF k = 0 THEN first ELSE Onward(m, g[k - 1])]
Begins(g, n, m, first) == g[0] = first /\ \A k \in 1 .. n : g[k] = Onward(m, g[k - 1])

LEMMA BeginningsExist == ASSUME NEW m, NEW first PROVE \A n \in Nat : \E h : Begins(h, n, m, first)
<1> DEFINE T == {n \in Nat : ~\E h : Begins(h, n, m, first)}
<1> SUFFICES ASSUME T # {} PROVE FALSE
  OBVIOUS
<1>1. PICK n \in T : \A k \in T : n <= k
  BY Least
<1>2. n \in Nat /\ ~\E h : Begins(h, n, m, first)
  BY <1>1
<1>3. CASE n = 0
  <2> DEFINE h == [c \in {0} |-> first]
  <2>1. Begins(h, n, m, first)
    BY <1>3 DEF Begins
  <2> QED BY <1>2, <2>1
<1>4. CASE n # 0
  <2>1. n - 1 \in Nat
    BY <1>2, <1>4
  <2>2. PICK g : Begins(g, n - 1, m, first)
    BY <1>1, <1>4, <2>1
  <2> DEFINE h == [c \in 0 .. n |-> IF c = n THEN Onward(m, g[n - 1]) ELSE g[c]]
  <2>3. h[0] = first
    BY <1>2, <1>4, <2>2 DEF Begins
  <2>4. ASSUME NEW c \in 1 .. n PROVE h[c] = Onward(m, h[c - 1])
    <3>1. h[c - 1] = g[c - 1]
      BY <1>2
    <3>2. CASE c = n
      <4>1. h[n] = Onward(m, g[n - 1])
        BY <1>2
      <4> QED BY <3>1, <3>2, <4>1
    <3>3. CASE c # n
      <4>1. h[c] = g[c] /\ c \in 1 .. n - 1
        BY <1>2, <3>3
      <4>2. g[c] = Onward(m, g[c - 1])
        BY <2>2, <4>1 DEF Begins
      <4> QED BY <3>1, <4>1, <4>2
    <3> QED BY <3>2, <3>3
  <2> HIDE DEF h
  <2>5. Begins(h, n, m, first)
    BY <2>3, <2>4 DEF Begins
  <2> QED BY <1>2, <2>5
<1> QED BY <1>3, <1>4

LEMMA BeginningsAgree ==
  ASSUME NEW m, NEW first, NEW j \in Nat, NEW n \in Nat, NEW g, NEW h,
         Begins(g, j, m, first), Begins(h, n, m, first)
  PROVE  \A c \in Nat : c <= j /\ c <= n => g[c] = h[c]
<1> DEFINE T == {c \in Nat : c <= j /\ c <= n /\ g[c] # h[c]}
<1> SUFFICES ASSUME T # {} PROVE FALSE
  OBVIOUS
<1>1. PICK c \in T : \A y \in T : c <= y
  BY Least
<1>2. c # 0
  BY DEF Begins
<1>3. c \in 1 .. j /\ c \in 1 .. n /\ c - 1 \in Nat /\ c - 1 <= j /\ c - 1 <= n /\ ~(c <= c - 1)
  BY <1>2
<1>4. g[c - 1] = h[c - 1]
  BY <1>1, <1>3
<1>5. g[c] = Onward(m, g[c - 1]) /\ h[c] = Onward(m, h[c - 1])
  BY <1>3 DEF Begins
<1> QED BY <1>4, <1>5

LEMMA RecursionExists == ASSUME NEW m, NEW first PROVE \E g : g = Recursion(g, m, first)
<1> DEFINE H(n) == CHOOSE h : Begins(h, n, m, first)
           F == [n \in Nat |-> H(n)[n]]
<1>1. \A n \in Nat : Begins(H(n), n, m, first)
  BY BeginningsExist
<1> HIDE DEF H
<1>2. \A n \in Nat : F[n] = H(n)[n]
  OBVIOUS
<1>3. ASSUME NEW n \in Nat PROVE F[n] = IF n = 0 THEN first ELSE Onward(m, F[n - 1])
  <2>1. CASE n = 0
    BY <1>1, <1>2, <2>1 DEF Begins
  <2>2. CASE n # 0
    <3>1. n - 1 \in Nat /\ n \in 1 .. n /\ n - 1 <= n
      BY <2>2
    <3>2. H(n)[n] = Onward(m, H(n)[n - 1])
      BY <1>1, <3>1 DEF Begins
    <3>3. H(n)[n - 1] = H(n - 1)[n - 1]
      BY <1>1, <3>1, BeginningsAgree
    <3> QED BY <1>2, <2>2, <3>1, <3>2, <3>3
  <2> QED BY <2>1, <2>2
<1>4. F = Recursion(F, m, first)
  <2>1. F = [n \in Nat |-> F[n]]
    OBVIOUS
  <2> HIDE DEF F
  <2> QED BY <1>3, <2>1 DEF Recursion
<1> QED BY <1>4

\* A chain is the part of a walk that stays on the data sectors.
Nexts(m) == [b \in Sectors |-> m.data[b].next]

Shape(m, first, w, len) ==
  /\ Walks(w, Nexts(m), first)
  /\ Chain(m, first) = [k \in 1 .. len |-> w[k - 1]]
  /\ len \in Nat /\ \A k \in 1 .. len : k - 1 \in Nat /\ w[k - 1] \in Sectors
  /\ len < FS_MAX_SECTORS => w[len] \notin Sectors

LEMMA ChainShape == ASSUME NEW m, NEW first PROVE \E w, len : Shape(m, first, w, len)
<1> DEFINE walk == CHOOSE g : g = Recursion(g, m, first)
           long == {k \in 0 .. FS_MAX_SECTORS : walk[k] \notin Sectors}
           len == IF long = {} THEN FS_MAX_SECTORS ELSE Min(long)
<1>1. Chain(m, first) = [k \in 1 .. len |-> walk[k - 1]]
  BY DEF Chain, Recursion, Onward
<1>2. walk = Recursion(walk, m, first)
  BY RecursionExists, Zenon
<1> HIDE DEF walk
<1>3. \A k \in Nat : walk[k] = IF k = 0 THEN first ELSE Onward(m, walk[k - 1])
  BY <1>2 DEF Recursion
<1>4. Walks(walk, Nexts(m), first)
  BY <1>3 DEF Walks, Onward, Nexts
<1>5. /\ len \in Nat /\ \A k \in 1 .. len : k - 1 \in Nat /\ walk[k - 1] \in Sectors
      /\ len < FS_MAX_SECTORS => walk[len] \notin Sectors
  <2>1. FS_MAX_SECTORS \in Nat
    BY MfsUtilAssumption
  <2>2. CASE long = {}
    BY <2>1, <2>2
  <2>3. CASE long # {}
    <3>1. long \in SUBSET Nat
      BY <2>1
    <3>2. len \in long /\ \A x \in long : len <= x
      BY <2>3, <3>1, Minimum
    <3>3. len \in Nat /\ len <= FS_MAX_SECTORS /\ walk[len] \notin Sectors
      BY <2>1, <3>2
    <3> HIDE DEF len
    <3>4. ASSUME NEW k \in 1 .. len PROVE k - 1 \in Nat /\ walk[k - 1] \in Sectors
      <4>1. k - 1 \in 0 .. FS_MAX_SECTORS /\ ~(len <= k - 1)
        BY <2>1, <3>3
      <4> QED BY <3>2, <4>1
    <3> QED BY <3>3, <3>4
  <2> QED BY <2>2, <2>3
<1> HIDE DEF len
<1>6. Shape(m, first, walk, len)
  BY <1>1, <1>4, <1>5, Zenon DEF Shape
<1> QED BY <1>6

LEMMA ChainWalks ==
  ASSUME NEW m, NEW first
  PROVE  \E w : Walks(w, Nexts(m), first) /\ \A b \in Range(Chain(m, first)) : b \in Sectors /\ \E k \in Nat : b = w[k]
<1>1. PICK w, len : Shape(m, first, w, len)
  BY ChainShape
<1>2. ASSUME NEW b \in Range(Chain(m, first)) PROVE b \in Sectors /\ \E k \in Nat : b = w[k]
  <2>1. PICK k \in 1 .. len : b = w[k - 1]
    BY <1>1 DEF Range, Shape
  <2> QED BY <1>1, <2>1 DEF Shape
<1>3. Walks(w, Nexts(m), first)
  BY <1>1 DEF Shape
<1> QED BY <1>2, <1>3

-----------------------------------------------------------------------------
(* What the tool does to the pointers.                                     *)

\* Pointers are cleared, bits are set.
LEMMA LinkedErase ==
  ASSUME NEW h, NEW x, NEW marked, Linked(h, x, marked), NEW more, marked \subseteq more,
         NEW h2 \in [Slots -> Ptr], NEW x2 \in [Sectors -> Ptr],
         \A i \in Slots : h2[i] = 0 \/ h2[i] = h[i],
         \A b \in Sectors : x2[b] = 0 \/ x2[b] = x[b]
  PROVE  Linked(h2, x2, more)
BY DEF Linked

\* The sectors of list, free until now, are linked behind entry i.
Appended(h, x, marked, more, i, n, list, h2, x2) ==
  /\ marked \subseteq more
  /\ \A k \in 1 .. n : list[k] \in Sectors /\ list[k] \notin marked /\ list[k] \in more
  /\ \A k, l \in 1 .. n : list[k] = list[l] => k = l
  /\ h2 \in [Slots -> Ptr] /\ x2 \in [Sectors -> Ptr]
  /\ h2[i] = IF n = 0 THEN 0 ELSE list[1]
  /\ \A j \in Slots : j # i => h2[j] = h[j]
  /\ \A k \in 1 .. n : x2[list[k]] = IF k < n THEN list[k + 1] ELSE 0
  /\ \A b \in Sectors : (\A k \in 1 .. n : list[k] # b) => x2[b] = x[b]

LEMMA LinkedAppend ==
  ASSUME NEW h, NEW x, NEW marked, Linked(h, x, marked), NEW more, NEW i \in Slots, NEW n \in Nat, NEW list,
         NEW h2, NEW x2, Appended(h, x, marked, more, i, n, list, h2, x2)
  PROVE  Linked(h2, x2, more)
<1>0. /\ marked \subseteq more
      /\ \A k \in 1 .. n : list[k] \in Sectors /\ list[k] \notin marked /\ list[k] \in more
      /\ \A k, l \in 1 .. n : list[k] = list[l] => k = l
      /\ h2 \in [Slots -> Ptr] /\ x2 \in [Sectors -> Ptr]
      /\ h2[i] = IF n = 0 THEN 0 ELSE list[1]
      /\ \A j \in Slots : j # i => h2[j] = h[j]
      /\ \A k \in 1 .. n : x2[list[k]] = IF k < n THEN list[k + 1] ELSE 0
      /\ \A b \in Sectors : (\A k \in 1 .. n : list[k] # b) => x2[b] = x[b]
  BY DEF Appended
<1> USE <1>0
<1> DEFINE New(p) == \E k \in 1 .. n : p = list[k]
<1>1. \A j \in Slots : h[j] # 0 => h[j] \in marked
  BY DEF Linked
<1>2. \A b \in Sectors : x[b] # 0 => x[b] \in marked
  BY DEF Linked
<1>3. \A p : New(p) => p \in Sectors /\ p \notin marked /\ p \in more /\ p # 0
  BY SectorNumbers
<1>4. h2[i] = 0 \/ (n # 0 /\ 1 \in 1 .. n /\ h2[i] = list[1] /\ New(h2[i]))
  <2>1. n # 0 => 1 \in 1 .. n
    OBVIOUS
  <2> QED BY <2>1
<1>5. ASSUME NEW b \in Sectors
      PROVE  \/ x2[b] = 0
             \/ \E k \in 1 .. n : k + 1 \in 1 .. n /\ b = list[k] /\ x2[b] = list[k + 1]
             \/ x2[b] = x[b] /\ x2[b] \in marked
  <2>1. CASE \A k \in 1 .. n : list[k] # b
    BY <1>2, <2>1
  <2>2. CASE \E k \in 1 .. n : list[k] = b
    <3>1. PICK k \in 1 .. n : list[k] = b
      BY <2>2
    <3>2. CASE k < n
      <4>1. k + 1 \in 1 .. n
        BY <3>2
      <4> QED BY <3>1, <3>2, <4>1
    <3>3. CASE ~(k < n)
      BY <3>1, <3>3
    <3> QED BY <3>2, <3>3
  <2> QED BY <2>1, <2>2
<1>6. ASSUME NEW b \in Sectors, x2[b] # 0
      PROVE  x2[b] \in more /\ (x2[b] \in marked => x2[b] = x[b]) /\ (x2[b] \notin marked => New(x2[b]))
  BY <1>3, <1>5, <1>6
<1>7. \A j \in Slots : h2[j] # 0 => h2[j] \in more
  BY <1>1, <1>3, <1>4
<1>8. \A b \in Sectors : x2[b] # 0 => x2[b] \in more
  BY <1>6
<1>9. ASSUME NEW j \in Slots, NEW k \in Slots, h2[j] = h2[k], h2[j] # 0 PROVE j = k
  <2>1. CASE j # i /\ k # i
    BY <1>9, <2>1 DEF Linked
  <2>2. CASE j = i /\ k # i
    BY <1>1, <1>3, <1>4, <1>9, <2>2
  <2>3. CASE j # i /\ k = i
    BY <1>1, <1>3, <1>4, <1>9, <2>3
  <2> QED BY <2>1, <2>2, <2>3
<1>10. ASSUME NEW b \in Sectors, NEW c \in Sectors, x2[b] = x2[c], x2[b] # 0 PROVE b = c
  <2>1. CASE x2[b] \in marked
    <3>1. x2[b] = x[b] /\ x2[c] = x[c]
      BY <1>6, <1>10, <2>1
    <3>2. x[b] = x[c] /\ x[b] # 0
      BY <1>10, <3>1
    <3> QED BY <3>2 DEF Linked
  <2>2. CASE x2[b] \notin marked
    <3>1. PICK k \in 1 .. n : k + 1 \in 1 .. n /\ b = list[k] /\ x2[b] = list[k + 1]
      BY <1>5, <1>10, <2>2
    <3>2. PICK l \in 1 .. n : l + 1 \in 1 .. n /\ c = list[l] /\ x2[c] = list[l + 1]
      BY <1>5, <1>10, <2>2
    <3>3. k + 1 = l + 1
      BY <1>10, <3>1, <3>2
    <3>4. k = l
      BY <3>3
    <3> QED BY <3>1, <3>2, <3>4
  <2> QED BY <2>1, <2>2
<1>11. ASSUME NEW j \in Slots, NEW b \in Sectors, h2[j] = x2[b], h2[j] # 0 PROVE FALSE
  <2>1. CASE x2[b] \in marked
    <3>1. x2[b] = x[b]
      BY <1>6, <1>11, <2>1
    <3>2. j # i
      BY <1>3, <1>4, <1>11, <2>1
    <3>3. h[j] = x[b] /\ h[j] # 0
      BY <1>11, <3>1, <3>2
    <3> QED BY <3>3 DEF Linked
  <2>2. CASE x2[b] \notin marked
    <3>1. PICK k \in 1 .. n : k + 1 \in 1 .. n /\ b = list[k] /\ x2[b] = list[k + 1]
      BY <1>5, <1>11, <2>2
    <3>2. j = i
      BY <1>1, <1>11, <2>2
    <3>3. 1 \in 1 .. n /\ list[1] = list[k + 1]
      BY <1>4, <1>11, <3>1, <3>2
    <3>4. k + 1 = 1
      BY <3>1, <3>3
    <3> QED BY <3>4
  <2> QED BY <2>1, <2>2
<1> QED BY <1>7, <1>8, <1>9, <1>10, <1>11 DEF Linked

-----------------------------------------------------------------------------
(* Images                                                                  *)

\* What can be stored without going astray, or is left of a file that did not fit.
Files == {bytes \in Seq(Nat) : Len(bytes) <= BUF}

Payloads == {<<>>} \cup {SubSeq(c[1], c[2], c[3]) : c \in Files \X Int \X Int}
Sector == [next : Ptr, data : Payloads]
Entry == [used : BOOLEAN, name : Names \cup {NoName}, size : Nat, block : Ptr]
Image == [formatted : {TRUE}, filecount : Int, bitmap : SUBSET Nat,
          files : [Slots -> Entry], data : [Sectors -> Sector]]

Heads(m) == [i \in Slots |-> m.files[i].block]
Good(m) ==
  /\ m \in Image
  /\ Linked(Heads(m), Nexts(m), m.bitmap)
  /\ \A i \in Slots : ~m.files[i].used => m.files[i].name = NoName

\* The entries of m and of t have the same names.
SameNames(m, t) == \A i \in Slots : t.files[i].name = m.files[i].name /\ t.files[i].used = m.files[i].used

LEMMA Blanks == BlankSector \in Sector /\ BlankEntry \in Entry /\ 0 \in Ptr
BY DEF BlankSector, Sector, BlankEntry, Entry, Payloads, Ptr

LEMMA Counted == ASSUME NEW c \in Int PROVE (c + 1) % CountMod \in Int /\ (c - 1) % CountMod \in Int
BY MfsUtilAssumption

LEMMA Pointers == ASSUME NEW m \in Image PROVE Heads(m) \in [Slots -> Ptr] /\ Nexts(m) \in [Sectors -> Ptr]
BY DEF Heads, Nexts, Image, Entry, Sector

\* From m to t the file of entry i has been erased.
ErasedOnly(m, t, i) ==
  /\ t.files[i].size = 0
  /\ \A j \in Slots : j # i => t.files[j] = m.files[j]
  /\ \A b \in Sectors : b \notin Range(Chain(m, m.files[i].block)) => t.data[b] = m.data[b]

LEMMA GoodDelete ==
  ASSUME NEW m, Good(m), NEW i \in Slots
  PROVE  /\ Good(mfs_delete(m, i)) /\ SameNames(m, mfs_delete(m, i)) /\ mfs_delete(m, i).bitmap = m.bitmap
         /\ ErasedOnly(m, mfs_delete(m, i), i) /\ mfs_delete(m, i).filecount = (m.filecount - 1) % CountMod
<1> DEFINE t == mfs_delete(m, i)
           gone == Range(Chain(m, m.files[i].block))
           d == [b \in Sectors |-> IF b \in gone THEN BlankSector ELSE m.data[b]]
           e == [m.files[i] EXCEPT !.size = 0, !.block = 0]
           f == [m.files EXCEPT ![i] = e]
           c == (m.filecount - 1) % CountMod
<1>1. m \in Image /\ m.files[i] \in Entry
  BY DEF Good, Image
<1>2. t = [[[m EXCEPT !.data = d] EXCEPT !.files = f] EXCEPT !.filecount = c]
  <2> HIDE DEF gone
  <2> QED BY <1>1 DEF mfs_delete, Image, gone
<1>3. /\ d \in [Sectors -> Sector] /\ \A b \in Sectors : d[b].next = 0 \/ d[b].next = m.data[b].next
      /\ \A b \in Sectors : b \notin gone => d[b] = m.data[b]
  <2> HIDE DEF gone
  <2> QED BY <1>1, Blanks DEF Image, BlankSector
<1>4. e \in Entry /\ e.name = m.files[i].name /\ e.used = m.files[i].used /\ e.block = 0 /\ e.size = 0
  BY <1>1, Blanks DEF Entry
<1> HIDE DEF e, d
<1>5. /\ f \in [Slots -> Entry]
      /\ \A j \in Slots : f[j].name = m.files[j].name /\ f[j].used = m.files[j].used
      /\ \A j \in Slots : f[j].block = 0 \/ f[j].block = m.files[j].block
      /\ f[i].size = 0 /\ \A j \in Slots : j # i => f[j] = m.files[j]
  BY <1>1, <1>4 DEF Image
<1>6. c \in Int
  <2>1. m.filecount \in Int
    BY <1>1 DEF Image
  <2> QED BY <2>1, Counted
<1> HIDE DEF f, c
<1>7. t \in Image /\ t.files = f /\ t.data = d /\ t.bitmap = m.bitmap /\ t.filecount = c
  <2> HIDE DEF t
  <2> QED BY <1>1, <1>2, <1>3, <1>5, <1>6 DEF Image
<1> HIDE DEF t
<1>8. Linked(Heads(t), Nexts(t), m.bitmap)
  <2>1. \A j \in Slots : Heads(t)[j] = 0 \/ Heads(t)[j] = Heads(m)[j]
    BY <1>5, <1>7 DEF Heads
  <2>2. \A b \in Sectors : Nexts(t)[b] = 0 \/ Nexts(t)[b] = Nexts(m)[b]
    BY <1>3, <1>7 DEF Nexts
  <2> QED BY <1>7, <2>1, <2>2, Pointers, LinkedErase DEF Good
<1>9. SameNames(m, t)
  BY <1>5, <1>7 DEF SameNames
<1>10. \A j \in Slots : ~t.files[j].used => t.files[j].name = NoName
  BY <1>9 DEF Good, SameNames
<1>11. ErasedOnly(m, t, i)
  BY <1>3, <1>5, <1>7, Zenon DEF ErasedOnly
<1>12. Good(t)
  BY <1>7, <1>8, <1>10 DEF Good
<1> QED BY <1>7, <1>9, <1>11, <1>12 DEF t, c

LEMMA GoodCount ==
  ASSUME NEW m, Good(m), NEW c \in Int
  PROVE  /\ Good([m EXCEPT !.filecount = c]) /\ SameNames(m, [m EXCEPT !.filecount = c])
         /\ [m EXCEPT !.filecount = c].bitmap = m.bitmap
         /\ [m EXCEPT !.filecount = c].files = m.files /\ [m EXCEPT !.filecount = c].data = m.data
         /\ [m EXCEPT !.filecount = c].filecount = c
<1> DEFINE t == [m EXCEPT !.filecount = c]
<1>1. m \in Image
  BY DEF Good
<1>2. t \in Image /\ t.files = m.files /\ t.data = m.data /\ t.bitmap = m.bitmap /\ t.filecount = c
  BY <1>1 DEF Image
<1> HIDE DEF t
<1>3. Heads(t) = Heads(m) /\ Nexts(t) = Nexts(m) /\ SameNames(m, t)
  BY <1>2 DEF Heads, Nexts, SameNames
<1> QED BY <1>2, <1>3 DEF Good, t

-----------------------------------------------------------------------------
(* Allocation of n sectors, by recursion on n.                             *)

TakeOne(r) ==
  [m |-> IF alloc_block(r.m) = 0 THEN r.m ELSE Marked(r.m, alloc_block(r.m)),
   list |-> Append(r.list, alloc_block(r.m))]
Taking(g, m, n) == [k \in 0 .. n |-> IF k = 0 THEN [m |-> m, list |-> <<>>] ELSE TakeOne(g[k - 1])]

LEMMA TakingExists == ASSUME NEW m PROVE \A n \in Nat : \E g : g = Taking(g, m, n)
<1> DEFINE T == {n \in Nat : ~\E g : g = Taking(g, m, n)}
<1> SUFFICES ASSUME T # {} PROVE FALSE
  OBVIOUS
<1>1. PICK n \in T : \A k \in T : n <= k
  BY Least
<1>2. n \in Nat /\ ~\E g : g = Taking(g, m, n)
  BY <1>1
<1>3. CASE n = 0
  <2> DEFINE g == [k \in 0 .. 0 |-> [m |-> m, list |-> <<>>]]
  <2>1. g = Taking(g, m, n)
    BY <1>3 DEF Taking
  <2> QED BY <1>2, <2>1
<1>4. CASE n # 0
  <2>1. n - 1 \in Nat
    BY <1>2, <1>4
  <2>2. PICK g : g = Taking(g, m, n - 1)
    BY <1>1, <1>4, <2>1
  <2>3. \A k \in 0 .. n - 1 : g[k] = IF k = 0 THEN [m |-> m, list |-> <<>>] ELSE TakeOne(g[k - 1])
    BY <2>2 DEF Taking
  <2> DEFINE h == [k \in 0 .. n |-> IF k = n THEN TakeOne(g[n - 1]) ELSE g[k]]
  <2>4. ASSUME NEW k \in 0 .. n
        PROVE  h[k] = IF k = 0 THEN [m |-> m, list |-> <<>>] ELSE TakeOne(h[k - 1])
    <3>1. k # 0 => h[k - 1] = g[k - 1]
      BY <1>2
    <3>2. CASE k = n
      <4>1. h[n] = TakeOne(g[n - 1])
        BY <1>2
      <4> QED BY <1>4, <3>1, <3>2, <4>1
    <3>3. CASE k # n
      <4>1. h[k] = g[k] /\ k \in 0 .. n - 1
        BY <1>2, <3>3
      <4> QED BY <2>3, <3>1, <4>1
    <3> QED BY <3>2, <3>3
  <2>5. h = [k \in 0 .. n |-> h[k]]
    OBVIOUS
  <2> HIDE DEF h
  <2>6. h = Taking(h, m, n)
    BY <2>4, <2>5 DEF Taking
  <2> QED BY <1>2, <2>6
<1> QED BY <1>3, <1>4

\* r is what is left of m after k sectors have been taken, or 0 where there was none.
Taken(r, m, k) ==
  /\ r.m \in Image /\ r.m.files = m.files /\ r.m.data = m.data /\ r.m.filecount = m.filecount
  /\ m.bitmap \subseteq r.m.bitmap
  /\ r.list \in Seq(Ptr) /\ Len(r.list) = k
  /\ \A a \in 1 .. k : r.list[a] # 0 => r.list[a] \in Sectors \ m.bitmap /\ r.list[a] \in r.m.bitmap
  /\ \A a, b \in 1 .. k : r.list[a] = r.list[b] /\ r.list[a] # 0 => a = b

LEMMA TakeOneMore ==
  ASSUME NEW m, NEW r, NEW k \in Nat, Taken(r, m, k)
  PROVE  Taken(TakeOne(r), m, k + 1)
<1> DEFINE b == alloc_block(r.m)
           t == IF b = 0 THEN r.m ELSE Marked(r.m, b)
           list == Append(r.list, b)
<1>1. b \in Ptr /\ (b # 0 => b \in Sectors \ r.m.bitmap)
  BY AllocFree
<1>2. TakeOne(r).m = t /\ TakeOne(r).list = list
  BY DEF TakeOne
<1> HIDE DEF b
<1>3. /\ t \in Image /\ t.files = m.files /\ t.data = m.data /\ t.filecount = m.filecount
      /\ r.m.bitmap \subseteq t.bitmap /\ (b # 0 => b \in t.bitmap)
  <2>1. CASE b = 0
    BY <2>1 DEF Taken
  <2>2. CASE b # 0
    <3>1. t = [r.m EXCEPT !.bitmap = r.m.bitmap \cup {b}] /\ r.m \in Image
      BY <2>2 DEF Marked, Taken
    <3>2. r.m.bitmap \cup {b} \in SUBSET Nat
      BY <1>1, <2>2, <3>1, SectorNumbers DEF Image
    <3> HIDE DEF t
    <3>3. /\ t \in Image /\ t.files = r.m.files /\ t.data = r.m.data /\ t.filecount = r.m.filecount
          /\ t.bitmap = r.m.bitmap \cup {b}
      BY <3>1, <3>2 DEF Image
    <3> QED BY <3>3 DEF Taken
  <2> QED BY <2>1, <2>2
<1> HIDE DEF t
<1>4. /\ list \in Seq(Ptr) /\ Len(list) = k + 1 /\ list[k + 1] = b
      /\ \A a \in 1 .. k : list[a] = r.list[a]
  <2>1. r.list \in Seq(Ptr) /\ Len(r.list) = k
    BY DEF Taken
  <2> QED BY <1>1, <2>1
<1> HIDE DEF list
<1>5. \A a \in 1 .. k + 1 : a = k + 1 \/ a \in 1 .. k
  OBVIOUS
<1>6. ASSUME NEW a \in 1 .. k + 1, list[a] # 0
      PROVE  list[a] \in Sectors \ m.bitmap /\ list[a] \in t.bitmap
  BY <1>1, <1>3, <1>4, <1>5, <1>6 DEF Taken
<1>7. ASSUME NEW a \in 1 .. k + 1, NEW c \in 1 .. k + 1, list[a] = list[c], list[a] # 0 PROVE a = c
  <2>1. \A j \in 1 .. k : list[j] # 0 => list[j] # b
    BY <1>1, <1>4 DEF Taken
  <2>2. CASE a = k + 1 \/ c = k + 1
    BY <1>4, <1>5, <1>7, <2>1, <2>2
  <2>3. CASE a \in 1 .. k /\ c \in 1 .. k
    BY <1>4, <1>7, <2>3 DEF Taken
  <2> QED BY <1>5, <2>2, <2>3
<1>8. m.bitmap \subseteq t.bitmap
  BY <1>3 DEF Taken
<1> QED BY <1>2, <1>3, <1>4, <1>6, <1>7, <1>8 DEF Taken

LEMMA AllocateTakes == ASSUME NEW m \in Image, NEW n \in Nat PROVE Taken(Allocate(m, n), m, n)
<1> DEFINE got == CHOOSE g : g = Taking(g, m, n)
<1>1. Allocate(m, n) = got[n]
  BY DEF Allocate, Taking, TakeOne
<1>2. got = Taking(got, m, n)
  BY TakingExists, Zenon
<1> HIDE DEF got
<1>3. \A k \in 0 .. n : got[k] = IF k = 0 THEN [m |-> m, list |-> <<>>] ELSE TakeOne(got[k - 1])
  BY <1>2 DEF Taking
<1> DEFINE T == {k \in 0 .. n : ~Taken(got[k], m, k)}
<1>4. T = {}
  <2> SUFFICES ASSUME T # {} PROVE FALSE
    OBVIOUS
  <2>1. T \in SUBSET Nat
    OBVIOUS
  <2>2. PICK k \in T : \A y \in T : k <= y
    BY <2>1, Least
  <2>3. CASE k = 0
    <3>1. got[0] = [m |-> m, list |-> <<>>]
      BY <1>3
    <3>2. Taken([m |-> m, list |-> <<>>], m, 0)
      BY DEF Taken
    <3> QED BY <2>2, <2>3, <3>1, <3>2
  <2>4. CASE k # 0
    <3>1. k - 1 \in 0 .. n /\ k - 1 \in Nat /\ ~(k <= k - 1) /\ (k - 1) + 1 = k
      BY <2>4
    <3>2. Taken(got[k - 1], m, k - 1)
      BY <2>2, <3>1
    <3>3. Taken(TakeOne(got[k - 1]), m, k)
      BY <3>1, <3>2, TakeOneMore
    <3> QED BY <1>3, <2>2, <2>4, <3>3
  <2> QED BY <2>3, <2>4
<1> QED BY <1>1, <1>4

-----------------------------------------------------------------------------
(* The operations                                                          *)

LEMMA SectorsNeeded ==
  ASSUME NEW l \in Nat, NEW b \in Nat, l <= b * D
  PROVE  (l + D - 1) \div D \in Nat /\ (l + D - 1) \div D <= b /\ (l = 0 => (l + D - 1) \div D = 0)
<1> DEFINE q == (l + D - 1) \div D
<1>1. D \in Nat /\ D > 0 /\ l + D - 1 \in Nat
  BY MfsUtilAssumption
<1>2. q \in Nat /\ q * D <= l + D - 1
  BY <1>1
<1>3. l = 0 => q = 0
  BY <1>1
<1> HIDE DEF q
<1>4. q <= b
  <2> SUFFICES ASSUME q > b PROVE FALSE
    BY <1>2
  <2>1. q - (b + 1) \in Nat
    BY <1>2
  <2>2. (q - (b + 1)) * D >= 0 /\ (q - (b + 1)) * D = q * D - b * D - D
    BY <1>1, <1>2, <2>1
  <2>3. q * D \in Nat /\ b * D \in Nat
    BY <1>1, <1>2
  <2> QED BY <1>1, <1>2, <2>2, <2>3
<1> QED BY <1>2, <1>3, <1>4 DEF q

\* Up to the size of the buffer neither the int16_t nor the uint8_t loses anything.
LEMMA SectorsCounted ==
  ASSUME NEW bytes \in Files
  PROVE  /\ bytes \in Seq(Nat) /\ Len(bytes) \in Nat /\ Len(bytes) <= BUF
         /\ SectorsFor(bytes) = (Len(bytes) + D - 1) \div D
         /\ SectorsFor(bytes) \in Nat
<1> DEFINE l == Len(bytes)
           q == (l + D - 1) \div D
<1>1. bytes \in Seq(Nat) /\ l \in Nat /\ l <= BUF
  BY DEF Files
<1>2. BUF \in Nat /\ SizeMod \in Nat /\ 2 * BUF < SizeMod /\ BLOCK_SECTORS \in Nat /\ CountMod \in Nat
      /\ BLOCK_SECTORS < CountMod /\ BUF <= BLOCK_SECTORS * D /\ D \in Nat
  BY MfsUtilAssumption
<1> HIDE DEF l
<1>3. BLOCK_SECTORS * D \in Nat
  BY <1>2
<1>4. l <= BLOCK_SECTORS * D
  <2> DEFINE P == BLOCK_SECTORS * D
  <2>1. P \in Nat /\ BUF <= P
    BY <1>2, <1>3
  <2> HIDE DEF P
  <2>2. l <= P
    BY <1>1, <1>2, <2>1
  <2> QED BY <2>2 DEF P
<1>5. q \in Nat /\ q <= BLOCK_SECTORS /\ (l = 0 => q = 0)
  BY <1>1, <1>2, <1>4, SectorsNeeded
<1>6. SectorsFor(bytes) = IF l <= 0 THEN 0 ELSE q % CountMod
  <2>1. 2 * l < SizeMod
    BY <1>1, <1>2
  <2> QED BY <2>1 DEF SectorsFor, l
<1> HIDE DEF q
<1>7. SectorsFor(bytes) = q
  <2>1. q % CountMod = q
    BY <1>2, <1>5
  <2> QED BY <1>1, <1>5, <1>6, <2>1
<1> QED BY <1>1, <1>5, <1>7 DEF q, l

\* What is kept of a host file that does not lead astray.
LEMMA KeptFile ==
  ASSUME NEW bytes \in Contents, NEW m, NEW i, ~Astray(m, i, bytes)
  PROVE  Kept(bytes) \in Files /\ SectorsFor(Kept(bytes)) # 0 /\ ~Overrun(m, i, bytes)
<1>1. bytes \in Seq(Nat) /\ SizeMod \in Nat /\ BUF \in Nat /\ 2 * BUF < SizeMod
  BY MfsUtilAssumption
<1> DEFINE c == Len(bytes) % SizeMod
<1>2. Len(bytes) \in Nat
  BY <1>1
<1>3. c \in 0 .. Len(bytes)
  <2>1. SizeMod > 0
    BY <1>1
  <2> QED BY <1>1, <1>2, <2>1
<1> HIDE DEF c
<1>4. SubSeq(bytes, 1, c) \in Seq(Nat) /\ Len(SubSeq(bytes, 1, c)) \in Nat
  BY <1>1, <1>2, <1>3
<1>5. Kept(bytes) = SubSeq(bytes, 1, c)
  BY DEF Kept, c
<1>6. ~Overrun(m, i, bytes) /\ SectorsFor(Kept(bytes)) # 0
  BY DEF Astray
<1>7. Len(Kept(bytes)) <= BUF
  BY <1>1, <1>4, <1>5, <1>6 DEF Overrun
<1> QED BY <1>4, <1>5, <1>6, <1>7 DEF Files

\* The sectors of list hold bytes and are linked behind entry i.
Chained(m, i, list, bytes) ==
  /\ m.files[i].size = Len(bytes)
  /\ SectorsFor(bytes) # 0 => m.files[i].block = list[1]
  /\ \A k \in 1 .. SectorsFor(bytes) : list[k] \in Sectors /\ m.data[list[k]].data = Part(bytes, k)
  /\ \A k \in 1 .. SectorsFor(bytes) : k < SectorsFor(bytes) => m.data[list[k]].next = list[k + 1]
  /\ \A k, l \in 1 .. SectorsFor(bytes) : list[k] = list[l] => k = l

\* From m to t only entry i and the n sectors of list, free in m, have changed.
ChangedOnly(m, t, i, list, n) ==
  /\ \A k \in 1 .. n : list[k] \notin m.bitmap
  /\ \A j \in Slots : j # i => t.files[j] = m.files[j]
  /\ \A b \in Sectors : (\A k \in 1 .. n : list[k] # b) => t.data[b] = m.data[b]

LEMMA GoodErased ==
  ASSUME NEW m, Good(m), NEW i \in Slots
  PROVE  /\ Good(Erased(m, i)) /\ SameNames(m, Erased(m, i)) /\ Erased(m, i).bitmap = m.bitmap
         /\ ErasedOnly(m, Erased(m, i), i)
         /\ Erased(m, i).filecount = (((m.filecount - 1) % CountMod) + 1) % CountMod
<1> DEFINE gone == mfs_delete(m, i)
           erased == [gone EXCEPT !.filecount = (@ + 1) % CountMod]
<1>1. /\ Good(gone) /\ SameNames(m, gone) /\ gone.bitmap = m.bitmap /\ ErasedOnly(m, gone, i)
      /\ gone.filecount = (m.filecount - 1) % CountMod
  BY GoodDelete
<1> HIDE DEF gone
<1>2. gone.filecount \in Int
  BY <1>1 DEF Good, Image
<1>3. (gone.filecount + 1) % CountMod \in Int
  BY <1>2, Counted
<1>4. /\ Good(erased) /\ SameNames(gone, erased) /\ erased.bitmap = gone.bitmap
      /\ erased.files = gone.files /\ erased.data = gone.data
      /\ erased.filecount = (gone.filecount + 1) % CountMod
  BY <1>1, <1>3, GoodCount
<1>5. erased = Erased(m, i)
  BY DEF Erased, gone
<1> HIDE DEF erased
<1>6. ErasedOnly(m, erased, i)
  BY <1>1, <1>4, Zenon DEF ErasedOnly
<1>7. SameNames(m, erased)
  BY <1>1, <1>4 DEF SameNames
<1>8. erased.filecount = (((m.filecount - 1) % CountMod) + 1) % CountMod /\ erased.bitmap = m.bitmap
  BY <1>1, <1>4
<1> QED BY <1>4, <1>5, <1>6, <1>7, <1>8, Zenon

LEMMA GoodSave ==
  ASSUME NEW m, Good(m), NEW i \in Slots, NEW bytes \in Files
  PROVE  /\ Good(save_to_disk(m, i, bytes, 0)) /\ SameNames(m, save_to_disk(m, i, bytes, 0))
         /\ save_to_disk(m, i, bytes, 0).filecount = Erased(m, i).filecount
         /\ OutOfSpace(m, i, bytes) =>
              /\ save_to_disk(m, i, bytes, 0).files = Erased(m, i).files
              /\ save_to_disk(m, i, bytes, 0).data = Erased(m, i).data
         /\ ~OutOfSpace(m, i, bytes) => \E list :
              /\ Chained(save_to_disk(m, i, bytes, 0), i, list, bytes)
              /\ ChangedOnly(Erased(m, i), save_to_disk(m, i, bytes, 0), i, list, SectorsFor(bytes))
<1> DEFINE erased == Erased(m, i)
           n == SectorsFor(bytes)
           new == Allocate(erased, n)
           list == new.list
           P(k) == Part(bytes, k)
           Link(k) == IF k < n THEN list[k + 1] ELSE 0
           At(b) == CHOOSE k \in 1 .. n : list[k] = b
           d == [b \in Sectors |-> IF b \in Range(list) THEN [next |-> Link(At(b)), data |-> P(At(b))]
                                   ELSE new.m.data[b]]
           e == [m.files[i] EXCEPT !.size = Len(bytes), !.block = IF n = 0 THEN 0 ELSE list[1]]
           f == [new.m.files EXCEPT ![i] = e]
           t == save_to_disk(m, i, bytes, 0)
<1>1. Len(bytes) \in Nat /\ n \in Nat /\ D \in Nat /\ m \in Image /\ m.files[i] \in Entry
  BY MfsUtilAssumption, SectorsCounted DEF Good, Image
<1>2. Good(erased) /\ SameNames(m, erased)
  BY GoodErased
<1>3. t = IF 0 \in Range(list) THEN new.m
          ELSE [[new.m EXCEPT !.data = d] EXCEPT !.files = [[new.m EXCEPT !.data = d].files EXCEPT ![i] = e]]
  BY DEF save_to_disk
<1>e. OutOfSpace(m, i, bytes) <=> 0 \in Range(list)
  BY DEF OutOfSpace
<1> HIDE DEF n, erased
<1>4. Taken(new, erased, n) /\ erased \in Image
  BY <1>1, <1>2, AllocateTakes DEF Good
<1> HIDE DEF new, t
<1>5. /\ new.m \in Image /\ new.m.files = erased.files /\ new.m.data = erased.data
      /\ new.m.filecount = erased.filecount
      /\ erased.bitmap \subseteq new.m.bitmap /\ list \in Seq(Ptr) /\ Len(list) = n
  BY <1>4 DEF Taken
<1>6. Range(list) = {list[k] : k \in 1 .. n} /\ \A k \in 1 .. n : list[k] \in Ptr
  BY <1>1, <1>5 DEF Range
<1>7. CASE 0 \in Range(list)
  <2>1. t = new.m
    BY <1>3, <1>7
  <2>2. Heads(t) = Heads(erased) /\ Nexts(t) = Nexts(erased) /\ SameNames(m, t)
    BY <1>2, <1>5, <2>1 DEF Heads, Nexts, SameNames
  <2>3. Linked(Heads(t), Nexts(t), t.bitmap)
    BY <1>2, <1>5, <2>1, <2>2, Pointers, LinkedErase DEF Good
  <2>4. \A j \in Slots : ~t.files[j].used => t.files[j].name = NoName
    BY <2>2 DEF SameNames, Good
  <2>5. t \in Image
    BY <1>5, <2>1
  <2>6. t.files = erased.files /\ t.data = erased.data /\ t.filecount = erased.filecount
    BY <1>5, <2>1
  <2> QED BY <1>7, <1>e, <2>2, <2>3, <2>4, <2>5, <2>6, Zenon DEF Good, t, erased
<1>8. CASE 0 \notin Range(list)
  <2>1. \A k \in 1 .. n : list[k] \in Sectors /\ list[k] \notin erased.bitmap /\ list[k] \in new.m.bitmap
    <3>1. \A k \in 1 .. n : list[k] # 0
      BY <1>6, <1>8
    <3> QED BY <1>4, <3>1 DEF Taken
  <2>2. \A k, l \in 1 .. n : list[k] = list[l] => k = l
    <3>1. \A k \in 1 .. n : list[k] # 0
      BY <1>6, <1>8
    <3> QED BY <1>4, <3>1 DEF Taken
  <2> HIDE DEF list
  <2>3. \A k \in 1 .. n : At(list[k]) = k
    BY <2>2
  <2>4. \A b \in Range(list) : At(b) \in 1 .. n
    BY <1>6, <2>3
  <2>5. \A k \in 1 .. n : Link(k) \in Ptr
    <3> SUFFICES ASSUME NEW k \in 1 .. n PROVE Link(k) \in Ptr
      OBVIOUS
    <3>1. k < n => k + 1 \in 1 .. n
      BY <1>1
    <3> QED BY <1>6, <3>1, Blanks
  <2>6. \A k \in 1 .. n : P(k) \in Payloads
    <3> SUFFICES ASSUME NEW k \in 1 .. n PROVE P(k) \in Payloads
      OBVIOUS
    <3> DEFINE a == (k - 1) * D + 1
               z == IF k * D < Len(bytes) THEN k * D ELSE Len(bytes)
    <3>1. (k - 1) * D \in Int /\ k * D \in Int
      BY <1>1
    <3>2. a \in Int /\ z \in Int
      BY <1>1, <3>1
    <3> HIDE DEF a, z
    <3> DEFINE c == <<bytes, a, z>>
    <3>3. c \in Files \X Int \X Int /\ SubSeq(c[1], c[2], c[3]) = SubSeq(bytes, a, z)
      BY <3>2
    <3> HIDE DEF c
    <3>4. SubSeq(bytes, a, z) \in Payloads
      BY <3>3, Zenon DEF Payloads
    <3> QED BY <3>4 DEF a, z, Part
  <2> HIDE DEF At, Link, P
  <2>7. d \in [Sectors -> Sector]
    <3>1. \A b \in Range(list) : [next |-> Link(At(b)), data |-> P(At(b))] \in Sector
      BY <2>4, <2>5, <2>6 DEF Sector
    <3> QED BY <1>5, <3>1 DEF Image
  <2>8. /\ \A k \in 1 .. n : d[list[k]].next = Link(k) /\ d[list[k]].data = P(k)
        /\ \A b \in Sectors : (\A k \in 1 .. n : list[k] # b) => d[b] = erased.data[b]
    <3>1. \A b \in Sectors : d[b] = IF b \in Range(list) THEN [next |-> Link(At(b)), data |-> P(At(b))] ELSE erased.data[b]
      BY <1>5
    <3> HIDE DEF d
    <3>2. ASSUME NEW k \in 1 .. n PROVE d[list[k]].next = Link(k) /\ d[list[k]].data = P(k)
      <4>1. list[k] \in Range(list) /\ list[k] \in Sectors
        BY <1>6, <2>1
      <4>2. d[list[k]] = [next |-> Link(k), data |-> P(k)]
        BY <2>3, <3>1, <4>1
      <4> QED BY <4>2
    <3>3. ASSUME NEW b \in Sectors, \A k \in 1 .. n : list[k] # b PROVE d[b] = erased.data[b]
      BY <1>6, <3>1, <3>3
    <3> QED BY <3>2, <3>3
  <2> HIDE DEF d
  <2>9. /\ e \in Entry /\ e.name = m.files[i].name /\ e.used = m.files[i].used
       /\ e.size = Len(bytes) /\ e.block = IF n = 0 THEN 0 ELSE list[1]
    <3>1. (IF n = 0 THEN 0 ELSE list[1]) \in Ptr
      <4>1. n # 0 => 1 \in 1 .. n
        BY <1>1
      <4> QED BY <1>6, <4>1, Blanks
    <3> QED BY <1>1, <3>1 DEF Entry
  <2> HIDE DEF e
  <2>10. /\ f \in [Slots -> Entry] /\ f[i] = e
         /\ \A j \in Slots : j # i => f[j] = erased.files[j]
    BY <1>5, <2>9 DEF Image
  <2> HIDE DEF f
  <2>11. t = [[new.m EXCEPT !.data = d] EXCEPT !.files = f]
    <3>1. [new.m EXCEPT !.data = d].files = new.m.files
      BY <1>5 DEF Image
    <3> QED BY <1>3, <1>8, <3>1 DEF f, list
  <2>12. t \in Image /\ t.files = f /\ t.data = d /\ t.bitmap = new.m.bitmap /\ t.filecount = erased.filecount
    BY <1>5, <2>7, <2>10, <2>11 DEF Image
  <2>13. SameNames(m, t)
    BY <1>2, <2>9, <2>10, <2>12 DEF SameNames
  <2>14. \A j \in Slots : ~t.files[j].used => t.files[j].name = NoName
    BY <2>13 DEF SameNames, Good
  <2>15. Linked(Heads(t), Nexts(t), t.bitmap)
    <3>1. Heads(t)[i] = (IF n = 0 THEN 0 ELSE list[1]) /\ \A j \in Slots : j # i => Heads(t)[j] = Heads(erased)[j]
      BY <2>9, <2>10, <2>12 DEF Heads
    <3>2. \A k \in 1 .. n : Nexts(t)[list[k]] = IF k < n THEN list[k + 1] ELSE 0
      BY <2>1, <2>8, <2>12 DEF Nexts, Link
    <3>3. \A b \in Sectors : (\A k \in 1 .. n : list[k] # b) => Nexts(t)[b] = Nexts(erased)[b]
      BY <2>8, <2>12 DEF Nexts
    <3>4. Heads(t) \in [Slots -> Ptr] /\ Nexts(t) \in [Sectors -> Ptr]
      BY <2>12, Pointers
    <3>5. Linked(Heads(erased), Nexts(erased), erased.bitmap) /\ erased.bitmap \subseteq t.bitmap
      BY <1>2, <1>5, <2>12 DEF Good
    <3>6. \A k \in 1 .. n : list[k] \in Sectors /\ list[k] \notin erased.bitmap /\ list[k] \in t.bitmap
      BY <2>1, <2>12
    <3>7. n \in Nat
      BY <1>1
    <3>8. Appended(Heads(erased), Nexts(erased), erased.bitmap, t.bitmap, i, n, list, Heads(t), Nexts(t))
      BY <2>2, <3>1, <3>2, <3>3, <3>4, <3>5, <3>6, Zenon DEF Appended
    <3> QED BY <3>5, <3>7, <3>8, LinkedAppend, Zenon
  <2>16. Chained(t, i, list, bytes)
    <3>1. t.files[i].size = Len(bytes) /\ (n # 0 => t.files[i].block = list[1])
      BY <2>9, <2>10, <2>12
    <3>2. \A k \in 1 .. n : list[k] \in Sectors /\ t.data[list[k]].data = Part(bytes, k)
      BY <2>1, <2>8, <2>12 DEF P
    <3>3. \A k \in 1 .. n : k < n => t.data[list[k]].next = list[k + 1]
      BY <2>8, <2>12 DEF Link
    <3> QED BY <2>2, <3>1, <3>2, <3>3, Zenon DEF Chained, n
  <2>17. ChangedOnly(erased, t, i, list, n)
    <3>1. \A j \in Slots : j # i => t.files[j] = erased.files[j]
      BY <2>10, <2>12
    <3>2. \A b \in Sectors : (\A k \in 1 .. n : list[k] # b) => t.data[b] = erased.data[b]
      BY <2>8, <2>12
    <3> QED BY <2>1, <3>1, <3>2, Zenon DEF ChangedOnly
  <2>18. Good(t) /\ t.filecount = erased.filecount
    BY <2>12, <2>14, <2>15, Zenon DEF Good
  <2> HIDE DEF list
  <2> QED BY <1>8, <1>e, <2>13, <2>16, <2>17, <2>18, Zenon DEF t, erased, n
<1> QED BY <1>7, <1>8 DEF t

\* From m to t entry i has been created under the name.
Created(m, t, name, i) ==
  /\ t.files[i].name = name /\ t.files[i].used
  /\ \A j \in Slots : j # i => t.files[j] = m.files[j]
  /\ \A a \in Sectors : a \in m.bitmap => t.data[a] = m.data[a]
  /\ t.filecount = (m.filecount + 1) % CountMod

LEMMA GoodCreate ==
  ASSUME NEW m, Good(m), NEW name \in Names, NEW i \in Slots, alloc_block(m) # 0
  PROVE  Good(create(m, name, i)) /\ Created(m, create(m, name, i), name, i)
<1> DEFINE b == alloc_block(m)
           e == [used |-> TRUE, name |-> name, size |-> 0, block |-> b]
           d == [m.data EXCEPT ![b] = BlankSector]
           f == [m.files EXCEPT ![i] = e]
           c == (m.filecount + 1) % CountMod
           t == create(m, name, i)
<1>1. m \in Image /\ b \in Sectors /\ b \notin m.bitmap
  BY AllocFree DEF Good
<1>2. t = [[[[m EXCEPT !.bitmap = m.bitmap \cup {b}] EXCEPT !.data = d] EXCEPT !.filecount = c] EXCEPT !.files = f]
  <2> HIDE DEF b
  <2> QED BY <1>1 DEF create, Marked, Image, b
<1> HIDE DEF b
<1>3. e \in Entry /\ e.block = b /\ e.name = name /\ e.used = TRUE
  BY <1>1 DEF Entry, Ptr
<1> HIDE DEF e
<1>4. d \in [Sectors -> Sector] /\ d[b].next = 0 /\ \A a \in Sectors : a # b => d[a] = m.data[a]
  BY <1>1, Blanks DEF Image, BlankSector
<1>5. f \in [Slots -> Entry] /\ f[i] = e /\ \A j \in Slots : j # i => f[j] = m.files[j]
  BY <1>1, <1>3 DEF Image
<1>6. c \in Int /\ m.bitmap \cup {b} \in SUBSET Nat
  <2>1. m.filecount \in Int /\ m.bitmap \in SUBSET Nat
    BY <1>1 DEF Image
  <2> QED BY <1>1, <2>1, Counted, SectorNumbers
<1> HIDE DEF d, f, c, t
<1>7. t \in Image /\ t.files = f /\ t.data = d /\ t.bitmap = m.bitmap \cup {b} /\ t.filecount = c
  BY <1>1, <1>2, <1>4, <1>5, <1>6 DEF Image
<1>8. Linked(Heads(t), Nexts(t), t.bitmap)
  <2> DEFINE list == [k \in 1 .. 1 |-> b]
  <2>1. 1 \in Nat /\ \A k \in 1 .. 1 : k = 1 /\ list[k] = b
    OBVIOUS
  <2> HIDE DEF list
  <2>2. \A k \in 1 .. 1 : list[k] \in Sectors /\ list[k] \notin m.bitmap /\ list[k] \in t.bitmap
    BY <1>1, <1>7, <2>1
  <2>3. Heads(t)[i] = (IF 1 = 0 THEN 0 ELSE list[1]) /\ \A j \in Slots : j # i => Heads(t)[j] = Heads(m)[j]
    BY <1>3, <1>5, <1>7, <2>1 DEF Heads
  <2>4. \A k \in 1 .. 1 : Nexts(t)[list[k]] = IF k < 1 THEN list[k + 1] ELSE 0
    BY <1>1, <1>4, <1>7, <2>1 DEF Nexts
  <2>5. \A a \in Sectors : (\A k \in 1 .. 1 : list[k] # a) => Nexts(t)[a] = Nexts(m)[a]
    BY <1>4, <1>7, <2>1 DEF Nexts
  <2>6. Linked(Heads(m), Nexts(m), m.bitmap) /\ m.bitmap \subseteq t.bitmap
    BY <1>7 DEF Good
  <2>7. \A k, l \in 1 .. 1 : list[k] = list[l] => k = l
    BY <2>1
  <2>8. 1 \in Nat /\ Heads(t) \in [Slots -> Ptr] /\ Nexts(t) \in [Sectors -> Ptr]
    BY <1>7, Pointers
  <2>9. Appended(Heads(m), Nexts(m), m.bitmap, t.bitmap, i, 1, list, Heads(t), Nexts(t))
    BY <2>2, <2>3, <2>4, <2>5, <2>6, <2>7, <2>8, Zenon DEF Appended
  <2> QED BY <2>6, <2>8, <2>9, LinkedAppend, Zenon
<1>9. \A j \in Slots : ~t.files[j].used => t.files[j].name = NoName
  BY <1>3, <1>5, <1>7 DEF Good
<1>10. t.files[i].name = name /\ t.files[i].used /\ \A j \in Slots : j # i => t.files[j] = m.files[j]
  BY <1>3, <1>5, <1>7
<1>11. \A a \in Sectors : a \in m.bitmap => t.data[a] = m.data[a]
  BY <1>1, <1>4, <1>7
<1>12. Good(t) /\ t.filecount = (m.filecount + 1) % CountMod
  BY <1>7, <1>8, <1>9, Zenon DEF Good, c
<1> QED BY <1>10, <1>11, <1>12, Zenon DEF Created, t

-----------------------------------------------------------------------------
(* What the entries hold.                                                  *)

Holds(m, i, bytes) == \E list : Chained(m, i, list, bytes)

LEMMA ChainedKept ==
  ASSUME NEW m, NEW t, NEW j, NEW list, NEW bytes, Chained(m, j, list, bytes), t.files[j] = m.files[j],
         \A k \in 1 .. SectorsFor(bytes) : t.data[list[k]] = m.data[list[k]]
  PROVE  Chained(t, j, list, bytes)
BY Zenon DEF Chained

\* The walk from an entry goes along the list of its sectors.
LEMMA FollowsList ==
  ASSUME NEW m, NEW i, NEW list, NEW bytes, SectorsFor(bytes) \in Nat, Chained(m, i, list, bytes),
         NEW w, Walks(w, Nexts(m), m.files[i].block)
  PROVE  \A k \in 1 .. SectorsFor(bytes) : w[k - 1] = list[k]
<1> DEFINE n == SectorsFor(bytes)
           T == {k \in 1 .. n : w[k - 1] # list[k]}
<1> SUFFICES ASSUME T # {} PROVE FALSE
  OBVIOUS
<1>0. n \in Nat /\ T \in SUBSET Nat
  OBVIOUS
<1>1. PICK k \in T : \A y \in T : k <= y
  BY <1>0, Least
<1>2. k \in 1 .. n /\ w[k - 1] # list[k]
  BY <1>1
<1>3. /\ n # 0 => m.files[i].block = list[1]
      /\ \A l \in 1 .. n : list[l] \in Sectors
      /\ \A l \in 1 .. n : l < n => m.data[list[l]].next = list[l + 1]
  BY Zenon DEF Chained
<1>4. w[0] = m.files[i].block /\ \A l \in Nat : l # 0 => w[l] = IF w[l - 1] \in Sectors THEN Nexts(m)[w[l - 1]] ELSE 0
  BY DEF Walks
<1> HIDE DEF n
<1>5. CASE k = 1
  BY <1>0, <1>2, <1>3, <1>4, <1>5
<1>6. CASE k # 1
  <2>1. k - 1 \in 1 .. n /\ k - 1 \in Nat /\ k - 1 # 0 /\ ~(k <= k - 1) /\ k - 1 < n /\ (k - 1) + 1 = k
    BY <1>0, <1>2, <1>6
  <2>2. w[(k - 1) - 1] = list[k - 1]
    BY <1>1, <2>1
  <2>3. list[k - 1] \in Sectors /\ m.data[list[k - 1]].next = list[k]
    BY <1>3, <2>1
  <2>4. w[k - 1] = Nexts(m)[list[k - 1]]
    BY <1>4, <2>1, <2>2, <2>3
  <2>5. Nexts(m)[list[k - 1]] = list[k]
    BY <2>3 DEF Nexts
  <2> QED BY <1>2, <2>4, <2>5
<1> QED BY <1>5, <1>6

\* A list of different sectors is no longer than the disk.
LEMMA ListFits ==
  ASSUME NEW n \in Nat, NEW list, \A k \in 1 .. n : list[k] \in Sectors,
         \A k, l \in 1 .. n : list[k] = list[l] => k = l
  PROVE  n <= FS_MAX_SECTORS
<1> SUFFICES ASSUME FS_MAX_SECTORS < n PROVE FALSE
  BY MfsUtilAssumption
<1> DEFINE f == [k \in 1 .. n |-> list[k]]
           S == 1 .. n
           T == 0 .. FS_MAX_SECTORS - 1
<1>1. FS_MAX_SECTORS \in Nat
  BY MfsUtilAssumption
<1>2. f \in [S -> T]
  BY <1>1 DEF Sectors, FS_BLOCK_SECTOR
<1>3. IsFiniteSet(S) /\ Cardinality(S) = n
  <2>1. IsFiniteSet(S) /\ Cardinality(S) = IF 1 > n THEN 0 ELSE n - 1 + 1
    BY FS_Interval
  <2> HIDE DEF S
  <2> QED BY <2>1
<1>4. IsFiniteSet(T) /\ Cardinality(T) = FS_MAX_SECTORS
  <2>1. IsFiniteSet(T) /\ Cardinality(T) = IF 0 > FS_MAX_SECTORS - 1 THEN 0 ELSE FS_MAX_SECTORS - 1 - 0 + 1
    BY <1>1, FS_Interval
  <2> HIDE DEF T
  <2> QED BY <1>1, <2>1
<1>5. \A k \in S : f[k] = list[k]
  OBVIOUS
<1> HIDE DEF f, T
<1>6. \E x, y \in S : x # y /\ f[x] = f[y]
  <2> HIDE DEF S
  <2> QED BY <1>1, <1>2, <1>3, <1>4, FS_PigeonHole
<1> QED BY <1>5, <1>6

LEMMA Division ==
  ASSUME NEW a \in Nat
  PROVE  /\ a \div D \in Nat /\ a % D \in Nat /\ a % D < D /\ (a \div D) * D + (a % D) = a
<1>1. D \in Nat /\ D > 0
  BY MfsUtilAssumption
<1> QED BY <1>1

LEMMA Times == ASSUME NEW a \in Nat, NEW b \in Nat, a <= b PROVE a * D <= b * D /\ a * D \in Nat /\ b * D \in Nat
<1>1. D \in Nat /\ D > 0 /\ b - a \in Nat
  BY MfsUtilAssumption
<1>2. (b - a) * D >= 0 /\ (b - a) * D = b * D - a * D /\ a * D \in Nat /\ b * D \in Nat
  BY <1>1
<1> QED BY <1>2

\* Byte q of a file is in its sector (q - 1) \div D + 1, at place (q - 1) % D + 1.
LEMMA BytePlace ==
  ASSUME NEW l \in Nat, NEW n \in Nat, n = (l + D - 1) \div D, NEW q \in 1 .. l
  PROVE  /\ l <= n * D /\ n * D \in Nat
         /\ ((q - 1) \div D) + 1 \in 1 .. n /\ (((q - 1) \div D) + 1) * D = ((q - 1) \div D) * D + D
         /\ (q - 1) % D \in Nat /\ (q - 1) % D < D /\ ((q - 1) \div D) * D \in Nat
         /\ ((q - 1) \div D) * D + ((q - 1) % D) = q - 1
<1>0. D \in Nat /\ D > 0 /\ l + D - 1 \in Nat /\ q - 1 \in Nat /\ q - 1 < l
  BY MfsUtilAssumption
<1> DEFINE k == (q - 1) \div D
           r == (q - 1) % D
           s == (l + D - 1) % D
<1>1. n \in Nat /\ s \in Nat /\ s < D /\ n * D + s = l + D - 1
  BY <1>0, Division
<1>2. k \in Nat /\ r \in Nat /\ r < D /\ k * D + r = q - 1
  BY <1>0, Division
<1> HIDE DEF k, r, s
<1>3. k * D \in Nat /\ n * D \in Nat /\ (k + 1) * D = k * D + D
  BY <1>0, <1>1, <1>2
<1> DEFINE kd == k * D
           nd == n * D
<1>4. kd <= l - 1 /\ l <= nd
  <2>1. kd \in Nat /\ nd \in Nat /\ kd + r = q - 1 /\ nd + s = l + D - 1
    BY <1>1, <1>2, <1>3
  <2> HIDE DEF kd, nd
  <2> QED BY <1>0, <1>1, <1>2, <2>1
<1>5. k < n
  <2> SUFFICES ASSUME n <= k PROVE FALSE
    BY <1>1, <1>2
  <2>1. nd <= kd
    BY <1>1, <1>2, Times
  <2>2. kd \in Nat /\ nd \in Nat
    BY <1>3
  <2> HIDE DEF kd, nd
  <2> QED BY <1>0, <1>4, <2>1, <2>2
<1>6. k + 1 \in 1 .. n
  BY <1>1, <1>2, <1>5
<1>7. l <= n * D
  BY <1>4
<1> QED BY <1>1, <1>2, <1>3, <1>6, <1>7 DEF k, r

LEMMA PartBytes ==
  ASSUME NEW bytes \in Seq(Nat), NEW q \in 1 .. Len(bytes)
  PROVE  PayloadByte(Part(bytes, ((q - 1) \div D) + 1), ((q - 1) % D) + 1) = bytes[q]
<1> DEFINE l == Len(bytes)
           n == (l + D - 1) \div D
           k == ((q - 1) \div D) + 1
           r == (q - 1) % D
           b == ((q - 1) \div D) * D
           z == IF k * D < l THEN k * D ELSE l
<1>0. l \in Nat /\ D \in Nat /\ D > 0 /\ n \in Nat
  BY MfsUtilAssumption, SectorsNeeded
<1>1. k * D = b + D /\ r \in Nat /\ r < D /\ b \in Nat /\ b + r = q - 1 /\ k \in 1 .. n
  BY <1>0, BytePlace
<1>2. (k - 1) * D = b
  <2>1. (q - 1) \div D \in Int
    BY <1>0
  <2>2. k - 1 = (q - 1) \div D
    BY <2>1
  <2> QED BY <2>2
<1> HIDE DEF k, r, b
<1>3. Part(bytes, k) = SubSeq(bytes, b + 1, z)
  BY <1>2 DEF Part
<1>4. z \in Nat /\ z <= l /\ b + 1 + r <= z /\ b + 1 >= 1 /\ b + 1 \in Nat
  <2> DEFINE kd == k * D
  <2>1. kd = b + D /\ z = IF kd < l THEN kd ELSE l
    BY <1>1
  <2> HIDE DEF kd, z
  <2> QED BY <1>0, <1>1, <2>1
<1> HIDE DEF z
<1>5. Len(SubSeq(bytes, b + 1, z)) = z - b /\ SubSeq(bytes, b + 1, z)[r + 1] = bytes[q]
  <2>0. b + 1 \in 1 .. Len(bytes) + 1 /\ z \in b + 1 - 1 .. Len(bytes)
    BY <1>0, <1>1, <1>4
  <2>1. /\ Len(SubSeq(bytes, b + 1, z)) = IF b + 1 <= z THEN z - (b + 1) + 1 ELSE 0
        /\ \A j \in 1 .. z - (b + 1) + 1 : SubSeq(bytes, b + 1, z)[j] = bytes[(b + 1) + j - 1]
    BY <2>0, SubSeqProperties, SMTT(60)
  <2>2. r + 1 \in 1 .. z - (b + 1) + 1 /\ (b + 1) + (r + 1) - 1 = q /\ z - (b + 1) + 1 = z - b /\ b + 1 <= z
    BY <1>0, <1>1, <1>4
  <2> QED BY <2>1, <2>2
<1>6. r + 1 <= z - b
  BY <1>0, <1>1, <1>4
<1> QED BY <1>3, <1>5, <1>6 DEF PayloadByte, k, r

\* An entry whose chain holds bytes is read back as these bytes.
LEMMA ChainedLoads ==
  ASSUME NEW m, NEW i \in Slots, NEW bytes \in Files, Holds(m, i, bytes)
  PROVE  load(m, i) = bytes
<1> DEFINE n == SectorsFor(bytes)
           l == Len(bytes)
           file == m.files[i]
           chain == Chain(m, file.block)
           there == Len(chain) * D
           Byte(q) == PayloadByte(m.data[chain[((q - 1) \div D) + 1]].data, ((q - 1) % D) + 1)
<1>1. PICK list : Chained(m, i, list, bytes)
  BY DEF Holds
<1>2. bytes \in Seq(Nat) /\ l \in Nat /\ l <= BUF /\ n \in Nat /\ n = (l + D - 1) \div D
  BY SectorsCounted
<1>3. /\ file.size = l
      /\ \A k \in 1 .. n : list[k] \in Sectors /\ m.data[list[k]].data = Part(bytes, k)
      /\ \A k, j \in 1 .. n : list[k] = list[j] => k = j
  BY <1>1, Zenon DEF Chained
<1>4. PICK w, len : Shape(m, file.block, w, len)
  BY ChainShape
<1>5. \A k \in 1 .. n : w[k - 1] = list[k]
  BY <1>1, <1>2, <1>4, FollowsList, SMTT(60) DEF Shape
<1>6. load(m, i) = [q \in 1 .. IF file.size < there THEN file.size ELSE there |-> Byte(q)]
  <2>1. i # -1
    BY SlotNumbers
  <2>2. ~(file.size > BUF)
    BY <1>2, <1>3, MfsUtilAssumption
  <2> QED BY <2>1, <2>2 DEF load
<1> HIDE DEF n, l, file
<1>7. n <= FS_MAX_SECTORS
  BY <1>2, <1>3, ListFits
<1>8. chain = [k \in 1 .. len |-> w[k - 1]] /\ len \in Nat /\ (len < FS_MAX_SECTORS => w[len] \notin Sectors)
  BY <1>4 DEF Shape
<1> HIDE DEF chain
<1>9. n <= len
  <2> SUFFICES ASSUME len < n PROVE FALSE
    BY <1>2, <1>8
  <2>1. len + 1 \in 1 .. n /\ len < FS_MAX_SECTORS /\ (len + 1) - 1 = len
    BY <1>2, <1>7, <1>8, MfsUtilAssumption
  <2>2. w[len] = list[len + 1] /\ list[len + 1] \in Sectors
    BY <1>3, <1>5, <2>1
  <2> QED BY <1>8, <2>1, <2>2
<1>10. Len(chain) = len /\ \A k \in 1 .. n : chain[k] = list[k]
  BY <1>2, <1>5, <1>8, <1>9
<1>11. there \in Nat /\ n * D <= there
  BY <1>2, <1>8, <1>9, <1>10, Times
<1> HIDE DEF there
<1>12. l <= there
  <2>1. CASE l = 0
    BY <1>11, <2>1
  <2>2. CASE l # 0
    <3>1. l \in 1 .. l
      BY <1>2, <2>2
    <3>2. l <= n * D /\ n * D \in Nat
      BY <1>2, <3>1, BytePlace
    <3> DEFINE nd == n * D
    <3>3. nd \in Nat /\ l <= nd /\ nd <= there
      BY <1>11, <3>2
    <3> HIDE DEF nd
    <3> QED BY <1>2, <1>11, <3>3
  <2> QED BY <2>1, <2>2
<1>13. ASSUME NEW q \in 1 .. l PROVE Byte(q) = bytes[q]
  <2>1. ((q - 1) \div D) + 1 \in 1 .. n
    BY <1>2, BytePlace
  <2>2. m.data[chain[((q - 1) \div D) + 1]].data = Part(bytes, ((q - 1) \div D) + 1)
    BY <1>3, <1>10, <2>1
  <2>3. PayloadByte(Part(bytes, ((q - 1) \div D) + 1), ((q - 1) % D) + 1) = bytes[q]
    BY <1>2, PartBytes DEF l
  <2> QED BY <2>2, <2>3
<1> HIDE DEF Byte
<1>14. load(m, i) = [q \in 1 .. l |-> Byte(q)]
  <2>1. (IF file.size < there THEN file.size ELSE there) = l
    BY <1>2, <1>3, <1>11, <1>12
  <2> QED BY <1>6, <2>1
<1>15. bytes = [q \in 1 .. l |-> bytes[q]]
  BY <1>2 DEF l
<1> QED BY <1>13, <1>14, <1>15

\* Its sectors are marked.
LEMMA ListMarked ==
  ASSUME NEW m, Good(m), NEW j \in Slots, NEW bytes \in Files, NEW list, Chained(m, j, list, bytes)
  PROVE  \A k \in 1 .. SectorsFor(bytes) : list[k] \in Sectors /\ list[k] \in m.bitmap
<1> DEFINE n == SectorsFor(bytes)
<1>1. PICK w, len : Shape(m, m.files[j].block, w, len)
  BY ChainShape
<1>2. n \in Nat
  BY SectorsCounted
<1>3. Walks(w, Nexts(m), m.files[j].block)
  BY <1>1 DEF Shape
<1>4. \A k \in 1 .. n : w[k - 1] = list[k]
  BY <1>2, <1>3, FollowsList
<1>5. Heads(m)[j] = m.files[j].block
  BY DEF Heads
<1>6. \A k \in 1 .. n : list[k] \in Sectors
  BY Zenon DEF Chained
<1> HIDE DEF n
<1>7. ASSUME NEW k \in 1 .. n PROVE list[k] \in m.bitmap
  <2>1. k - 1 \in Nat /\ w[k - 1] \in Sectors
    <3>1. k - 1 \in Nat
      BY <1>2
    <3> QED BY <1>4, <1>6, <3>1, Zenon
  <2>2. Linked(Heads(m), Nexts(m), m.bitmap)
    BY DEF Good
  <2>3. w[k - 1] \in m.bitmap
    <3>1. Walks(w, Nexts(m), Heads(m)[j])
      BY <1>3, <1>5
    <3> QED BY <2>1, <2>2, <3>1, WalkMarked, Zenon
  <2> QED BY <1>4, <2>3
<1> QED BY <1>6, <1>7 DEF n

\* They are not on the chain of another entry.
LEMMA ListApart ==
  ASSUME NEW m, Good(m), NEW i \in Slots, NEW j \in Slots, i # j, NEW bytes \in Files,
         NEW list, Chained(m, j, list, bytes)
  PROVE  \A k \in 1 .. SectorsFor(bytes) : list[k] \notin Range(Chain(m, m.files[i].block))
<1> DEFINE n == SectorsFor(bytes)
           gone == Range(Chain(m, m.files[i].block))
<1>1. PICK w, len : Shape(m, m.files[j].block, w, len)
  BY ChainShape
<1>2. n \in Nat
  BY SectorsCounted
<1>3. Walks(w, Nexts(m), m.files[j].block)
  BY <1>1 DEF Shape
<1>4. \A k \in 1 .. n : w[k - 1] = list[k]
  BY <1>2, <1>3, FollowsList
<1>5. Heads(m)[j] = m.files[j].block /\ Heads(m)[i] = m.files[i].block
  BY DEF Heads
<1>6. PICK v : Walks(v, Nexts(m), m.files[i].block) /\ \A b \in gone : b \in Sectors /\ \E k \in Nat : b = v[k]
  BY ChainWalks
<1> HIDE DEF n, gone
<1>7. ASSUME NEW k \in 1 .. n, list[k] \in gone PROVE FALSE
  <2>1. k - 1 \in Nat /\ w[k - 1] \in Sectors /\ w[k - 1] = list[k]
    BY <1>2, <1>4, <1>6, <1>7
  <2>2. Linked(Heads(m), Nexts(m), m.bitmap)
    BY DEF Good
  <2>3. Walks(w, Nexts(m), Heads(m)[j]) /\ Walks(v, Nexts(m), Heads(m)[i])
    BY <1>3, <1>5, <1>6
  <2>4. \A a, b \in Nat : w[a] \in Sectors => w[a] # v[b]
    BY <2>2, <2>3, WalksApart
  <2> QED BY <1>6, <1>7, <2>1, <2>4
<1> QED BY <1>7 DEF n, gone

\* Erasing entry i leaves the other files, and entry i empty.
LEMMA HoldsErased ==
  ASSUME NEW m, Good(m), NEW i \in Slots, NEW t, ErasedOnly(m, t, i)
  PROVE  /\ Holds(t, i, <<>>)
         /\ \A j \in Slots, c \in Files : j # i /\ Holds(m, j, c) => Holds(t, j, c)
<1>1. Holds(t, i, <<>>)
  <2>1. SizeMod \in Nat /\ SizeMod > 0 /\ Len(<<>>) = 0
    BY MfsUtilAssumption
  <2>2. SectorsFor(<<>>) = 0 /\ Len(<<>>) = 0
    BY <2>1 DEF SectorsFor
  <2>3. t.files[i].size = 0 /\ \A k \in 1 .. 0 : FALSE
    BY DEF ErasedOnly
  <2>4. Chained(t, i, <<>>, <<>>)
    BY <2>2, <2>3, Zenon DEF Chained
  <2> QED BY <2>4 DEF Holds
<1>2. ASSUME NEW j \in Slots, NEW c \in Files, j # i, Holds(m, j, c) PROVE Holds(t, j, c)
  <2>1. PICK list : Chained(m, j, list, c)
    BY <1>2 DEF Holds
  <2>2. \A k \in 1 .. SectorsFor(c) : list[k] \notin Range(Chain(m, m.files[i].block))
    BY <1>2, <2>1, ListApart, Zenon
  <2>3. \A k \in 1 .. SectorsFor(c) : list[k] \in Sectors
    BY <2>1, Zenon DEF Chained
  <2>4. t.files[j] = m.files[j] /\ \A k \in 1 .. SectorsFor(c) : t.data[list[k]] = m.data[list[k]]
    BY <1>2, <2>2, <2>3, Zenon DEF ErasedOnly
  <2>5. Chained(t, j, list, c)
    BY <2>1, <2>4, ChainedKept, Zenon
  <2> QED BY <2>5 DEF Holds
<1> QED BY <1>1, <1>2

\* Where only free sectors and entry i change, the other files stay.
LEMMA HoldsChanged ==
  ASSUME NEW m, Good(m), NEW i, NEW t, NEW j \in Slots, j # i, t.files[j] = m.files[j],
         \A b \in Sectors : b \in m.bitmap => t.data[b] = m.data[b],
         NEW c \in Files, Holds(m, j, c)
  PROVE  Holds(t, j, c)
<1>1. PICK list : Chained(m, j, list, c)
  BY DEF Holds
<1>2. \A k \in 1 .. SectorsFor(c) : list[k] \in Sectors /\ list[k] \in m.bitmap
  BY <1>1, ListMarked, Zenon
<1>3. Chained(t, j, list, c)
  BY <1>1, <1>2, ChainedKept, Zenon
<1> QED BY <1>3 DEF Holds

LEMMA HoldsSave ==
  ASSUME NEW m, Good(m), NEW i \in Slots, NEW bytes \in Files
  PROVE  /\ Holds(save_to_disk(m, i, bytes, 0), i, IF OutOfSpace(m, i, bytes) THEN <<>> ELSE bytes)
         /\ \A j \in Slots, c \in Files :
              j # i /\ Holds(m, j, c) => Holds(save_to_disk(m, i, bytes, 0), j, c)
<1> DEFINE t == save_to_disk(m, i, bytes, 0)
           erased == Erased(m, i)
           full == OutOfSpace(m, i, bytes)
<1>1. Good(erased) /\ ErasedOnly(m, erased, i)
  BY GoodErased, Zenon
<1>2. /\ Holds(erased, i, <<>>)
      /\ \A j \in Slots, c \in Files : j # i /\ Holds(m, j, c) => Holds(erased, j, c)
  BY <1>1, HoldsErased, Zenon
<1>3. /\ full => t.files = erased.files /\ t.data = erased.data
      /\ ~full => \E list : Chained(t, i, list, bytes) /\ ChangedOnly(erased, t, i, list, SectorsFor(bytes))
  BY GoodSave, Zenon
<1> HIDE DEF t, erased, full
<1>4. CASE full
  <2>1. ASSUME NEW j, NEW c, Holds(erased, j, c) PROVE Holds(t, j, c)
    <3>1. PICK list : Chained(erased, j, list, c)
      BY <2>1 DEF Holds
    <3>2. Chained(t, j, list, c)
      BY <1>3, <1>4, <3>1, ChainedKept, Zenon
    <3> QED BY <3>2 DEF Holds
  <2> QED BY <1>2, <1>4, <2>1, Zenon DEF t, full
<1>5. CASE ~full
  <2>1. PICK list : Chained(t, i, list, bytes) /\ ChangedOnly(erased, t, i, list, SectorsFor(bytes))
    BY <1>3, <1>5, Zenon
  <2>2. Holds(t, i, bytes)
    BY <2>1 DEF Holds
  <2>3. \A b \in Sectors : b \in erased.bitmap => t.data[b] = erased.data[b]
    BY <2>1, Zenon DEF ChangedOnly
  <2>4. ASSUME NEW j \in Slots, NEW c \in Files, j # i, Holds(m, j, c) PROVE Holds(t, j, c)
    <3>1. Holds(erased, j, c)
      BY <1>2, <2>4, Zenon
    <3>2. t.files[j] = erased.files[j]
      BY <2>1, <2>4, Zenon DEF ChangedOnly
    <3> QED BY <1>1, <2>3, <2>4, <3>1, <3>2, HoldsChanged, Zenon
  <2> QED BY <1>5, <2>2, <2>4, Zenon DEF t, full
<1> QED BY <1>4, <1>5

-----------------------------------------------------------------------------
(* The invariant                                                           *)

\* Every name with stored contents has an entry, which holds them.
There(m, st) ==
  \A name \in Names : st[name] # NoContents => find_file(m, name) # -1 /\ Holds(m, find_file(m, name), st[name])
\* The first filecount entries are in use, and no other.
Compact(m) == m.filecount \in 0 .. MAX_FILES /\ \A i \in Slots : m.files[i].used <=> i < m.filecount
\* The image of the tool: consistent, with the stored contents, and compact until the first deletion.
Sound(m, st, del) == Good(m) /\ There(m, st) /\ (~del => Compact(m))
Inv ==
  image.formatted /\ ~astray =>
    stored \in [Names -> Files \cup {NoContents}] /\ Sound(image, stored, deleted)

\* The tool's search finds an entry of the name whenever the table has one.
LEMMA FindFile ==
  ASSUME NEW m, NEW name
  PROVE  /\ find_file(m, name) # -1 => find_file(m, name) \in Slots /\ m.files[find_file(m, name)].name = name
         /\ (\E i \in Slots : m.files[i].name = name) => find_file(m, name) # -1
<1> DEFINE at == {i \in 0 .. MAX_FILES - 1 : m.files[i].name = name}
<1>1. find_file(m, name) = IF at = {} THEN -1 ELSE Min(at)
  BY DEF find_file, Index
<1>2. Slots = 0 .. MAX_FILES - 1 /\ Slots \in SUBSET Nat
  BY SlotNumbers
<1>3. CASE at = {}
  BY <1>1, <1>2, <1>3
<1>4. CASE at # {}
  <2>1. at \in SUBSET Nat
    BY <1>2
  <2>2. Min(at) \in at
    BY <1>4, <2>1, Minimum
  <2>3. Min(at) \in Slots /\ m.files[Min(at)].name = name /\ Min(at) # -1
    BY <1>2, <2>2
  <2> QED BY <1>1, <1>4, <2>3
<1> QED BY <1>3, <1>4

\* The search depends on the names only.
LEMMA FindSame == ASSUME NEW m, NEW t, SameNames(m, t), NEW name PROVE find_file(t, name) = find_file(m, name)
<1>1. {i \in 0 .. MAX_FILES - 1 : t.files[i].name = name} = {i \in 0 .. MAX_FILES - 1 : m.files[i].name = name}
  BY SlotNumbers DEF SameNames
<1> QED BY <1>1 DEF find_file, Index

\* A new entry is found under its name, and the others as before.
LEMMA FindCreated ==
  ASSUME NEW m, NEW t, NEW i \in Slots, NEW name \in Names, m.files[i].name = NoName, find_file(m, name) = -1,
         Created(m, t, name, i)
  PROVE  find_file(t, name) = i /\ \A n \in Names : n # name => find_file(t, n) = find_file(m, n)
<1>0. t.files[i].name = name /\ \A j \in Slots : j # i => t.files[j].name = m.files[j].name
  BY Zenon DEF Created
<1>1. \A j \in Slots : m.files[j].name # name
  BY FindFile, Zenon
<1>2. find_file(t, name) # -1
  BY <1>0, FindFile, Zenon
<1>3. find_file(t, name) \in Slots /\ t.files[find_file(t, name)].name = name
  BY <1>2, FindFile, Zenon
<1>4. find_file(t, name) = i
  BY <1>0, <1>1, <1>3, Zenon
<1>5. ASSUME NEW n \in Names, n # name PROVE find_file(t, n) = find_file(m, n)
  <2>1. n # NoName
    BY MfsUtilAssumption
  <2>2. {j \in Slots : t.files[j].name = n} = {j \in Slots : m.files[j].name = n}
    BY <1>0, <1>5, <2>1
  <2>3. {j \in 0 .. MAX_FILES - 1 : t.files[j].name = n} = {j \in 0 .. MAX_FILES - 1 : m.files[j].name = n}
    BY <2>2 DEF Slots
  <2> QED BY <2>3 DEF find_file, Index
<1> QED BY <1>4, <1>5

\* In a compact table the kernel finds what the tool finds.
LEMMA KernelFinds ==
  ASSUME NEW m, Good(m), Compact(m), NEW name \in Names
  PROVE  KernelFind(m, name) = find_file(m, name)
<1> DEFINE c == IF m.filecount < MAX_FILES THEN m.filecount ELSE MAX_FILES
<1>1. c = m.filecount /\ c \in 0 .. MAX_FILES /\ MAX_FILES \in Nat
  BY MfsUtilAssumption DEF Compact
<1>2. \A i \in Slots : m.files[i].name = name => i < c
  <2>1. \A i \in Slots : m.files[i].name = name => m.files[i].used
    BY MfsUtilAssumption, Zenon DEF Good
  <2> QED BY <1>1, <2>1, Zenon DEF Compact
<1> HIDE DEF c
<1>3. \A i : i \in 0 .. c - 1 <=> i \in Slots /\ i < c
  BY <1>1 DEF Slots
<1>4. {i \in 0 .. c - 1 : m.files[i].name = name} = {i \in Slots : m.files[i].name = name}
  BY <1>2, <1>3, Zenon
<1>5. {i \in 0 .. c - 1 : m.files[i].name = name} = {i \in 0 .. MAX_FILES - 1 : m.files[i].name = name}
  BY <1>4 DEF Slots
<1> QED BY <1>5 DEF KernelFind, find_file, Index, c

\* A file is uncounted and counted again.
LEMMA CountKept ==
  ASSUME NEW c \in 0 .. MAX_FILES
  PROVE  /\ (((c - 1) % CountMod) + 1) % CountMod = c
         /\ c < MAX_FILES => (c + 1) % CountMod = c + 1
<1> DEFINE M == CountMod
<1>1. M \in Nat /\ M > MAX_FILES /\ MAX_FILES \in Nat /\ c \in Nat /\ c < M /\ M > 0
  BY MfsUtilAssumption
<1> HIDE DEF M
<1>2. CASE c = 0
  <2>1. (c - 1) % M = M - 1
    BY <1>1, <1>2
  <2>2. (M - 1) + 1 = M /\ M % M = 0 /\ (c + 1 <= MAX_FILES => (c + 1) % M = c + 1)
    BY <1>1, <1>2
  <2> QED BY <1>1, <1>2, <2>1, <2>2 DEF M
<1>3. CASE c # 0
  <2>1. (c - 1) % M = c - 1 /\ c % M = c /\ (c - 1) + 1 = c
    BY <1>1, <1>3
  <2>2. c < MAX_FILES => (c + 1) % M = c + 1
    BY <1>1
  <2> QED BY <2>1, <2>2 DEF M
<1> QED BY <1>2, <1>3

LEMMA GoodFormat == Good(mfs_format)
<1> DEFINE m == mfs_format
<1>1. m \in Image
  <2>1. 0 .. 2 \in SUBSET Nat
    OBVIOUS
  <2> QED BY <2>1, Blanks DEF mfs_format, Image
<1>2. Heads(m) = [i \in Slots |-> 0] /\ Nexts(m) = [b \in Sectors |-> 0]
  BY DEF Heads, Nexts, mfs_format, BlankEntry, BlankSector
<1>3. Linked([i \in Slots |-> 0], [b \in Sectors |-> 0], m.bitmap)
  BY Blanks DEF Linked
<1>4. \A i \in Slots : m.files[i].name = NoName
  BY DEF mfs_format, BlankEntry
<1> HIDE DEF m
<1>5. Good(m)
  BY <1>1, <1>2, <1>3, <1>4 DEF Good
<1> QED BY <1>5 DEF m

LEMMA InitInv == Init => Inv
<1> SUFFICES ASSUME Init PROVE Inv
  OBVIOUS
<1>1. image.formatted = FALSE
  BY DEF Init, Blank
<1> QED BY <1>1, Zenon DEF Inv

LEMMA FormatInv == ASSUME Inv, Format PROVE Inv'
<1>1. stored' \in [Names -> Files \cup {NoContents}] /\ \A name \in Names : stored'[name] = NoContents
  BY DEF Format
<1>2. Good(image')
  BY GoodFormat DEF Format
<1>3. There(image', stored')
  BY <1>1, Zenon DEF There
<1>4. Compact(image')
  <2>1. image'.filecount = 0 /\ \A i \in Slots : image'.files[i].used = FALSE
    BY DEF Format, mfs_format, BlankEntry
  <2> QED BY <2>1, MfsUtilAssumption, SlotNumbers DEF Compact
<1> QED BY <1>1, <1>2, <1>3, <1>4, Zenon DEF Inv, Sound

LEMMA DeleteInv == ASSUME Inv, NEW name \in Names, Delete(name) PROVE Inv'
<1> DEFINE i == find_file(image, name)
<1> SUFFICES ASSUME ~astray' PROVE stored' \in [Names -> Files \cup {NoContents}] /\ Sound(image', stored', deleted')
  BY Zenon DEF Inv
<1>2. /\ stored' = [stored EXCEPT ![name] = NoContents] /\ image.formatted /\ i # -1
      /\ image' = mfs_delete(image, i) /\ astray' = astray /\ deleted' = TRUE
  BY DEF Delete
<1>1. stored \in [Names -> Files \cup {NoContents}]
  BY <1>2, Zenon DEF Inv
<1>3. /\ stored' \in [Names -> Files \cup {NoContents}] /\ stored'[name] = NoContents
      /\ \A n \in Names : n # name => stored'[n] = stored[n]
  BY <1>1, <1>2
<1>4. i \in Slots /\ image.files[i].name = name
  BY <1>2, FindFile, Zenon
<1> HIDE DEF i
<1>5. Sound(image', stored', deleted')
  <2>1. Good(image) /\ There(image, stored)
    BY <1>2, Zenon DEF Inv, Sound
  <2>2. Good(image') /\ SameNames(image, image') /\ ErasedOnly(image, image', i)
    BY <1>2, <1>4, <2>1, GoodDelete, Zenon
  <2>3. ASSUME NEW n \in Names, stored'[n] # NoContents
        PROVE  find_file(image', n) # -1 /\ Holds(image', find_file(image', n), stored'[n])
    <3>1. n # name /\ stored'[n] = stored[n] /\ stored[n] \in Files
      BY <1>1, <1>3, <2>3
    <3>2. find_file(image', n) = find_file(image, n)
      BY <2>2, FindSame, Zenon
    <3>3. find_file(image, n) # -1 /\ Holds(image, find_file(image, n), stored[n])
      BY <2>1, <2>3, <3>1, Zenon DEF There
    <3>4. find_file(image, n) \in Slots /\ find_file(image, n) # i
      BY <1>4, <3>1, <3>3, FindFile, Zenon
    <3>5. Holds(image', find_file(image, n), stored[n])
      BY <1>4, <2>1, <2>2, <3>1, <3>3, <3>4, HoldsErased, Zenon
    <3> QED BY <3>1, <3>2, <3>3, <3>5, Zenon
  <2> QED BY <1>2, <2>2, <2>3, Zenon DEF Sound, There
<1> QED BY <1>3, <1>5

\* A stored file is found, and the files of other entries stay.
Stores(m, t, i, name, st, new) ==
  /\ Good(m) /\ i \in Slots /\ find_file(m, name) = i
  /\ \A n \in Names : n # name /\ st[n] # NoContents => find_file(m, n) # -1 /\ Holds(m, find_file(m, n), st[n])
  /\ SameNames(m, t) /\ Holds(t, i, new)
  /\ \A j \in Slots, c \in Files : j # i /\ Holds(m, j, c) => Holds(t, j, c)

Updates(st, now, name, new) == now[name] = new /\ \A n \in Names : n # name => now[n] = st[n]

LEMMA SavedThere ==
  ASSUME NEW st \in [Names -> Files \cup {NoContents}], NEW name \in Names,
         NEW m, NEW t, NEW i, NEW new \in Files, Stores(m, t, i, name, st, new),
         NEW now, Updates(st, now, name, new)
  PROVE  There(t, now)
<1>0. now[name] = new /\ \A n \in Names : n # name => now[n] = st[n]
  BY DEF Updates
<1>1. ASSUME NEW n \in Names, now[n] # NoContents
      PROVE  find_file(t, n) # -1 /\ Holds(t, find_file(t, n), now[n])
  <2>1. find_file(t, n) = find_file(m, n)
    BY FindSame, Zenon DEF Stores
  <2>2. CASE n = name
    <3>1. i # -1
      BY SlotNumbers DEF Stores
    <3> QED BY <1>0, <2>1, <2>2, <3>1, Zenon DEF Stores
  <2>3. CASE n # name
    <3>1. now[n] = st[n] /\ st[n] # NoContents /\ st[n] \in Files
      BY <1>0, <1>1, <2>3
    <3>2. find_file(m, n) # -1 /\ Holds(m, find_file(m, n), st[n])
      BY <2>3, <3>1, Zenon DEF Stores
    <3>3. find_file(m, n) \in Slots /\ m.files[find_file(m, n)].name = n
      BY <3>2, FindFile, Zenon
    <3>4. find_file(m, name) = i /\ m.files[i].name = name
      <4>1. i # -1 /\ find_file(m, name) = i
        BY SlotNumbers DEF Stores
      <4> QED BY <4>1, FindFile, Zenon
    <3>5. find_file(m, n) # i
      BY <2>3, <3>3, <3>4, Zenon
    <3>6. Holds(t, find_file(m, n), st[n])
      BY <3>1, <3>2, <3>3, <3>5, Zenon DEF Stores
    <3> QED BY <2>1, <3>1, <3>2, <3>6, Zenon
  <2> QED BY <2>2, <2>3
<1> QED BY <1>1, Zenon DEF There

LEMMA EmptyFile == <<>> \in Files
BY MfsUtilAssumption DEF Files

\* A run that does not go astray writes what it keeps and does nothing else.
LEMMA SavedPlainly ==
  ASSUME NEW m, NEW i, NEW bytes \in Contents, NEW t, t \in Saved(m, i, bytes), NEW before, NEW now,
         now = (before \/ Astray(m, i, bytes)), ~now
  PROVE  Kept(bytes) \in Files /\ ~before /\ t = save_to_disk(m, i, Kept(bytes), 0)
<1>1. ~before /\ ~Astray(m, i, bytes)
  OBVIOUS
<1>2. Kept(bytes) \in Files /\ SectorsFor(Kept(bytes)) # 0 /\ ~Overrun(m, i, bytes)
  BY <1>1, KeptFile
<1>3. t \in {save_to_disk(m, i, Kept(bytes), first) : first \in {0}}
  BY <1>2, Zenon DEF Saved
<1> QED BY <1>1, <1>2, <1>3, Zenon

LEMMA OverwriteInv == ASSUME Inv, NEW name \in Names, NEW bytes \in Contents, Overwrite(name, bytes) PROVE Inv'
<1> DEFINE i == find_file(image, name)
           kept == Kept(bytes)
           new == IF OutOfSpace(image, i, kept) THEN <<>> ELSE kept
<1> SUFFICES ASSUME ~astray' PROVE stored' \in [Names -> Files \cup {NoContents}] /\ Sound(image', stored', deleted')
  BY Zenon DEF Inv
<1>2. /\ image.formatted /\ i # -1 /\ stored' = [stored EXCEPT ![name] = new]
      /\ image' \in Saved(image, i, bytes)
      /\ astray' = (astray \/ Astray(image, i, bytes)) /\ deleted' = deleted
  BY DEF Overwrite
<1>1. stored \in [Names -> Files \cup {NoContents}]
  BY <1>2, Zenon DEF Inv
<1>7. kept \in Files /\ ~astray /\ image' = save_to_disk(image, i, kept, 0)
  BY <1>2, SavedPlainly, Zenon
<1> HIDE DEF kept
<1>3. new \in Files
  BY <1>7, EmptyFile
<1>4. i \in Slots /\ image.files[i].name = name
  BY <1>2, FindFile
<1> HIDE DEF i
<1>5. Sound(image', stored', deleted')
  <2>1. Sound(image, stored, deleted)
    BY <1>2, <1>7, Zenon DEF Inv
  <2>2. image' = save_to_disk(image, i, kept, 0) /\ Good(image)
    BY <1>7, <2>1, Zenon DEF Sound
  <2>3. Good(image') /\ SameNames(image, image') /\ image'.filecount = Erased(image, i).filecount
    BY <1>4, <1>7, <2>2, GoodSave, Zenon
  <2>4. /\ Holds(image', i, new)
        /\ \A j \in Slots, c \in Files : j # i /\ Holds(image, j, c) => Holds(image', j, c)
    BY <1>4, <1>7, <2>2, HoldsSave, Zenon
  <2> HIDE DEF new
  <2>5. Stores(image, image', i, name, stored, new)
    BY <1>4, <2>1, <2>2, <2>3, <2>4, Zenon DEF Stores, Sound, There, i
  <2>6. Updates(stored, stored', name, new)
    BY <1>1, <1>2 DEF Updates
  <2>7. There(image', stored')
    BY <1>1, <1>3, <2>5, <2>6, SavedThere, Zenon
  <2>8. ASSUME ~deleted' PROVE Compact(image')
    <3>1. Compact(image)
      BY <1>2, <2>1, <2>8, Zenon DEF Sound
    <3>2. image'.filecount = (((image.filecount - 1) % CountMod) + 1) % CountMod
      BY <1>4, <2>2, <2>3, GoodErased, Zenon
    <3>3. image.filecount \in 0 .. MAX_FILES
      BY <3>1 DEF Compact
    <3>4. image'.filecount = image.filecount
      BY <3>2, <3>3, CountKept
    <3> QED BY <2>3, <3>1, <3>4, Zenon DEF Compact, SameNames
  <2> QED BY <2>3, <2>7, <2>8, Zenon DEF Sound
<1>6. stored' \in [Names -> Files \cup {NoContents}]
  <2> HIDE DEF new
  <2> QED BY <1>1, <1>2, <1>3
<1> QED BY <1>5, <1>6

LEMMA WriteInv == ASSUME Inv, NEW name \in Names, NEW bytes \in Contents, Write(name, bytes) PROVE Inv'
<1> DEFINE free == {i \in Slots : ~image.files[i].used}
           i == Min(free)
           m == create(image, name, i)
           kept == Kept(bytes)
           new == IF OutOfSpace(m, i, kept) THEN <<>> ELSE kept
<1> SUFFICES ASSUME ~astray' PROVE stored' \in [Names -> Files \cup {NoContents}] /\ Sound(image', stored', deleted')
  BY Zenon DEF Inv
<1>2. /\ image.formatted /\ free # {} /\ alloc_block(image) # 0 /\ stored' = [stored EXCEPT ![name] = new]
      /\ image' \in Saved(m, i, bytes)
      /\ astray' = (astray \/ Astray(m, i, bytes)) /\ deleted' = deleted
      /\ find_file(image, name) = -1 /\ image.filecount < MAX_FILES
  BY Zenon DEF Write
<1>1. stored \in [Names -> Files \cup {NoContents}]
  BY <1>2, Zenon DEF Inv
<1>7. kept \in Files /\ ~astray /\ image' = save_to_disk(m, i, kept, 0)
  BY <1>2, SavedPlainly, Zenon
<1> HIDE DEF kept
<1>3. new \in Files
  BY <1>7, EmptyFile
<1>4. i \in Slots /\ ~image.files[i].used /\ \A j \in Slots : ~image.files[j].used => i <= j
  <2>1. free \in SUBSET Nat
    BY SlotNumbers
  <2>2. i \in free /\ \A j \in free : i <= j
    BY <1>2, <2>1, Minimum
  <2> QED BY <2>2, Zenon
<1> HIDE DEF i, free
<1>5. Sound(image', stored', deleted')
  <2>1. Sound(image, stored, deleted) /\ Good(image)
    BY <1>2, <1>7, Zenon DEF Inv, Sound
  <2>2. image.files[i].name = NoName
    BY <1>4, <2>1, Zenon DEF Good
  <2>13. Good(m) /\ Created(image, m, name, i)
    BY <1>2, <1>4, <2>1, GoodCreate, Zenon
  <2>3. /\ Good(m) /\ m.files[i].name = name /\ m.files[i].used /\ \A j \in Slots : j # i => m.files[j] = image.files[j]
        /\ \A a \in Sectors : a \in image.bitmap => m.data[a] = image.data[a]
        /\ m.filecount = (image.filecount + 1) % CountMod
    BY <2>13, Zenon DEF Created
  <2> HIDE DEF m
  <2>4. image' = save_to_disk(m, i, kept, 0) /\ kept \in Files
    BY <1>7, Zenon
  <2>5. Good(image') /\ SameNames(m, image') /\ image'.filecount = Erased(m, i).filecount
    BY <1>4, <2>3, <2>4, GoodSave, Zenon
  <2>6. /\ Holds(image', i, new)
        /\ \A j \in Slots, c \in Files : j # i /\ Holds(m, j, c) => Holds(image', j, c)
    BY <1>4, <2>3, <2>4, HoldsSave, Zenon
  <2> HIDE DEF new
  <2>7. find_file(m, name) = i /\ \A n \in Names : n # name => find_file(m, n) = find_file(image, n)
    <3>1. find_file(image, name) = -1 /\ i \in Slots /\ image.files[i].name = NoName /\ Created(image, m, name, i)
      BY <1>2, <1>4, <2>2, <2>13, Zenon
    <3> QED BY ONLY <3>1, name \in Names, FindCreated
  <2>8. ASSUME NEW n \in Names, n # name, stored[n] # NoContents
        PROVE  find_file(m, n) # -1 /\ Holds(m, find_file(m, n), stored[n])
    <3>1. find_file(image, n) # -1 /\ Holds(image, find_file(image, n), stored[n])
      BY <2>1, <2>8, Zenon DEF Sound, There
    <3>2. find_file(image, n) \in Slots /\ image.files[find_file(image, n)].name = n /\ n # NoName
      BY <3>1, FindFile, MfsUtilAssumption, Zenon
    <3>3. find_file(image, n) # i
      BY <2>2, <3>2, Zenon
    <3>4. stored[n] \in Files
      BY <1>1, <2>8
    <3>5. Holds(m, find_file(image, n), stored[n])
      BY <2>1, <2>3, <3>1, <3>2, <3>3, <3>4, HoldsChanged, Zenon
    <3> QED BY <2>7, <2>8, <3>1, <3>5, Zenon
  <2>9. Stores(m, image', i, name, stored, new)
    BY <1>4, <2>3, <2>5, <2>6, <2>7, <2>8, Zenon DEF Stores
  <2>10. Updates(stored, stored', name, new)
    BY <1>1, <1>2 DEF Updates
  <2>11. There(image', stored')
    BY <1>1, <1>3, <2>9, <2>10, SavedThere, Zenon
  <2>12. ASSUME ~deleted' PROVE Compact(image')
    <3>1. Compact(image)
      BY <1>2, <2>1, <2>12, Zenon DEF Sound
    <3>2. image.filecount \in 0 .. MAX_FILES /\ image.filecount < MAX_FILES /\ MAX_FILES \in Nat
      BY <1>2, <3>1, MfsUtilAssumption DEF Compact
    <3>3. m.filecount = image.filecount + 1
      BY <2>3, <3>2, CountKept
    <3>4. m.filecount \in 0 .. MAX_FILES
      BY <3>2, <3>3
    <3>5. image'.filecount = m.filecount
      <4>1. image'.filecount = (((m.filecount - 1) % CountMod) + 1) % CountMod
        BY <1>4, <2>3, <2>5, GoodErased, Zenon
      <4> QED BY <3>4, <4>1, CountKept
    <3>6. i = image.filecount
      <4>1. ~(i < image.filecount)
        BY <1>4, <3>1, Zenon DEF Compact
      <4>2. image.filecount \in Slots /\ ~(image.filecount < image.filecount)
        BY <3>2 DEF Slots
      <4>3. ~image.files[image.filecount].used
        BY <3>1, <4>2, Zenon DEF Compact
      <4>4. i <= image.filecount
        BY <1>4, <4>2, <4>3, Zenon
      <4>5. i \in Nat
        BY <1>4, SlotNumbers
      <4> QED BY <3>2, <4>1, <4>4, <4>5
    <3>7. ASSUME NEW j \in Slots PROVE image'.files[j].used <=> j < image'.filecount
      <4>1. image'.files[j].used = m.files[j].used
        BY <2>5, Zenon DEF SameNames
      <4>2. CASE j = i
        <5>1. j < image'.filecount
          BY <3>2, <3>3, <3>5, <3>6, <4>2
        <5> QED BY <2>3, <4>1, <4>2, <5>1, Zenon
      <4>3. CASE j # i
        <5>1. m.files[j] = image.files[j] /\ (image.files[j].used <=> j < image.filecount)
          BY <2>3, <3>1, <4>3, Zenon DEF Compact
        <5>2. j < image'.filecount <=> j < image.filecount
          BY <3>2, <3>3, <3>5, <3>6, <4>3, SlotNumbers
        <5> QED BY <4>1, <5>1, <5>2, Zenon
      <4> QED BY <4>2, <4>3
    <3> QED BY <3>4, <3>5, <3>7 DEF Compact
  <2> QED BY <2>5, <2>11, <2>12, Zenon DEF Sound
<1>6. stored' \in [Names -> Files \cup {NoContents}]
  <2> HIDE DEF new
  <2> QED BY <1>1, <1>2, <1>3
<1> QED BY <1>5, <1>6

LEMMA InvDisjoint == Inv => SectorsDisjoint
<1> SUFFICES ASSUME Good(image), There(image, stored)
             PROVE  /\ \A name \in Live : ChainOf(name) \subseteq image.bitmap
                    /\ \A n1, n2 \in Live : n1 # n2 => ChainOf(n1) \cap ChainOf(n2) = {}
  BY Zenon DEF Inv, Sound, SectorsDisjoint
<1> DEFINE h == Heads(image)
           x == Nexts(image)
           at(name) == find_file(image, name)
           OnWalk(w, name) == Walks(w, x, h[at(name)]) /\ \A b \in ChainOf(name) : b \in Sectors /\ \E k \in Nat : b = w[k]
<1>1. ASSUME NEW name \in Live PROVE at(name) \in Slots /\ image.files[at(name)].name = name
  <2>1. at(name) # -1
    BY <1>1, Zenon DEF Live, There
  <2> QED BY <2>1, FindFile, Zenon
<1>2. Linked(h, x, image.bitmap)
  BY Zenon DEF Good
<1> HIDE DEF at, x
<1>3. ASSUME NEW name \in Live PROVE \E w : OnWalk(w, name)
  <2>1. h[at(name)] = image.files[at(name)].block
    BY <1>1, <1>3 DEF Heads
  <2> HIDE DEF h
  <2>2. PICK w : Walks(w, x, image.files[at(name)].block)
                 /\ \A b \in Range(Chain(image, image.files[at(name)].block)) : b \in Sectors /\ \E k \in Nat : b = w[k]
    BY ChainWalks DEF x
  <2>3. OnWalk(w, name)
    BY <2>1, <2>2, Zenon DEF ChainOf, at
  <2> QED BY <2>3
<1> HIDE DEF h
<1>4. ASSUME NEW name \in Live PROVE ChainOf(name) \subseteq image.bitmap
  <2>1. PICK w : OnWalk(w, name)
    BY <1>3, <1>4
  <2>2. ASSUME NEW b \in ChainOf(name) PROVE b \in image.bitmap
    <3>1. PICK k \in Nat : b = w[k] /\ b \in Sectors
      BY <2>1, <2>2, Zenon
    <3> QED BY <1>1, <1>2, <1>4, <2>1, <3>1, WalkMarked, Zenon
  <2> QED BY <2>2
<1>5. ASSUME NEW n1 \in Live, NEW n2 \in Live, n1 # n2, NEW b \in ChainOf(n1), b \in ChainOf(n2) PROVE FALSE
  <2>1. PICK w : OnWalk(w, n1)
    BY <1>3, <1>5, Zenon
  <2>2. PICK v : OnWalk(v, n2)
    BY <1>3, <1>5, Zenon
  <2>3. PICK k \in Nat : b = w[k] /\ b \in Sectors
    BY <1>5, <2>1, Zenon
  <2>4. PICK l \in Nat : b = v[l]
    BY <1>5, <2>2, Zenon
  <2>5. at(n1) \in Slots /\ at(n2) \in Slots /\ at(n1) # at(n2)
    BY <1>1, <1>5, Zenon
  <2>6. \A p, q \in Nat : w[p] \in Sectors => w[p] # v[q]
    <3>1. Walks(w, x, h[at(n1)]) /\ Walks(v, x, h[at(n2)])
      BY <2>1, <2>2
    <3> HIDE DEF OnWalk
    <3> QED BY <1>2, <2>5, <3>1, WalksApart
  <2> QED BY <2>3, <2>4, <2>6, Zenon
<1> QED BY <1>4, <1>5

LEMMA InvReads == Inv => ReadsBack /\ KernelLoads
<1> SUFFICES ASSUME Inv, image.formatted, ~astray, NEW name \in Live
             PROVE  /\ load(image, find_file(image, name)) = stored[name]
                    /\ ~deleted => load(image, KernelFind(image, name)) = stored[name]
  BY Zenon DEF ReadsBack, KernelLoads
<1>1. Sound(image, stored, deleted) /\ stored \in [Names -> Files \cup {NoContents}]
  BY Zenon DEF Inv
<1>2. name \in Names /\ stored[name] # NoContents /\ stored[name] \in Files
  BY <1>1 DEF Live
<1>3. find_file(image, name) \in Slots /\ Holds(image, find_file(image, name), stored[name])
  BY <1>1, <1>2, FindFile, Zenon DEF Sound, There
<1>4. load(image, find_file(image, name)) = stored[name]
  BY <1>2, <1>3, ChainedLoads, Zenon
<1>5. ASSUME ~deleted PROVE KernelFind(image, name) = find_file(image, name)
  BY <1>1, <1>2, <1>5, KernelFinds, Zenon DEF Sound
<1> QED BY <1>4, <1>5, Zenon

LEMMA StepInv == ASSUME Inv, [Next]_vars PROVE Inv'
<1>1. CASE Format
  BY <1>1, FormatInv
<1>2. ASSUME NEW name \in Names, Delete(name) PROVE Inv'
  BY <1>2, DeleteInv
<1>3. ASSUME NEW name \in Names, NEW bytes \in Contents, Overwrite(name, bytes) PROVE Inv'
  BY <1>3, OverwriteInv
<1>4. ASSUME NEW name \in Names, NEW bytes \in Contents, Write(name, bytes) PROVE Inv'
  BY <1>4, WriteInv
<1>5. CASE UNCHANGED vars
  <2>1. image' = image /\ stored' = stored /\ astray' = astray /\ deleted' = deleted
    BY <1>5 DEF vars
  <2> QED BY <2>1, Zenon DEF Inv
<1> QED BY <1>1, <1>2, <1>3, <1>4, <1>5, Zenon DEF Next

(* Whatever sequence of runs of the tool, with files that do or do not fit,  *)
(* are overwritten, deleted or stored again: as long as every file had 1 to  *)
(* BUF bytes (its length as a uint16_t), the chains of different files share *)
(* no sector, and every sector of a file is marked, for tables and disks of  *)
(* every size (mfs-util.c, save_to_disk and alloc_block).                    *)
THEOREM SectorsStayDisjoint == Spec => []SectorsDisjoint
BY InitInv, StepInv, InvDisjoint, PTL DEF Spec

(* Whatever the tool was told to store, overwrite and delete in between, -r  *)
(* reads back the bytes last kept under a name, all of them and no others,   *)
(* on disks of any size, full ones included, as long as every file had 1 to  *)
(* BUF bytes: up to there the int16_t and the uint8_t of save_to_disk lose   *)
(* nothing (mfs-util.c, save_to_disk and load_to_memory).                    *)
THEOREM StoredIsReadBack == Spec => []ReadsBack
BY InitInv, StepInv, InvReads, PTL DEF Spec

(* Until a file is deleted the tool fills the table from its start and counts *)
(* each entry once, so that the kernel, which looks at the first filecount    *)
(* entries, finds and loads every file of 1 to BUF bytes the tool has stored. *)
THEOREM KernelLoadsStored == Spec => []KernelLoads
BY InitInv, StepInv, InvReads, PTL DEF Spec
=============================================================================
