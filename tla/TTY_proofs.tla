----------------------------- MODULE TTY_proofs -----------------------------
(***************************************************************************)
(* Proofs about TTY, for every ring of at most 255 slots and both builds.  *)
(***************************************************************************)
EXTENDS TTY, TLAPS

USE RingAssumption

\* Indices run once around the ring at most.
LEMMA Around ==
  \A x \in 0..(2 * Size - 1) : x % Size = IF x < Size THEN x ELSE x - Size
  OBVIOUS

LEMMA Forward ==
  \A t \in Slots, d \in 0..Size : (t + d) % Size \in Slots
  BY Around DEF Slots

\* Different distances from an index lead to different slots.
LEMMA Distinct ==
  \A t \in Slots, d, e \in 0..(Size - 1) : (t + d) % Size = (t + e) % Size => d = e
  BY Around DEF Slots

LEMMA OneFurther ==
  \A t \in Slots, d \in 0..(Size - 1) : (((t + 1) % Size) + d) % Size = (t + (d + 1)) % Size
<1> SUFFICES ASSUME NEW t \in Slots, NEW d \in 0..(Size - 1)
             PROVE  (((t + 1) % Size) + d) % Size = (t + (d + 1)) % Size
  OBVIOUS
<1>1. CASE t + 1 < Size
  <2>1. (t + 1) % Size = t + 1
    BY <1>1, Around DEF Slots
  <2> QED BY <2>1 DEF Slots
<1>2. CASE t + 1 = Size
  <2>1. (t + 1) % Size = 0 /\ d % Size = d
    BY <1>2, Around DEF Slots
  <2>2. (t + (d + 1)) % Size = d
    BY <1>2, Around DEF Slots
  <2> QED BY <2>1, <2>2 DEF Slots
<1> QED BY <1>1, <1>2 DEF Slots

LEMMA ByteSmall == \A x \in 0..255 : x % 256 = x
  OBVIOUS

-----------------------------------------------------------------------------
(* The type invariant in two parts: the flags, and the other variables     *)

FlagTypes ==
    /\ SplitDecrement \in BOOLEAN /\ rdrf \in BOOLEAN /\ ovrn \in BOOLEAN
    /\ pending \in BOOLEAN /\ iff1 \in BOOLEAN

DataTypes ==
    /\ receive \in Chars \cup {NoChar} /\ phase \in {"poll", "clear", "exec"}
    /\ isr \in {"out", "test", "store", "exit"}
    /\ buffer \in [Slots -> Chars \cup {NoChar}]
    /\ head \in Slots /\ tail \in Slots /\ count \in 0..255
    /\ reader \in {"wait", "take", "advance", "decrement", "store", "return"}
    /\ character \in Chars \cup {NoChar} /\ reg \in 0..255
    /\ last \in Chars \cup {NoChar}

LEMMA Types == TypeOK <=> FlagTypes /\ DataTypes
  BY DEF TypeOK, FlagTypes, DataTypes

-----------------------------------------------------------------------------
(* What the handler and the reader know while they are under way           *)

\* Interrupts are off exactly while the handler runs, and it does not store
\* before it has seen a free slot.
IsrSound ==
    /\ iff1 <=> isr = "out"
    /\ isr = "store" => count < Size

\* A request that has outlived its character belongs to a handler that is
\* about to return, and is dropped before it does.
RequestSound ==
    /\ isr \in {"test", "store"} => rdrf
    /\ pending /\ ~rdrf => isr = "exit" /\ phase # "exec"

\* The reader has seen a character and has not counted it off; what it is
\* going to store is the count of some earlier moment less one.
ReaderSound ==
    /\ reader \in {"take", "advance", "decrement"} => count > 0
    /\ reader = "store" => SplitDecrement /\ reg < Size

TtyInv == TypeOK /\ CountBounded /\ IsrSound /\ RequestSound /\ ReaderSound

LEMMA TtyInit == Init => TtyInv
<1> SUFFICES ASSUME Init PROVE TtyInv
  OBVIOUS
<1>1. TypeOK
  <2>1. FlagTypes
    BY Zenon DEF Init, FlagTypes
  <2>2. DataTypes
    BY DEF Init, DataTypes, Slots
  <2> QED BY <2>1, <2>2, Types
<1>2. CountBounded /\ ReaderSound
  BY DEF Init, CountBounded, ReaderSound
<1>3. IsrSound /\ RequestSound
  BY Zenon DEF Init, IsrSound, RequestSound
<1> QED BY <1>1, <1>2, <1>3 DEF TtyInv

LEMMA TtyStep == TtyInv /\ [Next]_vars => TtyInv'
<1> SUFFICES ASSUME TtyInv, [Next]_vars PROVE TtyInv'
  OBVIOUS
<1> USE DEF TtyInv
<1>1. ASSUME NEW c \in Chars, KeyTyped(c) PROVE TtyInv'
  <2>1. TypeOK'
    BY <1>1 DEF KeyTyped, ring, user, TypeOK
  <2>2. CountBounded' /\ IsrSound' /\ ReaderSound'
    BY <1>1 DEF KeyTyped, ring, user, CountBounded, IsrSound, ReaderSound
  <2>3. RequestSound'
    BY <1>1, Zenon DEF KeyTyped, RequestSound
  <2> QED BY <2>1, <2>2, <2>3
<1>2. CASE Poll
  <2>1. TypeOK'
    <3>1. FlagTypes'
      BY <1>2, Types, Zenon DEF Poll, acia, ring, user, FlagTypes
    <3>2. DataTypes'
      BY <1>2, Types DEF Poll, acia, ring, user, DataTypes
    <3> QED BY <3>1, <3>2 DEF TypeOK, FlagTypes, DataTypes
  <2>2. CountBounded' /\ ReaderSound'
    BY <1>2 DEF Poll, acia, ring, user, CountBounded, ReaderSound
  <2>3. IsrSound'
    BY <1>2 DEF Poll, ring, IsrSound
  <2>4. RequestSound'
    BY <1>2 DEF Poll, acia, RequestSound, IsrSound, TypeOK
  <2> QED BY <2>1, <2>2, <2>3, <2>4
<1>3. CASE ClearPending
  <2>1. TypeOK'
    <3>1. FlagTypes'
      BY <1>3, Types, Zenon DEF ClearPending, acia, ring, user, FlagTypes
    <3>2. DataTypes'
      BY <1>3, Types DEF ClearPending, acia, ring, user, DataTypes
    <3> QED BY <3>1, <3>2 DEF TypeOK, FlagTypes, DataTypes
  <2>2. CountBounded' /\ IsrSound' /\ ReaderSound'
    BY <1>3 DEF ClearPending, acia, ring, user, CountBounded, IsrSound, ReaderSound
  <2>3. RequestSound'
    BY <1>3, Zenon DEF ClearPending, acia, RequestSound
  <2> QED BY <2>1, <2>2, <2>3
<1>4. CASE Compute
  <2>1. TypeOK'
    BY <1>4 DEF Compute, Execute, acia, ring, user, TypeOK
  <2>2. CountBounded' /\ IsrSound' /\ ReaderSound'
    BY <1>4 DEF Compute, Execute, acia, ring, user, CountBounded, IsrSound, ReaderSound
  <2>3. RequestSound'
    BY <1>4, Zenon DEF Compute, Execute, acia, RequestSound
  <2> QED BY <2>1, <2>2, <2>3
<1>5. CASE IsrTest
  <2>1. TypeOK'
    BY <1>5 DEF IsrTest, InIsr, Execute, acia, ring, user, TypeOK
  <2>2. CountBounded' /\ IsrSound' /\ ReaderSound'
    BY <1>5 DEF IsrTest, InIsr, Execute, acia, ring, user, CountBounded, IsrSound, ReaderSound
  <2>3. RequestSound'
    BY <1>5 DEF IsrTest, InIsr, Execute, acia, RequestSound
  <2> QED BY <2>1, <2>2, <2>3
<1>6. CASE IsrStore
  <2>1. count' = count + 1 /\ count + 1 <= Size
    BY <1>6, ByteSmall DEF IsrStore, InIsr, IsrSound, TypeOK
  <2>2. TypeOK'
    <3>1. FlagTypes'
      BY <1>6, Types, Zenon DEF IsrStore, InIsr, Execute, user, FlagTypes
    <3>2. head' \in Slots /\ count' \in 0..255
      BY <1>6, <2>1, Forward DEF IsrStore, TypeOK
    <3>3. DataTypes'
      BY <1>6, <3>2 DEF IsrStore, InIsr, Execute, user, TypeOK, DataTypes
    <3> QED BY <3>1, <3>3 DEF TypeOK, FlagTypes, DataTypes
  <2>3. CountBounded' /\ ReaderSound'
    BY <1>6, <2>1 DEF IsrStore, InIsr, Execute, user, CountBounded, ReaderSound, TypeOK
  <2>4. IsrSound' /\ RequestSound'
    BY <1>6, Zenon DEF IsrStore, InIsr, Execute, IsrSound, RequestSound
  <2> QED BY <2>2, <2>3, <2>4
<1>7. CASE IsrExit
  <2>1. TypeOK'
    <3>1. FlagTypes'
      BY <1>7, Types, Zenon DEF IsrExit, InIsr, Execute, acia, ring, user, FlagTypes
    <3>2. DataTypes'
      BY <1>7, Types DEF IsrExit, InIsr, Execute, acia, ring, user, DataTypes
    <3> QED BY <3>1, <3>2 DEF TypeOK, FlagTypes, DataTypes
  <2>2. CountBounded' /\ ReaderSound'
    BY <1>7 DEF IsrExit, InIsr, Execute, ring, user, CountBounded, ReaderSound
  <2>3. IsrSound' /\ RequestSound'
    BY <1>7, Zenon DEF IsrExit, InIsr, Execute, acia, IsrSound, RequestSound
  <2> QED BY <2>1, <2>2, <2>3
<1>8. CASE Reader
  <2>1. /\ isr = "out" /\ phase = "exec" /\ phase' = "poll"
        /\ UNCHANGED <<SplitDecrement, receive, rdrf, ovrn, pending, iff1, isr, buffer, head>>
    BY <1>8 DEF Reader, ReaderWait, ReaderTake, ReaderAdvance, ReaderDecrement, ReaderLoad,
                ReaderStore, ReaderReturn, InReader, Execute, acia, ring
  <2>2. IsrSound' /\ RequestSound'
    BY <2>1 DEF IsrSound, RequestSound
  <2>3. /\ TypeOK' /\ CountBounded' /\ ReaderSound'
    <3> USE <2>1 DEF TypeOK, CountBounded, ReaderSound
    <3>1. CASE ReaderWait \/ ReaderTake \/ ReaderReturn
      BY <3>1 DEF ReaderWait, ReaderTake, ReaderReturn, InReader, ring
    <3>2. CASE ReaderAdvance
      BY <3>2, Forward DEF ReaderAdvance, InReader
    <3>3. CASE ReaderDecrement
      <4>1. count' = count - 1 /\ count > 0
        BY <3>3, ByteSmall DEF ReaderDecrement, InReader
      <4> QED BY <3>3, <4>1 DEF ReaderDecrement, InReader
    <3>4. CASE ReaderLoad
      BY <3>4, ByteSmall DEF ReaderLoad, InReader, ring
    <3>5. CASE ReaderStore
      BY <3>5 DEF ReaderStore, InReader
    <3> QED BY <1>8, <3>1, <3>2, <3>3, <3>4, <3>5 DEF Reader
  <2> QED BY <2>2, <2>3
<1>9. CASE UNCHANGED vars
  BY <1>9 DEF vars, TypeOK, CountBounded, IsrSound, RequestSound, ReaderSound
<1> QED BY <1>1, <1>2, <1>3, <1>4, <1>5, <1>6, <1>7, <1>8, <1>9 DEF Next, Isr

\* Every variable of the driver and the port keeps its type: in particular the
\* indices stay in the ring and the count in a byte.
THEOREM TtyTypeCorrect == Spec => []TypeOK
  BY TtyInit, TtyStep, PTL DEF Spec, TtyInv

\* The handler's test and the reader's wait keep the count between 0 and the
\* size of the ring, also in a build that loads and stores it separately.
THEOREM CountStaysBounded == Spec => []CountBounded
  BY TtyInit, TtyStep, PTL DEF Spec, TtyInv

\* The handler stores only characters that the port has received.
THEOREM NothingSpurious == Spec => []NoSpuriousChar
<1>1. TtyInv => NoSpuriousChar
  BY DEF TtyInv, RequestSound, NoSpuriousChar
<1> QED BY <1>1, TtyInit, TtyStep, PTL DEF Spec

-----------------------------------------------------------------------------
(* The ring, in a build with the one-instruction decrement                 *)

\* The character the reader has taken is still the one at the tail.
TakenSound == reader = "advance" /\ ~SplitDecrement => character = buffer[tail]

RingInv == TtyInv /\ RingConsistent /\ TakenSound

LEMMA RingInit == Init => RingInv
<1> SUFFICES ASSUME Init PROVE RingInv
  OBVIOUS
<1>1. Occupied = 0 /\ Base % Size = Base
  BY Around DEF Init, Occupied
<1>2. RingConsistent /\ TakenSound
  BY <1>1 DEF Init, RingConsistent, TakenSound
<1> QED BY <1>2, TtyInit DEF RingInv

\* A step of the others leaves the ring, the reader and the build alone.
LEMMA RingFrame ==
  ASSUME RingInv, UNCHANGED <<SplitDecrement, buffer, head, tail, count, reader, character, last>>
  PROVE  RingConsistent' /\ TakenSound' /\ Queue' = Queue /\ Out' = Out
<1>1. Occupied' = Occupied
  BY DEF Occupied
<1>2. RingConsistent' /\ TakenSound'
  BY <1>1 DEF RingInv, RingConsistent, TakenSound
<1>3. Queue' = Queue
  BY <1>1 DEF Queue
<1>4. Out' = Out
  BY DEF Out
<1> QED BY <1>2, <1>3, <1>4

LEMMA OccupiedRange ==
  ASSUME RingInv, ~SplitDecrement
  PROVE  /\ Occupied \in 0..Size /\ head = (tail + Occupied) % Size
         /\ Occupied <= count /\ reader # "store"
         /\ reader \in {"take", "advance"} => Occupied > 0
  BY DEF RingInv, RingConsistent, TtyInv, TypeOK, ReaderSound, Occupied

\* The n characters from index t on.
Window(b, t, n) == [k \in 1..n |-> b[(t + k - 1) % Size]]

LEMMA WindowSeq ==
  ASSUME NEW V, NEW b \in [Slots -> V], NEW t \in Slots, NEW n \in 0..Size
  PROVE  Window(b, t, n) \in Seq(V) /\ Len(Window(b, t, n)) = n
<1>1. \A k \in 1..n : (t + k - 1) % Size \in Slots
  <2> SUFFICES ASSUME NEW k \in 1..n PROVE (t + k - 1) % Size \in Slots
    OBVIOUS
  <2>1. k - 1 \in 0..Size /\ t + k - 1 = t + (k - 1)
    BY DEF Slots
  <2>2. (t + (k - 1)) % Size \in Slots
    BY <2>1, Forward
  <2> QED BY <2>1, <2>2
<1>2. \A k \in 1..n : b[(t + k - 1) % Size] \in V
  BY <1>1
<1>3. Window(b, t, n) \in [1..n -> V] /\ n \in Nat
  BY <1>2 DEF Window
<1> QED BY <1>3

\* Two sequences of equal length with equal elements are equal.
LEMMA SameSeq ==
  ASSUME NEW V, NEW p \in Seq(V), NEW q \in Seq(V), Len(p) = Len(q),
         \A k \in 1..Len(p) : p[k] = q[k]
  PROVE  p = q
  OBVIOUS

\* b2 is b with c in the slot behind a window that is not the whole ring.
Behind(V, b, t, n, c, b2) ==
    /\ b \in [Slots -> V] /\ t \in Slots /\ n \in 0..(Size - 1) /\ c \in V
    /\ b2 = [b EXCEPT ![(t + n) % Size] = c]

\* Writing the slot behind the window makes it one longer.
LEMMA WindowAppend ==
  ASSUME NEW V, NEW b, NEW t, NEW n, NEW c, NEW b2, Behind(V, b, t, n, c, b2)
  PROVE  Window(b2, t, n + 1) = Append(Window(b, t, n), c)
<1> DEFINE p  == Window(b2, t, n + 1)
           w  == Window(b, t, n)
           q  == Append(w, c)
<1> USE DEF Behind
<1>1. (t + n) % Size \in Slots /\ b2 \in [Slots -> V]
  BY Forward
<1>2. p \in Seq(V) /\ Len(p) = n + 1
  <2>1. n + 1 \in 0..Size
    OBVIOUS
  <2>2. \A f \in [Slots -> V] :
           Window(f, t, n + 1) \in Seq(V) /\ Len(Window(f, t, n + 1)) = n + 1
    BY <2>1, WindowSeq, Zenon
  <2> QED BY <1>1, <2>2
<1>3. w \in Seq(V) /\ Len(w) = n
  <2>1. n \in 0..Size
    OBVIOUS
  <2> QED BY <2>1, WindowSeq, Zenon
<1>4. q \in Seq(V) /\ Len(q) = n + 1
  BY <1>3
<1>5. ASSUME NEW k \in 1..(n + 1) PROVE p[k] = q[k]
  <2>1. p[k] = b2[(t + k - 1) % Size]
    BY DEF Window
  <2>2. CASE k = n + 1
    <3>1. t + k - 1 = t + n
      BY <2>2 DEF Slots
    <3>2. p[k] = c
      BY <1>1, <2>1, <3>1
    <3>3. q[k] = c
      BY <1>3, <2>2
    <3> QED BY <3>2, <3>3
  <2>3. CASE k # n + 1
    <3>1. k \in 1..n /\ k - 1 \in 0..(Size - 1) /\ k - 1 # n /\ t + k - 1 = t + (k - 1)
      BY <2>3 DEF Slots
    <3>2. (t + (k - 1)) % Size # (t + n) % Size /\ (t + (k - 1)) % Size \in Slots
      BY <3>1, Distinct, Forward
    <3>3. p[k] = b[(t + k - 1) % Size]
      BY <1>1, <2>1, <3>1, <3>2
    <3>4. w[k] = b[(t + k - 1) % Size]
      BY <3>1 DEF Window
    <3>5. q[k] = w[k]
      BY <1>3, <3>1
    <3> QED BY <3>3, <3>4, <3>5
  <2> QED BY <2>2, <2>3
<1> HIDE DEF p, q
<1>6. p = q
  BY <1>2, <1>4, <1>5, SameSeq
<1> QED BY <1>6 DEF p, q

\* Advancing the tail takes the first character of the window away.
LEMMA WindowTail ==
  ASSUME NEW V, NEW b \in [Slots -> V], NEW t \in Slots, NEW n \in 1..Size
  PROVE  /\ Window(b, t, n) # <<>> /\ Head(Window(b, t, n)) = b[t]
         /\ Tail(Window(b, t, n)) = Window(b, (t + 1) % Size, n - 1)
<1> DEFINE w == Window(b, t, n)
           p == Window(b, (t + 1) % Size, n - 1)
           q == Tail(w)
<1>1. w \in Seq(V) /\ Len(w) = n
  BY WindowSeq
<1>2. (t + 1) % Size \in Slots
  BY Forward
<1>3. p \in Seq(V) /\ Len(p) = n - 1
  <2>1. n - 1 \in 0..Size
    OBVIOUS
  <2> QED BY <1>2, <2>1, WindowSeq, Zenon
<1>4. w # <<>> /\ q \in Seq(V) /\ Len(q) = n - 1
  BY <1>1
<1>5. Head(w) = b[t]
  <2>1. t + 1 - 1 = t /\ t % Size = t
    BY Around DEF Slots
  <2>2. w[1] = b[t]
    BY <2>1 DEF Window
  <2> QED BY <1>1, <2>2
<1>6. ASSUME NEW k \in 1..(n - 1) PROVE q[k] = p[k]
  <2>1. q[k] = w[k + 1]
    BY <1>1
  <2>2. w[k + 1] = b[(t + (k + 1) - 1) % Size]
    BY DEF Window
  <2>3. p[k] = b[(((t + 1) % Size) + k - 1) % Size]
    BY DEF Window
  <2>4. k - 1 \in 0..(Size - 1) /\ (k - 1) + 1 = k /\ t + (k + 1) - 1 = t + k
    BY DEF Slots
  <2>5. (((t + 1) % Size) + (k - 1)) % Size = (t + ((k - 1) + 1)) % Size
    BY <2>4, OneFurther
  <2>6. ((t + 1) % Size) + k - 1 = ((t + 1) % Size) + (k - 1)
    BY <1>2 DEF Slots
  <2> QED BY <2>1, <2>2, <2>3, <2>4, <2>5, <2>6
<1> HIDE DEF p, q
<1>7. q = p
  BY <1>3, <1>4, <1>6, SameSeq
<1> QED BY <1>4, <1>5, <1>7 DEF p, q

\* One slot further than some distance is one more of distance.
LEMMA StepOn ==
  \A t \in Slots, d \in 0..(Size - 1) : (((t + d) % Size) + 1) % Size = (t + (d + 1)) % Size
<1> SUFFICES ASSUME NEW t \in Slots, NEW d \in 0..(Size - 1)
             PROVE  (((t + d) % Size) + 1) % Size = (t + (d + 1)) % Size
  OBVIOUS
<1>1. CASE t + d < Size
  <2>1. (t + d) % Size = t + d
    BY <1>1, Around DEF Slots
  <2>2. t + d + 1 = t + (d + 1)
    BY DEF Slots
  <2> QED BY <2>1, <2>2
<1>2. CASE t + d >= Size
  <2>1. (t + d) % Size = t + d - Size
    BY <1>2, Around DEF Slots
  <2>2. t + d - Size + 1 \in 0..(Size - 1)
    BY <1>2 DEF Slots
  <2>3. (t + d - Size + 1) % Size = t + d - Size + 1
    BY <2>2, Around
  <2>4. (t + (d + 1)) % Size = t + (d + 1) - Size
    BY <1>2, <2>2, Around DEF Slots
  <2>5. t + d - Size + 1 = t + (d + 1) - Size
    BY DEF Slots
  <2> QED BY <2>1, <2>3, <2>4, <2>5
<1> QED BY <1>1, <1>2 DEF Slots

LEMMA QueueIsWindow == Queue = Window(buffer, tail, Occupied)
  BY DEF Queue, Window

\* The handler puts a character behind the last one.
LEMMA StorePuts ==
  ASSUME RingInv, IsrStore
  PROVE  RingConsistent' /\ TakenSound' /\ (SplitDecrement \/ CQ!Put(receive))
<1>1. CASE SplitDecrement
  BY <1>1 DEF IsrStore, InIsr, Execute, RingConsistent, TakenSound
<1>2. CASE ~SplitDecrement
  <2>1. /\ Occupied \in 0..(Size - 1) /\ head = (tail + Occupied) % Size
        /\ reader \in {"take", "advance"} => Occupied > 0
    BY <1>2, OccupiedRange DEF IsrStore, InIsr, RingInv, TtyInv, IsrSound, TypeOK
  <2>2. /\ tail \in Slots /\ head \in Slots /\ buffer \in [Slots -> Chars \cup {NoChar}]
        /\ receive \in Chars \cup {NoChar} /\ count \in 0..255
    BY DEF RingInv, TtyInv, TypeOK
  <2>3. count' = count + 1
    BY <2>2, ByteSmall DEF IsrStore, InIsr, RingInv, TtyInv, IsrSound
  <2>4. /\ tail' = tail /\ UNCHANGED <<SplitDecrement, reader, character, last>>
        /\ head' = (head + 1) % Size /\ buffer' = [buffer EXCEPT ![head] = receive]
    BY DEF IsrStore, InIsr, Execute, user
  <2>5. Occupied' = Occupied + 1
    BY <2>2, <2>3, <2>4 DEF Occupied
  <2>6. head' = (tail + (Occupied + 1)) % Size
    BY <2>1, <2>2, <2>4, StepOn
  <2>7. RingConsistent'
    BY <2>1, <2>4, <2>5, <2>6 DEF RingConsistent
  <2>8. TakenSound'
    <3> SUFFICES ASSUME reader' = "advance" PROVE character' = buffer'[tail']
      BY DEF TakenSound
    <3>1. reader = "advance" /\ Occupied > 0 /\ character = buffer[tail]
      BY <1>2, <2>1, <2>4 DEF RingInv, TakenSound
    <3>2. (tail + 0) % Size = tail
      BY <2>2, Around DEF Slots
    <3>3. tail # head
      BY <2>1, <2>2, <3>1, <3>2, Distinct
    <3> QED BY <2>2, <2>4, <3>1, <3>3
  <2>9. Queue' = Append(Queue, receive)
    <3>1. Queue' = Window(buffer', tail', Occupied')
      BY DEF Queue, Window
    <3>2. Behind(Chars \cup {NoChar}, buffer, tail, Occupied, receive, buffer')
      BY <2>1, <2>2, <2>4 DEF Behind
    <3>3. Window(buffer', tail, Occupied + 1) = Append(Window(buffer, tail, Occupied), receive)
      BY <3>2, WindowAppend
    <3> QED BY <2>4, <2>5, <3>1, <3>3, QueueIsWindow
  <2>10. Len(Queue) < Size
    <3>1. Occupied \in 0..Size
      BY <2>1
    <3>2. Len(Queue) = Occupied
      BY <2>2, <3>1, WindowSeq, QueueIsWindow, Zenon
    <3> QED BY <2>1, <3>2
  <2>11. Out' = Out
    BY <2>4 DEF Out
  <2> QED BY <2>7, <2>8, <2>9, <2>10, <2>11 DEF CQ!Put
<1> QED BY <1>1, <1>2

\* Advancing the tail is the moment at which the reader gets the character.
LEMMA AdvanceGets ==
  ASSUME RingInv, ReaderAdvance
  PROVE  RingConsistent' /\ TakenSound' /\ (SplitDecrement \/ CQ!Get)
<1>1. CASE SplitDecrement
  BY <1>1 DEF ReaderAdvance, InReader, Execute, RingConsistent, TakenSound
<1>2. CASE ~SplitDecrement
  <2>1. /\ Occupied \in 1..Size /\ head = (tail + Occupied) % Size
        /\ character = buffer[tail] /\ Occupied = count
    <3>1. reader = "advance"
      BY DEF ReaderAdvance, InReader
    <3> QED BY <1>2, <3>1, OccupiedRange DEF RingInv, TakenSound, Occupied
  <2>2. /\ tail \in Slots /\ buffer \in [Slots -> Chars \cup {NoChar}]
    BY DEF RingInv, TtyInv, TypeOK
  <2>3. /\ tail' = (tail + 1) % Size /\ reader' = "decrement"
        /\ UNCHANGED <<SplitDecrement, buffer, head, count, character>>
    BY DEF ReaderAdvance, InReader, Execute
  <2>4. Occupied' = Occupied - 1
    BY <2>1, <2>3 DEF Occupied
  <2>5. Occupied - 1 \in 0..(Size - 1) /\ (Occupied - 1) + 1 = Occupied
    BY <2>1
  <2>6. head' = (tail' + (Occupied - 1)) % Size
    BY <2>1, <2>2, <2>3, <2>5, OneFurther
  <2>7. RingConsistent' /\ TakenSound'
    BY <2>3, <2>4, <2>5, <2>6 DEF RingConsistent, TakenSound
  <2>8. Queue # <<>> /\ Head(Queue) = buffer[tail]
        /\ Tail(Queue) = Window(buffer, (tail + 1) % Size, Occupied - 1)
    BY <2>1, <2>2, WindowTail, QueueIsWindow, Zenon
  <2>9. Queue' = Window(buffer', tail', Occupied')
    BY DEF Queue, Window
  <2>10. Queue' = Tail(Queue)
    BY <2>3, <2>4, <2>8, <2>9
  <2>11. Out' = Head(Queue)
    BY <2>1, <2>3, <2>8 DEF Out
  <2> QED BY <2>7, <2>8, <2>10, <2>11 DEF CQ!Get
<1> QED BY <1>1, <1>2

\* The other steps of the reader leave the queue and its last character alone.
LEMMA ReaderKeeps ==
  ASSUME RingInv, Reader, ~ReaderAdvance
  PROVE  RingConsistent' /\ TakenSound' /\ (SplitDecrement \/ (Queue' = Queue /\ Out' = Out))
<1>1. /\ UNCHANGED <<SplitDecrement, buffer, head, tail>>
  BY DEF Reader, ReaderWait, ReaderTake, ReaderDecrement, ReaderLoad,
         ReaderStore, ReaderReturn, InReader, Execute, ring
<1>2. TypeOK /\ ReaderSound
  BY DEF RingInv, TtyInv
<1>3. CASE SplitDecrement
  BY <1>1, <1>3 DEF RingConsistent, TakenSound
<1>4. CASE ~SplitDecrement
  <2>1. reader # "store"
    BY <1>4, OccupiedRange
  <2>2. /\ Occupied' = Occupied /\ Out' = Out
        /\ reader' = "advance" => character' = buffer[tail]
    <3>1. CASE ReaderWait
      BY <3>1 DEF ReaderWait, InReader, ring, Occupied, Out
    <3>2. CASE ReaderTake
      BY <3>2 DEF ReaderTake, InReader, ring, Occupied, Out
    <3>3. CASE ReaderDecrement
      <4>1. count' = count - 1
        BY <1>2, <3>3, ByteSmall DEF ReaderDecrement, InReader, TypeOK, ReaderSound
      <4> QED BY <3>3, <4>1 DEF ReaderDecrement, InReader, Occupied, Out
    <3>4. CASE ReaderLoad
      BY <1>4, <3>4 DEF ReaderLoad
    <3>5. CASE ReaderStore
      BY <2>1, <3>5 DEF ReaderStore, InReader
    <3>6. CASE ReaderReturn
      BY <3>6 DEF ReaderReturn, InReader, ring, Occupied, Out
    <3> QED BY <3>1, <3>2, <3>3, <3>4, <3>5, <3>6 DEF Reader
  <2>3. RingConsistent' /\ TakenSound'
    BY <1>1, <1>4, <2>2 DEF RingInv, RingConsistent, TakenSound
  <2>4. Queue' = Queue
    BY <1>1, <2>2 DEF Queue
  <2> QED BY <2>2, <2>3, <2>4
<1> QED BY <1>3, <1>4

\* Every step keeps the ring consistent and is a step of the queue, or none.
LEMMA RingStep ==
  ASSUME RingInv, [Next]_vars
  PROVE  RingInv' /\ [SplitDecrement \/ CQ!Next]_<<Queue, Out>>
<1>1. TtyInv'
  BY TtyStep DEF RingInv
<1> SUFFICES /\ RingConsistent' /\ TakenSound'
             /\ SplitDecrement \/ CQ!Next \/ (Queue' = Queue /\ Out' = Out)
  BY <1>1, Zenon DEF RingInv
<1>2. CASE (\E c \in Chars : KeyTyped(c)) \/ Poll \/ ClearPending \/ Compute
           \/ IsrTest \/ IsrExit \/ UNCHANGED vars
  <2>1. UNCHANGED <<SplitDecrement, buffer, head, tail, count, reader, character, last>>
    BY <1>2 DEF KeyTyped, Poll, ClearPending, Compute, Execute, IsrTest, IsrExit, InIsr,
                ring, user, vars
  <2> QED BY <2>1, RingFrame, Zenon
<1>3. CASE IsrStore
  <2>1. receive \in Chars \cup {NoChar}
    BY DEF RingInv, TtyInv, TypeOK
  <2> QED BY <1>3, <2>1, StorePuts, Zenon DEF CQ!Next
<1>4. CASE ReaderAdvance
  BY <1>4, AdvanceGets, Zenon DEF CQ!Next
<1>5. CASE Reader /\ ~ReaderAdvance
  BY <1>5, ReaderKeeps, Zenon
<1> QED BY <1>2, <1>3, <1>4, <1>5, Zenon DEF Next, Isr, Reader

\* In a build with the one-instruction decrement the count, less the character
\* the reader has passed, is the distance from the tail to the head.
THEOREM RingStaysConsistent == Spec => []RingConsistent
  BY RingInit, RingStep, PTL DEF Spec, RingInv

\* In such a build the handler and the reader together implement a bounded FIFO
\* queue, whatever the keyboard and the interrupts do between their steps.
THEOREM RingImplementsQueue == Spec => ImplementsQueue
<1>1. Init => SplitDecrement \/ CQ!Init
  <2> SUFFICES ASSUME Init PROVE CQ!Init
    OBVIOUS
  <2>1. Occupied = 0 /\ Out = NoChar
    BY DEF Init, Occupied, Out
  <2>2. Queue = <<>>
    BY <2>1 DEF Queue
  <2> QED BY <2>1, <2>2 DEF CQ!Init
<1> QED BY <1>1, RingInit, RingStep, PTL DEF Spec, ImplementsQueue
=============================================================================
