---------------------------- MODULE MemoryProofs ----------------------------
(***************************************************************************)
(* That write_memory, which writes whole words and completes the last one  *)
(* with what it reads, spoils nothing, and that read_memory_without_traps  *)
(* shows the program, for every size of words and pages, every protection  *)
(* and every set of sites, as long as a word is not longer than a page.    *)
(***************************************************************************)
EXTENDS Memory, TLAPS

\* x64: words of 8 bytes, pages of 4096.
WordFitsInPage == Word <= Page

(***************************************************************************)
(* Arithmetic of words and pages.                                          *)
(***************************************************************************)
LEMMA Division ==
    ASSUME NEW d \in Nat, NEW w \in Nat \ {0}
    PROVE  /\ d \div w \in Nat /\ d = w * (d \div w) + (d % w)
           /\ d % w \in 0 .. w - 1 /\ d % w <= d
  OBVIOUS

LEMMA Monotone ==
    ASSUME NEW d \in Nat, NEW e \in Nat, d <= e, NEW w \in Nat \ {0}
    PROVE  d \div w <= e \div w
  OBVIOUS

LEMMA AtMostNext ==
    ASSUME NEW d \in Nat, NEW e \in Nat, NEW w \in Nat \ {0}, e < d + w
    PROVE  e \div w <= d \div w + 1
  OBVIOUS

\* Where a word of the loop begins.
LEMMA ChunkBegins ==
    ASSUME NEW d \in Nat, NEW w \in Nat \ {0}
    PROVE  /\ d - (d % w) \in 0 .. d /\ d < d - (d % w) + w
           /\ (d - (d % w)) % w = 0
<1>1. d - (d % w) \in 0 .. d /\ d < d - (d % w) + w
  BY Division
<1> DEFINE k == d - (d % w)
           q == d \div w
           r == k \div w
<1>2. k = w * q /\ q \in Nat
  BY Division
<1>3. k \in Nat
  BY <1>1
<1>4. k = w * r + (k % w) /\ r \in Nat /\ k % w \in 0 .. w - 1
  BY <1>3, Division
<1> HIDE DEF k, q, r
<1>5. w * (q - r) = k % w
  BY <1>2, <1>4
<1>6. q - r <= 0
  <2>1. SUFFICES ASSUME q - r >= 1 PROVE FALSE
    BY <1>2, <1>4
  <2>2. w * (q - r) >= w
    BY <2>1, <1>2, <1>4
  <2> QED BY <2>2, <1>5, <1>4
<1>7. q - r >= 0
  <2>1. SUFFICES ASSUME q - r <= -1 PROVE FALSE
    BY <1>2, <1>4
  <2>2. w * (q - r) <= -w
    BY <2>1, <1>2, <1>4
  <2> QED BY <2>2, <1>5, <1>4
<1>8. k % w = 0
  BY <1>2, <1>4, <1>5, <1>6, <1>7
<1> QED BY <1>1, <1>8 DEF k

\* A page that may be read is one of the tracee's.
LEMMA ReadableIsMapped ==
    ASSUME NEW x \in Nat, PageOf(x) \in PokeablePages
    PROVE  x \in Addr
<1>1. Size \in Nat \ {0} /\ Page \in Nat \ {0}
  BY SizeAssumption
<1>2. PICK y \in Addr : x \div Page = y \div Page
  BY PagesAssumption DEF PageOf
<1> DEFINE p == y \div Page
           s == Size \div Page
<1>3. y \in Nat /\ y < Size
  BY <1>1 DEF Addr
<1>4. p \in Nat /\ Page * p <= y /\ x < Page * p + Page
  <2>1. p \in Nat /\ y = Page * p + (y % Page) /\ y % Page \in 0 .. Page - 1
    BY <1>1, <1>3, Division
  <2>2. x = Page * (x \div Page) + (x % Page) /\ x % Page \in 0 .. Page - 1
    BY <1>1, Division
  <2>3. x = Page * p + (x % Page)
    BY <1>2, <2>2
  <2> HIDE DEF p
  <2> DEFINE m == Page * p
             f == x % Page
             e == y % Page
  <2>4. m \in Nat
    BY <1>1, <2>1
  <2>5. y = m + e /\ x = m + f /\ e \in 0 .. Page - 1 /\ f \in 0 .. Page - 1
    BY <2>1, <2>2, <2>3
  <2> HIDE DEF m, f, e
  <2>6. m <= y /\ x < m + Page
    BY <1>1, <2>4, <2>5
  <2> QED BY <2>1, <2>6 DEF m
<1>5. s \in Nat /\ Size = Page * s
  <2>1. Size % Page = 0
    BY PagesAssumption
  <2>2. s \in Nat /\ Size = Page * s + (Size % Page)
    BY <1>1, Division
  <2> HIDE DEF s
  <2> QED BY <1>1, <2>1, <2>2
<1> HIDE DEF p, s
<1>6. p < s
  <2>1. SUFFICES ASSUME p >= s PROVE FALSE
    BY <1>4, <1>5
  <2>2. Page * p >= Page * s
    BY <2>1, <1>1, <1>4, <1>5
  <2> QED BY <2>2, <1>1, <1>3, <1>4, <1>5
<1>7. Page * (p + 1) <= Page * s
  BY <1>1, <1>4, <1>5, <1>6
<1>8. x < Size
  BY <1>1, <1>4, <1>5, <1>7
<1> QED BY <1>8, <1>1 DEF Addr

\* Of the pages that a word touches there is none between the first and the last.
LEMMA WordInTwoPages ==
    ASSUME WordFitsInPage, NEW b \in Nat, NEW x \in Nat, b <= x, x < b + Word,
           PageOf(b) \in ReadablePages, PageOf(x) \in ReadablePages
    PROVE  ReadsUpTo(b, x)
<1>1. SUFFICES ASSUME NEW y \in b .. x PROVE PageOf(y) \in ReadablePages
  BY DEF ReadsUpTo
<1>2. Page \in Nat \ {0} /\ Word \in Nat /\ x < b + Page
  BY SizeAssumption DEF WordFitsInPage
<1>3. y \in Nat /\ b <= y /\ y <= x
  OBVIOUS
<1>4. PageOf(b) <= PageOf(y) /\ PageOf(y) <= PageOf(x) /\ PageOf(x) <= PageOf(b) + 1
  BY <1>2, <1>3, Monotone, AtMostNext DEF PageOf
<1>5. PageOf(b) \in Nat /\ PageOf(y) \in Nat /\ PageOf(x) \in Nat
  BY <1>2, <1>3, Division DEF PageOf
<1>6. PageOf(y) = PageOf(b) \/ PageOf(y) = PageOf(x)
  BY <1>4, <1>5
<1> QED BY <1>6

(***************************************************************************)
(* The inductive invariant: a site that is enabled has saved a byte.       *)
(***************************************************************************)
SavedIsByte == \A x \in SiteAddrs : sites[x] = "enabled" => saved[x] \in Bytes

MInv == TypeOK /\ SavedIsByte /\ TrapsStay

LEMMA Constants ==
    /\ Size \in Nat /\ Word \in Nat \ {0} /\ Page \in Nat \ {0}
    /\ Addr \subseteq Nat /\ SiteAddrs \subseteq Addr
    /\ Int3 \in Bytes /\ Zero \in Bytes /\ Data \subseteq Bytes /\ None \notin Bytes
<1>1. Size \in Nat /\ Word \in Nat \ {0} /\ Page \in Nat \ {0}
  BY SizeAssumption
<1> QED BY <1>1, BytesAssumption, SitesAssumption DEF Addr, Data

\* The word of the loop that an address belongs to.
LEMMA ChunkOfAddress ==
    ASSUME NEW a \in Addr, NEW n \in Nat, NEW x \in Nat, x >= a, ChunkOf(a, x) \in Poked(a, n)
    PROVE  \E k \in 0 .. n - 1 :
              /\ k = ChunkOf(a, x) /\ k \in Poked(a, n)
              /\ x - a - k \in 0 .. Word - 1 /\ ~ReadFails(a, n, k)
<1> DEFINE k == (x - a) - ((x - a) % Word)
<1>1. a \in Nat /\ x - a \in Nat /\ Word \in Nat \ {0}
  BY Constants
<1>2. k \in 0 .. x - a /\ x - a < k + Word
  BY <1>1, ChunkBegins
<1>3. k = ChunkOf(a, x)
  BY DEF ChunkOf
<1> HIDE DEF k
<1>4. k \in 0 .. n - 1 /\ ~ReadFails(a, n, k)
  BY <1>3 DEF Poked, Chunks
<1>5. x - a - k \in 0 .. Word - 1
  BY <1>1, <1>2
<1> QED BY <1>3, <1>4, <1>5

\* What one written byte of a write is: the user's in the range, and behind it what was there.
LEMMA WriteIsExact ==
    ASSUME WordFitsInPage, TypeOK,
           NEW a \in Addr, NEW n \in Nat, NEW data \in [0 .. n - 1 -> Data],
           write_memory(a, n, data), NEW x \in Addr
    PROVE  /\ mem'[x] \in Bytes
           /\ x \in Reached(a, n) => mem'[x] = data[x - a] /\ x - a \in 0 .. n - 1
           /\ x \notin Reached(a, n) /\ PageOf(x) \in ReadablePages => mem'[x] = mem[x]
           /\ x \notin Reached(a, n) /\ x < a + n => mem'[x] = mem[x]
<1>1. a \in Nat /\ x \in Nat /\ Word \in Nat \ {0} /\ mem[x] \in Bytes
  BY Constants DEF TypeOK
<1>2. CASE x \in Stored(a, n)
  <2>0. x >= a /\ ChunkOf(a, x) \in Poked(a, n)
    BY <1>2 DEF Stored
  <2>1. PICK j \in 0 .. n - 1 : /\ j = ChunkOf(a, x) /\ j \in Poked(a, n)
                                /\ x - a - j \in 0 .. Word - 1 /\ ~ReadFails(a, n, j)
    BY <1>1, <2>0, ChunkOfAddress
  <2>2. mem'[x] = word(a, n, data, j)[x - a - j]
    BY <1>2, <2>1 DEF write_memory
  <2>3. mem'[x] = IF j + (x - a - j) < n THEN data[j + (x - a - j)]
                  ELSE read_memory(a + j, Word)[x - a - j]
    BY <2>1, <2>2 DEF word
  <2>4. j + (x - a - j) = x - a /\ a + j + (x - a - j) = x
    BY <1>1, <2>1
  <2>5. CASE x - a < n
    <3>1. x - a \in 0 .. n - 1 /\ mem'[x] = data[x - a]
      BY <1>1, <2>0, <2>3, <2>4, <2>5
    <3>2. x \in Reached(a, n)
      BY <1>1, <1>2, <3>1 DEF Reached
    <3> QED BY <3>1, <3>2, Constants
  <2>6. CASE ~(x - a < n)
    <3>1. x \notin Reached(a, n) /\ ~(x < a + n)
      BY <1>1, <2>6 DEF Reached
    <3>2. mem'[x] = IF ReadsUpTo(a + j, x) THEN mem[x] ELSE Zero
      BY <2>1, <2>3, <2>4, <2>6 DEF read_memory
    <3>3. PageOf(x) \in ReadablePages => ReadsUpTo(a + j, x)
      <4>1. n - j < Word
        BY <1>1, <2>1, <2>6
      <4>2. PageOf(a + j) \in ReadablePages
        BY <2>1, <4>1, Constants DEF ReadFails, read_fails
      <4>3. a + j \in Nat /\ a + j <= x /\ x < a + j + Word
        BY <1>1, <2>1
      <4> QED BY <1>1, <4>2, <4>3, WordInTwoPages
    <3> QED BY <1>1, <3>1, <3>2, <3>3, Constants
  <2> QED BY <2>5, <2>6
<1>3. CASE x \notin Stored(a, n)
  <2>1. mem'[x] = mem[x]
    BY <1>3 DEF write_memory
  <2>2. x \notin Reached(a, n)
    BY <1>3 DEF Reached
  <2> QED BY <1>1, <2>1, <2>2
<1> QED BY <1>2, <1>3

-----------------------------------------------------------------------------
LEMMA InitMInv == Init => MInv
<1> SUFFICES ASSUME Init PROVE MInv
  OBVIOUS
<1> USE DEF Init
<1>1. TypeOK
  BY Constants DEF TypeOK
<1>2. SavedIsByte /\ TrapsStay
  BY DEF SavedIsByte, TrapsStay, Enabled
<1> QED BY <1>1, <1>2 DEF MInv

LEMMA WriteKeeps ==
    ASSUME WordFitsInPage, MInv, NEW a \in Addr, NEW n \in 1 .. MaxLength,
           NEW data \in [0 .. n - 1 -> Data], Write(a, n, data)
    PROVE  MInv'
<1>1. n \in Nat /\ TypeOK
  BY DEF MInv
<1>2. write_memory(a, n, data) /\ UNCHANGED <<sites, saved>>
  BY DEF Write
<1>3. \A x \in Addr :
        /\ mem'[x] \in Bytes
        /\ x \in Reached(a, n) => mem'[x] = data[x - a] /\ x - a \in 0 .. n - 1
        /\ x \notin Reached(a, n) /\ PageOf(x) \in ReadablePages => mem'[x] = mem[x]
  BY <1>1, <1>2, WriteIsExact
<1>4. \A x \in Addr : prog'[x] = IF x \in Reached(a, n) THEN data[x - a] ELSE prog[x]
  BY DEF Write
<1>5. spoiled' = (spoiled \ Reached(a, n)) \union
                     {x \in Reached(a, n) \intersect SiteAddrs : sites[x] = "enabled"}
  BY DEF Write
<1>6. TypeOK'
  <2>1. mem' \in [Addr -> Bytes]
    <3>1. mem' = [x \in Addr |-> mem'[x]]
      BY <1>2 DEF write_memory
    <3> QED BY <3>1, <1>3
  <2>2. prog' \in [Addr -> Bytes]
    <3>1. prog' = [x \in Addr |-> prog'[x]]
      BY DEF Write
    <3>2. \A x \in Addr : prog'[x] \in Bytes
      BY <1>1, <1>3, <1>4, Constants DEF TypeOK
    <3> QED BY <3>1, <3>2
  <2> QED BY <2>1, <2>2, <1>1, <1>2, <1>5 DEF TypeOK
<1>7. SavedIsByte'
  BY <1>2 DEF MInv, SavedIsByte
<1>8. TrapsStay'
  <2> SUFFICES ASSUME NEW x \in Addr \ spoiled', PageOf(x) \in ReadablePages
               PROVE  IF Enabled(x) THEN mem'[x] = Int3 /\ saved[x] = prog'[x]
                                    ELSE mem'[x] = prog'[x]
    BY <1>2 DEF TrapsStay, Enabled
  <2>1. CASE x \in Reached(a, n)
    BY <2>1, <1>3, <1>4, <1>5 DEF Enabled
  <2>2. CASE x \notin Reached(a, n)
    <3>1. x \notin spoiled /\ mem'[x] = mem[x] /\ prog'[x] = prog[x]
      BY <2>2, <1>3, <1>4, <1>5
    <3> QED BY <3>1 DEF MInv, TrapsStay
  <2> QED BY <2>1, <2>2
<1> QED BY <1>6, <1>7, <1>8 DEF MInv

LEMMA SiteKeeps ==
    ASSUME MInv, NEW a \in SiteAddrs,
           Create(a) \/ Enable(a) \/ Disable(a, "disabled") \/ Disable(a, "absent")
    PROVE  MInv'
<1> USE DEF MInv, TypeOK
<1>0. a \in Addr
  BY Constants
<1>1. CASE Create(a)
  <2>1. TypeOK' /\ SavedIsByte'
    BY <1>1 DEF Create, SavedIsByte
  <2>2. TrapsStay'
    BY <1>1 DEF Create, TrapsStay, Enabled
  <2> QED BY <2>1, <2>2
<1>2. CASE Enable(a)
  <2>1. TypeOK' /\ SavedIsByte'
    BY <1>0, <1>2, Constants DEF Enable, SavedIsByte
  <2>2. TrapsStay'
    BY <1>0, <1>2 DEF Enable, TrapsStay, Enabled
  <2> QED BY <2>1, <2>2
<1>3. ASSUME NEW next \in {"disabled", "absent"}, Disable(a, next) PROVE MInv'
  <2>1. sites[a] = "enabled" => saved[a] \in Bytes
    BY DEF SavedIsByte
  <2>2. TypeOK' /\ SavedIsByte'
    BY <1>0, <1>3, <2>1 DEF Disable, restore, SavedIsByte
  <2>3. TrapsStay'
    BY <1>0, <1>3 DEF Disable, restore, TrapsStay, Enabled
  <2> QED BY <2>2, <2>3
<1> QED BY <1>1, <1>2, <1>3

LEMMA StoreKeeps ==
    ASSUME MInv, NEW x \in Addr, NEW byte \in Data, Store(x, byte)
    PROVE  MInv'
<1>1. TypeOK' /\ SavedIsByte'
  BY Constants DEF MInv, TypeOK, Store, SavedIsByte
<1>2. TrapsStay'
  BY DEF MInv, TypeOK, Store, TrapsStay, Enabled
<1> QED BY <1>1, <1>2 DEF MInv

LEMMA MInvariance == ASSUME WordFitsInPage PROVE Spec => []MInv
<1>1. Init => MInv
  BY InitMInv
<1>2. MInv /\ [Next]_vars => MInv'
  <2> SUFFICES ASSUME MInv, [Next]_vars PROVE MInv'
    OBVIOUS
  <2>1. CASE UNCHANGED vars
    BY <2>1 DEF vars, MInv, TypeOK, SavedIsByte, TrapsStay, Enabled
  <2>2. CASE Next
    BY <2>2, WriteKeeps, SiteKeeps, StoreKeeps DEF Next
  <2> QED BY <2>1, <2>2
<1> QED BY <1>1, <1>2, PTL DEF Spec

\* Bytes stay bytes: what disable() restores has been saved.
THEOREM TypeCorrect == ASSUME WordFitsInPage PROVE Spec => []TypeOK
<1>1. MInv => TypeOK
  BY DEF MInv
<1> QED BY <1>1, MInvariance, PTL

\* write_memory changes the range that it is given and nothing else, and the traps survive it.
THEOREM TrapsStayCorrect == ASSUME WordFitsInPage PROVE Spec => []TrapsStay
<1>1. MInv => TrapsStay
  BY DEF MInv
<1> QED BY <1>1, MInvariance, PTL

\* The disassembler is given the program's bytes, whatever the range.
THEOREM TrapsAreHiddenCorrect == ASSUME WordFitsInPage PROVE Spec => []TrapsAreHidden
<1>1. MInv => TrapsAreHidden
  <2> SUFFICES ASSUME MInv, NEW a \in Addr, NEW n \in 1 .. MaxLength, NEW i \in 0 .. n - 1,
                      ReadsUpTo(a, a + i), a + i \notin spoiled
               PROVE  read_memory_without_traps(a, n)[i] = prog[a + i]
    BY DEF TrapsAreHidden
  <2>1. a \in Nat /\ i \in Nat /\ n \in Nat /\ i < n
    BY Constants
  <2>2. PageOf(a + i) \in ReadablePages
    BY <2>1 DEF ReadsUpTo
  <2>3. a + i \in Addr
    BY <2>1, <2>2, ReadableIsMapped, PagesAssumption
  <2>4. IF Enabled(a + i) THEN saved[a + i] = prog[a + i] ELSE mem[a + i] = prog[a + i]
    BY <2>2, <2>3 DEF MInv, TrapsStay
  <2>5. a + i \in Hidden(a, n) <=> Enabled(a + i)
    BY <2>1, <2>3, SizeAssumption DEF Hidden, Enabled, in_range
  <2>6. read_memory_without_traps(a, n)[i] =
            IF a + i \in Hidden(a, n) THEN saved[a + i] ELSE mem[a + i]
    BY <2>1 DEF read_memory_without_traps, read_memory
  <2> QED BY <2>4, <2>5, <2>6
<1> QED BY <1>1, MInvariance, PTL

-----------------------------------------------------------------------------
(***************************************************************************)
(* What a write leaves, whole or broken off.                               *)
(***************************************************************************)
Complete(a, n) == \A k \in Chunks(n) : ~ChunkFails(a, n, k)

\* Every place of a range belongs to one of the words that the loop writes.
LEMMA ChunkOfPlace ==
    ASSUME NEW n \in Nat, NEW d \in 0 .. n - 1
    PROVE  d - (d % Word) \in Chunks(n) /\ d - (d % Word) <= d /\ d < d - (d % Word) + Word
<1>1. d \in Nat /\ Word \in Nat \ {0}
  BY Constants
<1>2. /\ d - (d % Word) \in 0 .. d /\ d < d - (d % Word) + Word
      /\ (d - (d % Word)) % Word = 0
  BY <1>1, ChunkBegins
<1> QED
  BY <1>1, <1>2 DEF Chunks

LEMMA ChunksInOrder ==
    ASSUME NEW d \in Nat, NEW e \in Nat, d <= e, NEW w \in Nat \ {0}
    PROVE  d - (d % w) <= e - (e % w)
<1> DEFINE p == d \div w
           q == e \div w
<1>1. p \in Nat /\ q \in Nat /\ d - (d % w) = w * p /\ e - (e % w) = w * q
  <2> DEFINE f == d % w
             g == e % w
  <2>1. p \in Nat /\ d = w * p + f /\ f \in Nat
    BY Division
  <2>2. q \in Nat /\ e = w * q + g /\ g \in Nat
    BY Division
  <2> DEFINE m == w * p
             l == w * q
  <2>3. m \in Nat /\ l \in Nat
    BY <2>1, <2>2
  <2> HIDE DEF f, g, p, q
  <2>4. d = m + f /\ e = l + g
    BY <2>1, <2>2
  <2> HIDE DEF m, l
  <2>5. d - f = m /\ e - g = l
    BY <2>1, <2>2, <2>3, <2>4
  <2> QED
    BY <2>1, <2>2, <2>5 DEF f, g, m, l
<1>2. p <= q
  BY Monotone
<1> HIDE DEF p, q
<1>3. w * p <= w * q
  BY <1>1, <1>2
<1> QED
  BY <1>1, <1>3

\* A write that does not throw reaches the whole of its range.
LEMMA CompleteIsReached ==
    ASSUME NEW a \in Addr, NEW n \in Nat, NEW i \in 0 .. n - 1, Complete(a, n)
    PROVE  PageOf(a + i) \in PokeablePages /\ a + i \in Addr /\ a + i \in Reached(a, n)
<1> DEFINE k == i - (i % Word)
<1>1. a \in Nat /\ i \in Nat /\ Word \in Nat \ {0}
  BY Constants
<1>2. k \in Chunks(n) /\ k <= i /\ i < k + Word
  BY ChunkOfPlace
<1>3. k \in 0 .. n - 1
  BY <1>2 DEF Chunks
<1>4. (a + i) - a = i
  BY <1>1
<1>5. k = ChunkOf(a, a + i)
  BY <1>4 DEF ChunkOf
<1> HIDE DEF k
<1>6. k \in Poked(a, n) /\ Pokeable(a + k)
  BY <1>2 DEF Complete, Poked, ChunkFails
<1>7. PokesUpTo(a + k, a + i) /\ a + i \in a + k .. a + i
  <2>1. a + k .. a + i \subseteq a + k .. (a + k) + Word - 1
    BY <1>1, <1>2, <1>3
  <2> QED BY <1>1, <1>2, <1>3, <1>6, <2>1 DEF Pokeable, PokesUpTo
<1>8. PageOf(a + i) \in PokeablePages
  BY <1>7 DEF PokesUpTo
<1>9. a + i \in Addr
  BY <1>1, <1>8, ReadableIsMapped
<1> QED BY <1>1, <1>5, <1>6, <1>7, <1>8, <1>9 DEF Stored, Reached

\* The loop goes on from word to word: an address that it has reached has the range up to it
\* behind it.
LEMMA ReachedInOrder ==
    ASSUME NEW a \in Addr, NEW n \in Nat, NEW x \in Reached(a, n), NEW y \in a .. x
    PROVE  y \in Reached(a, n)
<1>1. /\ a \in Nat /\ Word \in Nat \ {0} /\ x \in a .. a + n - 1 /\ x \in Addr /\ Size \in Nat
      /\ x \in Stored(a, n)
  BY Constants DEF Reached, Stored
<1>2. /\ y - a \in 0 .. n - 1 /\ x - a \in Nat /\ y - a \in Nat /\ y - a <= x - a
      /\ y \in Nat /\ y \in Addr /\ y <= x /\ y >= a
  BY <1>1 DEF Addr
<1> DEFINE k == (x - a) - ((x - a) % Word)
           j == (y - a) - ((y - a) % Word)
<1>3. j \in Chunks(n) /\ j <= y - a /\ y - a < j + Word
  BY <1>2, ChunkOfPlace
<1>4. j <= k
  BY <1>1, <1>2, ChunksInOrder
<1>5. k \in Poked(a, n) /\ PokesUpTo(a + k, x)
  BY <1>1 DEF Stored, ChunkOf
<1>6. \A i \in Chunks(n) : i \in Nat
  BY DEF Chunks
<1>7. k \in Chunks(n)
  BY <1>5 DEF Poked
<1>8. j = ChunkOf(a, y)
  BY DEF ChunkOf
<1> HIDE DEF j, k
<1>9. j \in Poked(a, n) /\ PokesUpTo(a + j, y)
  <2>1. CASE j = k
    BY <1>1, <1>2, <1>5, <1>6, <1>7, <2>1 DEF PokesUpTo
  <2>2. CASE j < k
    <3>1. ~ChunkFails(a, n, j)
      BY <1>3, <1>5, <2>2 DEF Poked
    <3>2. \A i \in Chunks(n) : i < j => ~ChunkFails(a, n, i)
      BY <1>3, <1>5, <1>6, <1>7, <2>2 DEF Poked
    <3>3. a + j .. y \subseteq a + j .. (a + j) + Word - 1
      BY <1>1, <1>2, <1>3, <1>6
    <3> QED BY <1>3, <3>1, <3>2, <3>3 DEF Poked, ChunkFails, Pokeable, PokesUpTo
  <2> QED BY <1>3, <1>4, <1>6, <1>7, <2>1, <2>2
<1>10. y \in Stored(a, n)
  BY <1>2, <1>8, <1>9 DEF Stored
<1> QED BY <1>1, <1>2, <1>10 DEF Reached

\* What write_memory does to the memory, wherever it breaks off: a byte that it has changed is one
\* of its range, and the range up to there holds what was to be written; if it does not throw, the
\* whole range does.  Left out are the bytes of a page that the program may not read behind the
\* range, which the last word zeroes.
WritesPrefix(a, n, data) ==
    /\ \A x \in Addr :
          mem'[x] # mem[x] /\ (x < a + n \/ PageOf(x) \in ReadablePages) =>
              x \in a .. a + n - 1 /\ \A y \in a .. x : mem'[y] = data[y - a]
    /\ Complete(a, n) => \A i \in 0 .. n - 1 : a + i \in Addr /\ mem'[a + i] = data[i]

THEOREM WritesAPrefix ==
    ASSUME WordFitsInPage
    PROVE  Spec => [][\A a \in Addr, n \in 1 .. MaxLength : \A data \in [0 .. n - 1 -> Data] :
                         Write(a, n, data) => WritesPrefix(a, n, data)]_vars
<1>1. ASSUME TypeOK, NEW a \in Addr, NEW n \in 1 .. MaxLength, NEW data \in [0 .. n - 1 -> Data],
             Write(a, n, data)
      PROVE  WritesPrefix(a, n, data)
  <2>1. a \in Nat /\ n \in Nat /\ write_memory(a, n, data)
    BY <1>1, Constants DEF Write
  <2>2. ASSUME NEW y \in Reached(a, n) PROVE y \in Addr /\ mem'[y] = data[y - a]
    <3>1. y \in Addr
      BY DEF Reached, Stored
    <3> QED BY <1>1, <2>1, <3>1, WriteIsExact
  <2>3. ASSUME NEW x \in Addr, mem'[x] # mem[x], x < a + n \/ PageOf(x) \in ReadablePages
        PROVE  x \in a .. a + n - 1 /\ \A y \in a .. x : mem'[y] = data[y - a]
    <3>1. x \in Reached(a, n)
      BY <1>1, <2>1, <2>3, WriteIsExact
    <3>2. \A y \in a .. x : y \in Reached(a, n)
      BY <2>1, <3>1, ReachedInOrder
    <3> QED BY <2>2, <3>1, <3>2 DEF Reached
  <2>4. ASSUME Complete(a, n), NEW i \in 0 .. n - 1
        PROVE  a + i \in Addr /\ mem'[a + i] = data[i]
    <3>1. a + i \in Addr /\ a + i \in Reached(a, n) /\ (a + i) - a = i
      BY <2>1, <2>4, CompleteIsReached
    <3> QED BY <2>2, <3>1
  <2> QED BY <2>3, <2>4 DEF WritesPrefix
<1>2. TypeOK /\ [Next]_vars =>
          [\A a \in Addr, n \in 1 .. MaxLength : \A data \in [0 .. n - 1 -> Data] :
              Write(a, n, data) => WritesPrefix(a, n, data)]_vars
  BY <1>1
<1> QED
  BY <1>2, TypeCorrect, PTL DEF Spec

\* What was written can be read, and is what is read, where every page that POKEDATA writes is
\* one that process_vm_readv reads: the protection of pages is all that keeps ReadsBack from
\* holding.
THEOREM WrittenIsRead ==
    ASSUME WordFitsInPage, ReadablePages = PokeablePages
    PROVE  Spec => [][\A a \in Addr, n \in 1 .. MaxLength : \A data \in [0 .. n - 1 -> Data] :
                         Write(a, n, data) /\ Complete(a, n) =>
                             ~read_fails(a, n) /\ read_memory(a, n)' = data]_vars
<1>1. ASSUME TypeOK, NEW a \in Addr, NEW n \in 1 .. MaxLength, NEW data \in [0 .. n - 1 -> Data],
             Write(a, n, data), Complete(a, n)
      PROVE  ~read_fails(a, n) /\ read_memory(a, n)' = data
  <2>1. /\ a \in Nat /\ n \in Nat \ {0} /\ Word \in Nat \ {0} /\ MaxLength \in Nat
        /\ write_memory(a, n, data)
    BY <1>1, Constants, SizeAssumption DEF Write
  <2>2. ASSUME NEW i \in 0 .. n - 1
        PROVE  /\ PageOf(a + i) \in ReadablePages
               /\ a + i \in Addr /\ mem'[a + i] = data[i]
    <3>1. /\ PageOf(a + i) \in PokeablePages /\ a + i \in Addr /\ a + i \in Reached(a, n)
          /\ (a + i) - a = i
      BY <1>1, <2>1, CompleteIsReached
    <3>2. mem'[a + i] = data[(a + i) - a]
      BY <1>1, <2>1, <3>1, WriteIsExact
    <3> QED
      BY <3>1, <3>2
  <2>3. ~read_fails(a, n)
    <3>1. 0 \in 0 .. n - 1 /\ a + 0 = a
      BY <2>1
    <3> QED
      BY <2>2, <3>1 DEF read_fails
  <2>4. ASSUME NEW i \in 0 .. n - 1 PROVE ReadsUpTo(a, a + i)
    <3> SUFFICES ASSUME NEW y \in a .. a + i PROVE PageOf(y) \in ReadablePages
      BY DEF ReadsUpTo
    <3>1. y - a \in 0 .. n - 1 /\ a + (y - a) = y
      BY <2>1
    <3> QED
      BY <2>2, <3>1
  <2>5. read_memory(a, n)' = [i \in 0 .. n - 1 |-> data[i]]
    BY <2>2, <2>4 DEF read_memory, ReadsUpTo
  <2> QED
    BY <2>3, <2>5
<1>2. TypeOK /\ [Next]_vars =>
          [\A a \in Addr, n \in 1 .. MaxLength : \A data \in [0 .. n - 1 -> Data] :
              Write(a, n, data) /\ Complete(a, n) =>
                  ~read_fails(a, n) /\ read_memory(a, n)' = data]_vars
  BY <1>1
<1> QED
  BY <1>2, TypeCorrect, PTL DEF Spec
=============================================================================
