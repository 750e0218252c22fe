--------------------------- MODULE FsStreamProofs ---------------------------
(***************************************************************************)
(* The proofs about FsStream: the ring stays whole whatever the order of   *)
(* its parties, and is a queue of blocks, until one of two things of       *)
(* FsStream has undone it: FS_StreamSync frees what the preempted sound    *)
(* task stands on, or reads over a ring that a moved block has filled.     *)
(***************************************************************************)
EXTENDS FsStreamInv, TLAPS, NaturalsInduction, WellFoundedInduction, SequenceTheorems

-----------------------------------------------------------------------------
(* Numbers. *)

\* A set of numbers that is not empty has a least one.
LEMMA Least == ASSUME NEW T, T \subseteq Nat, T # {} PROVE \E m \in T : \A k \in T : m <= k
<1> DEFINE R == OpToRel(<, Nat)
<1>1. IsWellFoundedOn(R, Nat)
  BY NatLessThanWellFounded
<1>2. \A x, y \in Nat : <<x, y>> \in R <=> x < y
  BY DEF OpToRel
<1> HIDE DEF R
<1>3. PICK x \in T : \A y \in T : ~ (<<y, x>> \in R)
  BY <1>1, WFMin
<1>4. ASSUME NEW y \in T PROVE x <= y
  <2>1. x \in Nat /\ y \in Nat /\ ~(y < x)
    BY <1>2, <1>3
  <2> QED BY <2>1
<1> QED BY <1>4

\* Induction up to a number, over the set of those for which something holds.
LEMMA UpTo ==
  ASSUME NEW N \in Nat, NEW I, 0 \in I, \A n \in 1..N : n - 1 \in I => n \in I
  PROVE  \A n \in 0..N : n \in I
<1> DEFINE Bad == {n \in 0..N : n \notin I}
<1>1. SUFFICES ASSUME Bad # {} PROVE FALSE
  OBVIOUS
<1>2. PICK n \in Bad : \A m \in Bad : n <= m
  <2> HIDE DEF Bad
  <2>1. Bad \subseteq Nat
    BY DEF Bad
  <2> QED BY <1>1, <2>1, Least
<1>3. n \in 1..N /\ n - 1 \in 0..N /\ ~(n <= n - 1)
  <2>1. n # 0
    OBVIOUS
  <2> QED BY <2>1
<1>4. n - 1 \in I
  BY <1>2, <1>3
<1> QED BY <1>3, <1>4

\* A function that goes on from its last value exists.
LEMMA Recursion ==
  ASSUME NEW S, NEW a \in S, NEW N \in Nat, NEW G \in [1..N -> [S -> S]]
  PROVE  \E s \in [0..N -> S] : s[0] = a /\ \A n \in 1..N : s[n] = G[n][s[n - 1]]
<1> DEFINE Upto(n) == \E s \in [0..n -> S] : s[0] = a /\ \A k \in 1..n : s[k] = G[k][s[k - 1]]
           I == {n \in 0..N : Upto(n)}
<1>1. 0 \in I
  <2> DEFINE s == [k \in 0..0 |-> a]
  <2>1. s \in [0..0 -> S] /\ s[0] = a /\ \A k \in 1..0 : s[k] = G[k][s[k - 1]]
    OBVIOUS
  <2> HIDE DEF s
  <2>2. Upto(0)
    BY <2>1
  <2> QED BY <2>2
<1>2. ASSUME NEW n \in 1..N, n - 1 \in I PROVE n \in I
  <2>1. PICK s \in [0..n - 1 -> S] : s[0] = a /\ \A k \in 1..n - 1 : s[k] = G[k][s[k - 1]]
    BY <1>2
  <2> DEFINE t == [k \in 0..n |-> IF k = n THEN G[n][s[n - 1]] ELSE s[k]]
  <2>2. n - 1 \in 0..n - 1 /\ s[n - 1] \in S /\ G[n] \in [S -> S]
    OBVIOUS
  <2>3. t \in [0..n -> S]
    BY <2>2
  <2>4. t[0] = a
    BY <2>1
  <2>5. ASSUME NEW k \in 1..n PROVE t[k] = G[k][t[k - 1]]
    <3>1. k - 1 \in 0..n /\ k - 1 # n /\ t[k - 1] = s[k - 1]
      OBVIOUS
    <3> QED BY <2>1, <3>1
  <2> HIDE DEF t
  <2>6. Upto(n)
    BY <2>3, <2>4, <2>5
  <2> QED BY <2>6
<1>3. \A n \in 0..N : n \in I
  <2> HIDE DEF I
  <2> QED BY <1>1, <1>2, UpTo
<1> QED BY <1>3


\* A set of numbers below a bound that is not empty has a greatest one.
LEMMA Greatest ==
  ASSUME NEW N \in Nat, NEW T, T \subseteq 0..N, T # {}
  PROVE  \E m \in T : \A k \in T : k <= m
<1> DEFINE R == {N - k : k \in T}
<1>1. R \subseteq Nat /\ R # {}
  <2>1. \A k \in T : N - k \in Nat
    OBVIOUS
  <2> QED BY <2>1
<1>2. \E m \in R : \A k \in R : m <= k
  <2> HIDE DEF R
  <2> QED BY <1>1, Least
<1>3. PICK k \in T : \A j \in T : N - k <= N - j
  BY <1>2
<1>4. \A j \in T : j <= k
  BY <1>3
<1> QED BY <1>4

-----------------------------------------------------------------------------
(* The heap, and the blocks of a stream. *)

TwoThirds == (Heap * 2) \div 3

\* The stream is a row of blocks of which none is longer than a third of the heap.
Played ==
  /\ DOMAIN stream \subseteq Nat /\ 0 \in DOMAIN stream /\ stream[0].type # "end"
  /\ \A i \in DOMAIN stream :
       /\ stream[i].size \in 1 .. Heap /\ stream[i].type \in {"game", "sound", "end"}
       /\ stream[i].size + 3 * (Sector - 1) <= Heap - TwoThirds
       /\ stream[i].type = "end" => \A j \in DOMAIN stream : j <= i
       /\ stream[i].type # "end" =>
            /\ i + stream[i].size \in DOMAIN stream
            /\ \A j \in DOMAIN stream : j <= i \/ i + stream[i].size <= j

\* What RingAssumption says of the stream that is played.
LEMMA StreamFacts == ASSUME Typed PROVE Played
<1>1. stream \in Range(Streams) /\ starts \in 1 .. Len(Streams)
  <2>1. Streams \in Seq(Range(Streams))
    BY RingAssumption
  <2> QED BY <2>1 DEF Typed
<1>2. /\ DOMAIN stream \subseteq Nat /\ 0 \in DOMAIN stream /\ stream[0].type # "end"
      /\ \A i \in DOMAIN stream :
           /\ stream[i] \in BlockOf(Heap)
           /\ stream[i].size + 3 * (Sector - 1) <= Heap - (Heap * 2) \div 3
           /\ IF stream[i].type = "end" THEN \A j \in DOMAIN stream : j <= i
              ELSE /\ i + stream[i].size \in DOMAIN stream
                   /\ DOMAIN stream \cap i + 1 .. i + stream[i].size - 1 = {}
  BY <1>1, RingAssumption
<1>3. ASSUME NEW i \in DOMAIN stream
      PROVE  /\ stream[i].size \in 1 .. Heap /\ stream[i].type \in {"game", "sound", "end"}
             /\ stream[i].size + 3 * (Sector - 1) <= Heap - TwoThirds
             /\ stream[i].type = "end" => \A j \in DOMAIN stream : j <= i
             /\ stream[i].type # "end" =>
                  /\ i + stream[i].size \in DOMAIN stream
                  /\ \A j \in DOMAIN stream : j <= i \/ i + stream[i].size <= j
  <2>1. stream[i].size \in 1 .. Heap /\ stream[i].type \in {"game", "sound", "end"}
    BY <1>2 DEF BlockOf, Consumer
  <2>2. ASSUME stream[i].type # "end", NEW j \in DOMAIN stream, ~(j <= i), ~(i + stream[i].size <= j)
        PROVE  FALSE
    <3>1. i \in Nat /\ j \in Nat /\ stream[i].size \in Nat
      BY <1>2, <2>1
    <3>2. j \in i + 1 .. i + stream[i].size - 1
      BY <2>2, <3>1
    <3> QED BY <1>2, <2>2, <3>2
  <2> QED BY <1>2, <2>1, <2>2 DEF TwoThirds
<1> QED BY <1>2, <1>3 DEF Played

\* The numbers of the heap: the heap has room for nine sectors or so.
LEMMA HeapFacts ==
  ASSUME Played
  PROVE  /\ Heap \in Nat /\ Sector \in Nat /\ Sector >= 2 /\ TwoThirds \in Nat
         /\ 3 * TwoThirds <= 2 * Heap /\ 2 * Heap <= 3 * TwoThirds + 2
         /\ 9 * Sector <= Heap + 8
<1>1. Heap \in Nat /\ Sector \in Nat /\ Sector >= 2
  BY RingAssumption
<1>2. TwoThirds \in Nat /\ 3 * TwoThirds <= 2 * Heap /\ 2 * Heap <= 3 * TwoThirds + 2
  BY <1>1 DEF TwoThirds
<1>3. stream[0].size \in Nat /\ stream[0].size >= 1 /\ stream[0].size + 3 * (Sector - 1) <= Heap - TwoThirds
  BY <1>1 DEF Played
<1> QED BY <1>1, <1>2, <1>3

\* A block has a size, a type and a place below the next.
LEMMA BlockFacts ==
  ASSUME Played, NEW i \in DOMAIN stream
  PROVE  /\ i \in Nat /\ stream[i].size \in Nat /\ stream[i].size >= 1
         /\ stream[i].size + 3 * (Sector - 1) <= Heap - TwoThirds
         /\ 3 * stream[i].size + 9 * Sector <= Heap + 11
<1>1. i \in Nat /\ stream[i].size \in Nat /\ stream[i].size >= 1
  BY RingAssumption DEF Played
<1>2. stream[i].size + 3 * (Sector - 1) <= Heap - TwoThirds
  BY DEF Played
<1> QED BY <1>1, <1>2, HeapFacts

\* A block before another is no end, and ends before it.
LEMMA BlockBefore ==
  ASSUME Played, NEW i \in DOMAIN stream, NEW j \in DOMAIN stream, i < j
  PROVE  /\ stream[i].type # "end" /\ i + stream[i].size \in DOMAIN stream
         /\ i + stream[i].size <= j
         /\ \A k \in DOMAIN stream : k <= i \/ i + stream[i].size <= k
<1>1. i \in Nat /\ j \in Nat
  BY BlockFacts
<1>2. ~(j <= i)
  BY <1>1
<1> QED BY <1>2 DEF Played

\* The heap ends less than a sector before its last cell.
LEMMA EndAfterFacts ==
  ASSUME NEW w \in Nat, w <= Heap
  PROVE  EndAfter(w) \in Nat /\ Heap - Sector < EndAfter(w) /\ EndAfter(w) <= Heap
<1>1. Heap \in Nat /\ Sector \in Nat /\ Sector >= 2 /\ Sector <= Heap
  <2>1. Streams[1] \in Range(Streams)
    BY RingAssumption
  <2> QED BY <2>1, RingAssumption DEF BlockOf
<1>2. (Heap - w) % Sector \in 0 .. Sector - 1
  BY <1>1
<1> QED BY <1>1, <1>2 DEF EndAfter

\* A sector more.
LEMMA CountFacts ==
  ASSUME sector \in Nat
  PROVE  Count \in Nat /\ (Fed => Count >= Sector) /\ (~Fed => Count = 0)
<1>1. Sector \in Nat
  BY RingAssumption
<1> QED BY <1>1 DEF Count, Fed

\* What has come, after a sector.
LEMMA CountNext == ASSUME sector \in Nat, sector' = sector + 1 PROVE Count' = Count + Sector
BY RingAssumption DEF Count

-----------------------------------------------------------------------------
(* The headers in use, and their order. *)

\* A ring with something in it.
Order(m) == TypeOK /\ Typed /\ Played /\ Fed /\ m \in Addr /\ Ring(m)

\* Where the cells of the stream are.
Straight == top <= bottom
Spot(m, p) == IF Straight \/ p < top THEN Base + p ELSE Base - m + p
Wrapped(m, p) == ~Straight /\ p = m
HeadSet(m) == {p \in InUse(m) : Wrapped(m, p) \/ Spot(m, p) \in DOMAIN stream}
KeyAt(m, p) == IF Wrapped(m, p) THEN 2 * Base ELSE 2 * Spot(m, p) + 1

\* The numbers of a ring.
LEMMA RingNumbers ==
  ASSUME NEW m, Order(m)
  PROVE  /\ Heap \in Nat /\ m \in Nat /\ m < Heap
         /\ top \in Nat /\ bottom \in Nat /\ write_ptr \in Nat /\ Count \in Nat /\ Base \in Int
         /\ top < Heap /\ bottom < Heap /\ write_ptr <= Heap
         /\ bottom < write_ptr /\ Base = Count - write_ptr /\ Base + bottom \in DOMAIN stream
         /\ Straight => Base + top \in DOMAIN stream
         /\ ~Straight => /\ bottom < top /\ write_ptr <= top /\ top <= m /\ mem[m] = Mark
                         /\ Base \in DOMAIN stream /\ (top = m \/ Base - m + top \in DOMAIN stream)
<1>1. Heap \in Nat /\ sector \in Nat
  BY HeapFacts DEF Order, TypeOK
<1>2. Count \in Nat
  BY <1>1, CountFacts
<1>3. /\ m \in Nat /\ m < Heap /\ top \in Nat /\ bottom \in Nat /\ write_ptr \in Nat
      /\ top < Heap /\ bottom < Heap /\ write_ptr <= Heap
  BY <1>1 DEF Order, TypeOK, Addr
<1>4. Base \in Int /\ Base = Count - write_ptr
  BY <1>2, <1>3 DEF Base
<1>5. bottom < write_ptr /\ Base + bottom \in DOMAIN stream
  BY DEF Order, Ring
<1>6. Straight => Base + top \in DOMAIN stream
  BY DEF Order, Ring, Straight
<1>7. ~Straight => /\ write_ptr <= top /\ top <= m /\ mem[m] = Mark
                   /\ Base \in DOMAIN stream /\ (top = m \/ Base - m + top \in DOMAIN stream)
  BY DEF Order, Ring, Straight
<1>8. ~Straight => bottom < top
  BY <1>3 DEF Straight
<1> QED BY <1>1, <1>2, <1>3, <1>4, <1>5, <1>6, <1>7, <1>8

\* The cells in use are those of the stream; only the mark is none.
LEMMA CellFacts ==
  ASSUME NEW m, Order(m), NEW p \in InUse(m) \cup bottom .. write_ptr - 1
  PROVE  /\ p \in Nat /\ p < Heap /\ p \in Addr
         /\ Wrapped(m, p) => mem[p] = Mark
         /\ ~Wrapped(m, p) => /\ mem[p].cell = Spot(m, p) /\ Spot(m, p) \in Nat
                              /\ mem[p].tag # "wrap" /\ mem[p] # Mark
<1>1. DOMAIN stream \subseteq Nat
  BY DEF Order, Played
<1>2. CASE Straight
  <2>1. p \in top .. write_ptr - 1
    <3>1. InUse(m) = top .. bottom - 1
      BY <1>2 DEF InUse, Straight
    <3> QED BY <1>2, <3>1, RingNumbers DEF Straight
  <2>2. \A x \in top .. write_ptr - 1 : mem[x].cell = Count - (write_ptr - x)
    BY <1>2 DEF Order, Ring, Laid, Straight
  <2>3. mem[p].cell = Base + p /\ Base + p \in Nat
    <3>1. mem[p].cell = Count - (write_ptr - p)
      BY <2>1, <2>2
    <3>2. Base + top \in Nat
      BY <1>1, <1>2, RingNumbers
    <3> QED BY <2>1, <3>1, <3>2, RingNumbers
  <2>4. p \in Nat /\ p < Heap /\ p \in Addr
    BY <2>1, RingNumbers DEF Addr
  <2>5. mem[p].tag # "wrap" /\ mem[p] # Mark
    BY <2>3, <2>4 DEF Order, Typed, None, Mark
  <2> QED BY <1>2, <2>3, <2>4, <2>5 DEF Wrapped, Spot
<1>3. CASE ~Straight
  <2>1. p \in 0 .. write_ptr - 1 \/ p \in top .. m
    <3>1. InUse(m) = top .. m \cup 0 .. bottom - 1
      BY <1>3 DEF InUse, Straight
    <3> QED BY <1>3, <3>1, RingNumbers
  <2>2. /\ \A x \in 0 .. write_ptr - 1 : mem[x].cell = Count - (write_ptr - x)
        /\ \A x \in top .. m - 1 : mem[x].cell = Base - (m - x)
    BY <1>3 DEF Order, Ring, Laid, Straight
  <2>3. p \in Nat /\ p < Heap /\ p \in Addr
    BY <1>3, <2>1, RingNumbers DEF Addr
  <2>4. CASE p \in 0 .. write_ptr - 1
    <3>1. p < top /\ Base \in Nat
      BY <1>1, <1>3, <2>4, RingNumbers
    <3>2. mem[p].cell = Base + p /\ Base + p \in Nat
      BY <2>2, <2>4, <3>1, RingNumbers
    <3>3. mem[p].tag # "wrap" /\ mem[p] # Mark
      BY <2>3, <3>2 DEF Order, Typed, None, Mark
    <3>4. ~Wrapped(m, p)
      BY <1>3, <3>1, RingNumbers DEF Wrapped
    <3> QED BY <2>3, <3>1, <3>2, <3>3, <3>4 DEF Spot
  <2>5. CASE p \in top .. m /\ p # m
    <3>1. ~(p < top) /\ p \in top .. m - 1 /\ top # m
      BY <1>3, <2>5, RingNumbers
    <3>2. Base - m + top \in Nat
      BY <1>1, <1>3, <3>1, RingNumbers
    <3>3. mem[p].cell = Base - m + p /\ Base - m + p \in Nat
      BY <2>2, <3>1, <3>2, RingNumbers
    <3>4. mem[p].tag # "wrap" /\ mem[p] # Mark
      BY <2>3, <3>3 DEF Order, Typed, None, Mark
    <3> QED BY <1>3, <2>3, <2>5, <3>1, <3>3, <3>4 DEF Spot, Wrapped
  <2>6. CASE p = m
    <3>1. Wrapped(m, p) /\ mem[p] = Mark
      BY <1>3, <2>6, RingNumbers DEF Wrapped
    <3> QED BY <2>3, <3>1
  <2> QED BY <2>1, <2>4, <2>5, <2>6
<1> QED BY <1>2, <1>3

\* The headers in use by where they are.
LEMMA HeadsAre == ASSUME NEW m, Order(m) PROVE Heads(m) = HeadSet(m)
<1>1. ASSUME NEW p \in InUse(m) PROVE (IsHeader(p) \/ mem[p].tag = "wrap") <=> (Wrapped(m, p) \/ Spot(m, p) \in DOMAIN stream)
  <2>1. CASE Wrapped(m, p)
    <3>1. mem[p] = Mark
      BY <2>1, CellFacts
    <3> QED BY <2>1, <3>1 DEF Mark
  <2>2. CASE ~Wrapped(m, p)
    <3>1. mem[p].cell = Spot(m, p) /\ mem[p].tag # "wrap"
      BY <2>2, CellFacts
    <3> QED BY <2>2, <3>1 DEF IsHeader
  <2> QED BY <2>1, <2>2
<1> QED BY <1>1 DEF Heads, HeadSet

\* A place is a header or the mark; its key says where it comes.
LEMMA PlaceFacts ==
  ASSUME NEW m, Order(m), NEW p \in Places(m)
  PROVE  /\ p \in Nat /\ p < Heap /\ p \in Addr
         /\ Key(p) = KeyAt(m, p) /\ Key(p) \in Nat
         /\ mem[p].tag = "wrap" <=> Wrapped(m, p)
         /\ Wrapped(m, p) => mem[p] = Mark /\ p # bottom /\ Key(p) = 2 * Base
         /\ ~Wrapped(m, p) => /\ mem[p].cell = Spot(m, p) /\ Spot(m, p) \in DOMAIN stream
                              /\ Spot(m, p) \in Nat /\ Key(p) = 2 * Spot(m, p) + 1
                              /\ Key(p) = 2 * mem[p].cell + 1
<1>1. DOMAIN stream \subseteq Nat
  BY DEF Order, Played
<1>2. bottom \in bottom .. write_ptr - 1 /\ 0 \in bottom .. write_ptr - 1 \cup 0 .. bottom - 1
  BY RingNumbers
<1>3. p \in InUse(m) \cup bottom .. write_ptr - 1
  BY <1>2 DEF Places, Heads
<1>4. p \in Nat /\ p < Heap /\ p \in Addr
  BY <1>3, CellFacts
<1>5. CASE Wrapped(m, p)
  <2>1. mem[p] = Mark /\ ~Straight
    BY <1>3, <1>5, CellFacts DEF Wrapped
  <2>2. p # bottom
    BY <1>5, <2>1, RingNumbers DEF Wrapped
  <2>3. mem[0].cell = Base
    <3>1. 0 \in InUse(m) \cup bottom .. write_ptr - 1
      BY <1>2, <2>1 DEF InUse, Straight
    <3>2. ~Wrapped(m, 0) /\ Spot(m, 0) = Base
      BY <2>1, RingNumbers DEF Wrapped, Spot
    <3> QED BY <3>1, <3>2, CellFacts
  <2>4. Base \in Nat
    BY <1>1, <2>1, RingNumbers
  <2>5. Key(p) = 2 * Base
    BY <2>1, <2>3 DEF Key, Mark
  <2> QED BY <1>4, <1>5, <2>1, <2>2, <2>4, <2>5 DEF KeyAt, Mark
<1>6. CASE ~Wrapped(m, p)
  <2>1. mem[p].cell = Spot(m, p) /\ Spot(m, p) \in Nat /\ mem[p].tag # "wrap"
    BY <1>3, <1>6, CellFacts
  <2>2. Spot(m, p) \in DOMAIN stream
    <3>1. CASE p \in Heads(m)
      BY <1>6, <3>1, HeadsAre DEF HeadSet
    <3>2. CASE p = bottom
      <4>1. Spot(m, p) = Base + bottom
        BY <3>2, RingNumbers DEF Spot
      <4> QED BY <4>1, RingNumbers
    <3> QED BY <3>1, <3>2 DEF Places
  <2>3. Key(p) = 2 * Spot(m, p) + 1 /\ Key(p) = 2 * mem[p].cell + 1
    BY <2>1 DEF Key
  <2> QED BY <1>4, <1>6, <2>1, <2>2, <2>3 DEF KeyAt
<1> QED BY <1>5, <1>6

\* The places, those before the mark, the mark, those after it.
LEMMA PlacesAre ==
  ASSUME NEW m, Order(m), NEW p
  PROVE  /\ Straight => (p \in Places(m) <=> p \in top .. bottom /\ Base + p \in DOMAIN stream)
         /\ ~Straight => (p \in Places(m) <=> \/ p = m
                                              \/ p \in top .. m - 1 /\ Base - m + p \in DOMAIN stream
                                              \/ p \in 0 .. bottom /\ Base + p \in DOMAIN stream)
<1>1. p \in Places(m) <=> p = bottom \/ p \in HeadSet(m)
  BY HeadsAre DEF Places
<1>2. CASE Straight
  <2>1. InUse(m) = top .. bottom - 1
    BY <1>2 DEF InUse, Straight
  <2>2. p \in HeadSet(m) <=> p \in top .. bottom - 1 /\ Base + p \in DOMAIN stream
    BY <1>2, <2>1 DEF HeadSet, Wrapped, Spot
  <2>3. p \in top .. bottom <=> p = bottom \/ p \in top .. bottom - 1
    BY <1>2, RingNumbers DEF Straight
  <2> QED BY <1>1, <1>2, <2>2, <2>3, RingNumbers
<1>3. CASE ~Straight
  <2>1. InUse(m) = top .. m \cup 0 .. bottom - 1
    BY <1>3 DEF InUse, Straight
  <2>2. p \in top .. m <=> p = m \/ p \in top .. m - 1
    BY <1>3, RingNumbers
  <2>3. p \in 0 .. bottom <=> p = bottom \/ p \in 0 .. bottom - 1
    BY RingNumbers
  <2>4. p \in top .. m - 1 => p \in Nat /\ ~(p < top) /\ p # m
    BY <1>3, RingNumbers
  <2>5. p \in 0 .. bottom => p \in Nat /\ p < top /\ p # m
    BY <1>3, RingNumbers
  <2>6. p \in HeadSet(m) <=> \/ p = m
                             \/ p \in top .. m - 1 /\ Base - m + p \in DOMAIN stream
                             \/ p \in 0 .. bottom - 1 /\ Base + p \in DOMAIN stream
    <3>1. CASE p = m
      BY <1>3, <2>1, <2>2, <3>1 DEF HeadSet, Wrapped
    <3>2. CASE p # m /\ p \in top .. m - 1
      <4>1. Spot(m, p) = Base - m + p /\ ~Wrapped(m, p)
        BY <1>3, <2>4, <3>2 DEF Spot, Wrapped
      <4>2. ~(p \in 0 .. bottom - 1)
        BY <1>3, <3>2, RingNumbers
      <4> QED BY <2>1, <2>2, <3>2, <4>1, <4>2 DEF HeadSet
    <3>3. CASE p # m /\ p \notin top .. m - 1 /\ p \in 0 .. bottom - 1
      <4>1. Spot(m, p) = Base + p /\ ~Wrapped(m, p)
        BY <2>3, <2>5, <3>3 DEF Spot, Wrapped
      <4> QED BY <2>1, <2>2, <3>3, <4>1 DEF HeadSet
    <3>4. CASE p # m /\ p \notin top .. m - 1 /\ p \notin 0 .. bottom - 1
      BY <2>1, <2>2, <3>4 DEF HeadSet
    <3> QED BY <3>1, <3>2, <3>3, <3>4
  <2>7. Base + bottom \in DOMAIN stream
    BY RingNumbers
  <2> QED BY <1>1, <1>3, <2>3, <2>6, <2>7
<1> QED BY <1>2, <1>3

\* What a place is, with its key.
LEMMA PlaceCases ==
  ASSUME NEW m, Order(m), NEW p \in Places(m)
  PROVE  \/ Straight /\ ~Wrapped(m, p) /\ p \in top .. bottom /\ Spot(m, p) = Base + p
         \/ ~Straight /\ ~Wrapped(m, p) /\ p \in top .. m - 1 /\ Spot(m, p) = Base - m + p
         \/ Wrapped(m, p) /\ ~Straight /\ p = m
         \/ ~Straight /\ ~Wrapped(m, p) /\ p \in 0 .. bottom /\ Spot(m, p) = Base + p
<1>1. CASE Straight
  BY <1>1, PlacesAre DEF Wrapped, Spot
<1>2. CASE ~Straight
  <2>1. \/ p = m
        \/ p \in top .. m - 1
        \/ p \in 0 .. bottom
    BY <1>2, PlacesAre
  <2>2. CASE p = m
    BY <1>2, <2>2 DEF Wrapped
  <2>3. CASE p \in top .. m - 1
    <3>1. ~(p < top) /\ p # m
      BY <1>2, <2>3, RingNumbers
    <3> QED BY <1>2, <2>3, <3>1 DEF Wrapped, Spot
  <2>4. CASE p \in 0 .. bottom
    <3>1. p < top /\ p # m
      BY <1>2, <2>4, RingNumbers
    <3> QED BY <1>2, <2>4, <3>1 DEF Wrapped, Spot
  <2> QED BY <2>1, <2>2, <2>3, <2>4
<1> QED BY <1>1, <1>2

\* fs_stream_top comes first, fs_stream_bottom last; no two places have one key.
LEMMA KeyOrder ==
  ASSUME NEW m, Order(m)
  PROVE  /\ top \in Places(m) /\ bottom \in Places(m)
         /\ ~Straight => 0 \in Places(m) /\ m \in Places(m) /\ Key(0) = 2 * Base + 1 /\ Key(m) = 2 * Base
         /\ \A p \in Places(m) : Key(p) \in Nat /\ Key(top) <= Key(p) /\ Key(p) <= Key(bottom)
         /\ \A p, q \in Places(m) : Key(p) = Key(q) => p = q
         /\ \A p \in Places(m) : p \in Heads(m) <=> Key(p) < Key(bottom)
         /\ bottom \notin Heads(m)
<1>1. top \in Places(m) /\ bottom \in Places(m)
  <2>1. CASE Straight
    BY <2>1, PlacesAre, RingNumbers DEF Straight, Places
  <2>2. CASE ~Straight
    <3>1. top = m \/ top \in top .. m - 1
      BY <2>2, RingNumbers
    <3> QED BY <2>2, <3>1, PlacesAre, RingNumbers DEF Places
  <2> QED BY <2>1, <2>2
<1>2. ~Straight => 0 \in Places(m) /\ m \in Places(m) /\ Key(0) = 2 * Base + 1 /\ Key(m) = 2 * Base
  <2>1. SUFFICES ASSUME ~Straight PROVE 0 \in Places(m) /\ m \in Places(m) /\ Key(0) = 2 * Base + 1 /\ Key(m) = 2 * Base
    OBVIOUS
  <2>2. 0 \in 0 .. bottom /\ Base + 0 \in DOMAIN stream
    BY <2>1, RingNumbers
  <2>3. 0 \in Places(m) /\ m \in Places(m)
    BY <2>1, <2>2, PlacesAre
  <2>4. Wrapped(m, m) /\ ~Wrapped(m, 0) /\ Spot(m, 0) = Base
    BY <2>1, RingNumbers DEF Wrapped, Spot
  <2> QED BY <2>3, <2>4, PlaceFacts
<1>3. ASSUME NEW p \in Places(m) PROVE Key(p) \in Nat /\ Key(top) <= Key(p) /\ Key(p) <= Key(bottom)
  <2>1. Key(p) \in Nat /\ Key(top) \in Nat /\ Key(bottom) \in Nat
    BY <1>1, <1>3, PlaceFacts
  <2>2. Key(bottom) = 2 * (Base + bottom) + 1
    <3>1. ~Wrapped(m, bottom) /\ Spot(m, bottom) = Base + bottom
      BY RingNumbers DEF Wrapped, Spot
    <3> QED BY <1>1, <3>1, PlaceFacts
  <2>3. CASE Straight
    <3>1. Spot(m, p) = Base + p /\ p \in top .. bottom /\ Spot(m, top) = Base + top
          /\ ~Wrapped(m, p) /\ ~Wrapped(m, top)
      BY <2>3, PlaceCases DEF Spot, Wrapped
    <3>2. Key(p) = 2 * (Base + p) + 1 /\ Key(top) = 2 * (Base + top) + 1
      BY <1>1, <3>1, PlaceFacts
    <3> QED BY <2>1, <2>2, <3>1, <3>2, RingNumbers
  <2>4. CASE ~Straight
    <3>1. Key(top) = IF top = m THEN 2 * Base ELSE 2 * (Base - m + top) + 1
      <4>1. CASE top = m
        BY <1>1, <2>4, <4>1, PlaceFacts DEF Wrapped
      <4>2. CASE top # m
        <5>1. ~(top < top)
          BY RingNumbers
        <5>2. ~Wrapped(m, top) /\ Spot(m, top) = Base - m + top
          BY <2>4, <4>2, <5>1 DEF Wrapped, Spot
        <5> QED BY <1>1, <4>2, <5>2, PlaceFacts
      <4> QED BY <4>1, <4>2
    <3>2. CASE Wrapped(m, p)
      <4>1. Key(p) = 2 * Base
        BY <3>2, PlaceFacts
      <4> QED BY <2>1, <2>2, <2>4, <3>1, <4>1, RingNumbers
    <3>3. CASE ~Wrapped(m, p) /\ p \in top .. m - 1 /\ Spot(m, p) = Base - m + p
      <4>1. Key(p) = 2 * (Base - m + p) + 1
        BY <3>3, PlaceFacts
      <4> QED BY <2>1, <2>2, <2>4, <3>1, <3>3, <4>1, RingNumbers
    <3>4. CASE ~Wrapped(m, p) /\ p \in 0 .. bottom /\ Spot(m, p) = Base + p
      <4>1. Key(p) = 2 * (Base + p) + 1
        BY <3>4, PlaceFacts
      <4> QED BY <2>1, <2>2, <2>4, <3>1, <3>4, <4>1, RingNumbers
    <3> QED BY <2>4, <3>2, <3>3, <3>4, PlaceCases
  <2> QED BY <2>1, <2>3, <2>4
<1>4. ASSUME NEW p \in Places(m), NEW q \in Places(m), Key(p) = Key(q) PROVE p = q
  <2>1. \A x \in {p, q} : \/ Wrapped(m, x) /\ Key(x) = 2 * Base /\ x = m
                          \/ /\ ~Wrapped(m, x) /\ Key(x) = 2 * Spot(m, x) + 1
                             /\ \/ Straight /\ Spot(m, x) = Base + x
                                \/ ~Straight /\ x \in top .. m - 1 /\ Spot(m, x) = Base - m + x
                                \/ ~Straight /\ x \in 0 .. bottom /\ Spot(m, x) = Base + x
    BY PlaceFacts, PlaceCases
  <2>2. p \in Nat /\ q \in Nat
    BY PlaceFacts
  <2>3. CASE Wrapped(m, p) \/ Wrapped(m, q)
    <3>1. ASSUME NEW x \in {p, q}, ~Wrapped(m, x) PROVE Key(x) # 2 * Base
      <4>1. Key(x) = 2 * Spot(m, x) + 1 /\ Spot(m, x) \in Nat
        BY <3>1, PlaceFacts
      <4> QED BY <4>1, RingNumbers
    <3> QED BY <1>4, <2>1, <2>3, <3>1
  <2>4. CASE ~Wrapped(m, p) /\ ~Wrapped(m, q)
    <3>1. Spot(m, p) \in Nat /\ Spot(m, q) \in Nat
      BY <2>4, PlaceFacts
    <3>2. Spot(m, p) = Spot(m, q)
      BY <1>4, <2>1, <2>4, <3>1
    <3> QED BY <2>1, <2>2, <2>4, <3>2, RingNumbers
  <2> QED BY <2>3, <2>4
<1>5. bottom \notin Heads(m)
  <2>1. bottom \notin InUse(m)
    BY RingNumbers DEF InUse, Straight
  <2> QED BY <2>1 DEF Heads
<1>6. ASSUME NEW p \in Places(m) PROVE p \in Heads(m) <=> Key(p) < Key(bottom)
  <2>1. Key(p) \in Nat /\ Key(bottom) \in Nat /\ Key(p) <= Key(bottom)
    BY <1>1, <1>3
  <2>2. p \in Heads(m) <=> p # bottom
    BY <1>5 DEF Places
  <2>3. p # bottom <=> Key(p) # Key(bottom)
    BY <1>1, <1>4
  <2> QED BY <2>1, <2>2, <2>3
<1> QED BY <1>1, <1>2, <1>3, <1>4, <1>5, <1>6

\* The block at a header: it ends before the next header, which is that of the next block or
\* the mark in front of it.
LEMMA BlockNext ==
  ASSUME NEW m, Order(m), NEW p \in Heads(m), ~Wrapped(m, p)
  PROVE  /\ IsHeader(p) /\ Size(mem, p) \in Nat /\ Size(mem, p) >= 1
         /\ Size(mem, p) = stream[mem[p].cell].size /\ Type(mem, p) = stream[mem[p].cell].type
         /\ Type(mem, p) # "end" /\ Type(mem, p) \in Consumer
         /\ p + Size(mem, p) \in Places(m)
         /\ IF Wrapped(m, p + Size(mem, p)) THEN Base = mem[p].cell + Size(mem, p)
            ELSE mem[p + Size(mem, p)].cell = mem[p].cell + Size(mem, p)
         /\ \A j \in 0 .. Size(mem, p) - 1 : mem[p + j].cell = mem[p].cell + j
<1> DEFINE i == mem[p].cell
           z == stream[i].size
           B == Base + bottom
<1>1. p \in Places(m) /\ bottom \in Places(m) /\ p # bottom /\ Key(p) < Key(bottom)
  BY KeyOrder DEF Places
<1>2. i = Spot(m, p) /\ i \in DOMAIN stream /\ i \in Nat /\ Key(p) = 2 * i + 1
  BY <1>1, PlaceFacts
<1>3. B \in DOMAIN stream /\ B \in Nat /\ Key(bottom) = 2 * B + 1
  <2>1. ~Wrapped(m, bottom) /\ Spot(m, bottom) = Base + bottom
    BY RingNumbers DEF Wrapped, Spot
  <2> QED BY <1>1, <2>1, PlaceFacts
<1>4. i < B
  BY <1>1, <1>2, <1>3
<1>5. Played
  BY DEF Order
<1>6. z \in Nat /\ z >= 1
  BY <1>2, <1>5, BlockFacts
<1>7. stream[i].type # "end" /\ i + z \in DOMAIN stream /\ i + z <= B
      /\ \A k \in DOMAIN stream : k <= i \/ i + z <= k
  BY <1>2, <1>3, <1>4, <1>5, BlockBefore
<1>8. IsHeader(p) /\ Size(mem, p) = z /\ Type(mem, p) = stream[i].type
  BY <1>2 DEF IsHeader, Size, Type
<1>9. stream[i].type \in Consumer
  BY <1>2, <1>5, <1>7 DEF Played, Consumer
<1> HIDE DEF i, z, B
<1>10. /\ p + z \in Places(m)
       /\ IF Wrapped(m, p + z) THEN Base = i + z ELSE mem[p + z].cell = i + z
       /\ \A j \in 0 .. z - 1 : mem[p + j].cell = i + j
  <2>1. CASE Straight
    <3>1. p \in top .. bottom /\ i = Base + p
      BY <1>1, <1>2, <2>1, PlaceCases DEF i, Wrapped
    <3>2. p \in Nat /\ p + z <= bottom /\ p + z \in top .. bottom /\ Base + (p + z) = i + z
      BY <1>6, <1>7, <3>1, RingNumbers DEF B
    <3>3. p + z \in Places(m)
      BY <1>7, <2>1, <3>2, PlacesAre
    <3>4. ~Wrapped(m, p + z) /\ Spot(m, p + z) = Base + (p + z)
      BY <2>1 DEF Wrapped, Spot
    <3>5. mem[p + z].cell = i + z
      BY <3>2, <3>3, <3>4, PlaceFacts
    <3>6. ASSUME NEW j \in 0 .. z - 1 PROVE mem[p + j].cell = i + j
      <4>1. p + j \in InUse(m)
        BY <1>6, <2>1, <3>1, <3>2, RingNumbers DEF InUse, Straight
      <4>2. ~Wrapped(m, p + j) /\ Spot(m, p + j) = Base + (p + j)
        BY <2>1 DEF Wrapped, Spot
      <4>3. mem[p + j].cell = Base + (p + j)
        BY <4>1, <4>2, CellFacts
      <4> QED BY <3>1, <3>2, <4>3, RingNumbers
    <3> QED BY <3>3, <3>4, <3>5, <3>6
  <2>2. CASE ~Straight /\ p \in top .. m - 1 /\ i = Base - m + p
    <3>1. Base \in DOMAIN stream /\ i < Base
      BY <2>2, RingNumbers
    <3>2. i + z <= Base
      BY <1>2, <1>7, <3>1, RingNumbers
    <3>3. p \in Nat /\ p + z <= m /\ p + z \in top .. m /\ Base - m + (p + z) = i + z
      BY <1>6, <2>2, <3>2, RingNumbers
    <3>5. ASSUME NEW j \in 0 .. z - 1 PROVE mem[p + j].cell = i + j
      <4>1. p + j \in top .. m - 1
        BY <1>6, <2>2, <3>3, RingNumbers
      <4>2. p + j \in InUse(m)
        BY <2>2, <4>1, RingNumbers DEF InUse, Straight
      <4>3. ~Wrapped(m, p + j) /\ Spot(m, p + j) = Base - m + (p + j)
        BY <2>2, <4>1, RingNumbers DEF Wrapped, Spot
      <4>4. mem[p + j].cell = Base - m + (p + j)
        BY <4>2, <4>3, CellFacts
      <4> QED BY <2>2, <3>3, <4>4, RingNumbers
    <3>4. CASE p + z = m
      <4>1. p + z \in Places(m)
        BY <2>2, <3>4, KeyOrder
      <4>2. Wrapped(m, p + z)
        BY <2>2, <3>4 DEF Wrapped
      <4>3. Base = i + z
        BY <3>3, <3>4, RingNumbers
      <4> QED BY <4>1, <4>2, <4>3, <3>5
    <3>6. CASE p + z # m
      <4>1. p + z \in top .. m - 1
        BY <3>3, <3>6, RingNumbers
      <4>2. p + z \in Places(m)
        BY <1>7, <2>2, <3>3, <4>1, PlacesAre
      <4>3. ~Wrapped(m, p + z) /\ Spot(m, p + z) = Base - m + (p + z)
        BY <2>2, <4>1, RingNumbers DEF Wrapped, Spot
      <4>4. mem[p + z].cell = i + z
        BY <3>3, <4>2, <4>3, PlaceFacts
      <4> QED BY <4>2, <4>3, <4>4, <3>5
    <3> QED BY <3>4, <3>6
  <2>3. CASE ~Straight /\ p \in 0 .. bottom /\ i = Base + p
    <3>1. p \in Nat /\ p + z <= bottom /\ p + z \in 0 .. bottom /\ Base + (p + z) = i + z
      BY <1>6, <1>7, <2>3, RingNumbers DEF B
    <3>2. p + z \in Places(m)
      BY <1>7, <2>3, <3>1, PlacesAre
    <3>3. ~Wrapped(m, p + z) /\ Spot(m, p + z) = Base + (p + z)
      BY <2>3, <3>1, RingNumbers DEF Wrapped, Spot
    <3>4. mem[p + z].cell = i + z
      BY <3>1, <3>2, <3>3, PlaceFacts
    <3>5. ASSUME NEW j \in 0 .. z - 1 PROVE mem[p + j].cell = i + j
      <4>1. p + j \in 0 .. bottom - 1
        BY <1>6, <2>3, <3>1, RingNumbers
      <4>2. p + j \in InUse(m)
        BY <2>3, <4>1 DEF InUse, Straight
      <4>3. ~Wrapped(m, p + j) /\ Spot(m, p + j) = Base + (p + j)
        BY <2>3, <4>1, RingNumbers DEF Wrapped, Spot
      <4>4. mem[p + j].cell = Base + (p + j)
        BY <4>2, <4>3, CellFacts
      <4> QED BY <2>3, <3>1, <4>4, RingNumbers
    <3> QED BY <3>2, <3>3, <3>4, <3>5
  <2> QED BY <1>1, <1>2, <2>1, <2>2, <2>3, PlaceCases DEF i
<1>11. /\ p + Size(mem, p) \in Places(m)
       /\ IF Wrapped(m, p + Size(mem, p)) THEN Base = mem[p].cell + Size(mem, p)
          ELSE mem[p + Size(mem, p)].cell = mem[p].cell + Size(mem, p)
       /\ \A j \in 0 .. Size(mem, p) - 1 : mem[p + j].cell = mem[p].cell + j
  BY <1>8, <1>10 DEF i
<1>12. /\ IsHeader(p) /\ Size(mem, p) \in Nat /\ Size(mem, p) >= 1
       /\ Size(mem, p) = stream[mem[p].cell].size /\ Type(mem, p) = stream[mem[p].cell].type
       /\ Type(mem, p) # "end" /\ Type(mem, p) \in Consumer
  BY <1>6, <1>7, <1>8, <1>9 DEF i, z
<1> QED BY <1>11, <1>12

\* The next header: no other comes between, and it is nearer to fs_stream_bottom.
LEMMA NextFacts ==
  ASSUME NEW m, Order(m), NEW p \in Heads(m)
  PROVE  /\ After(p) \in Places(m) /\ Key(p) < Key(After(p))
         /\ \A q \in Places(m) : Key(q) <= Key(p) \/ Key(After(p)) <= Key(q)
         /\ Ahead(p, bottom) \in Nat /\ Ahead(After(p), bottom) \in Nat
         /\ Ahead(After(p), bottom) < Ahead(p, bottom)
         /\ ~Wrapped(m, p) => After(p) = p + Size(mem, p) /\ Whole(p)
         /\ Wrapped(m, p) => After(p) = 0
<1>1. p \in Places(m) /\ p # bottom /\ p \in Nat /\ p < Heap
  BY KeyOrder, PlaceFacts DEF Places
<1>2. Heap \in Nat /\ bottom \in Nat /\ bottom < Heap /\ (~Straight => bottom < top)
  BY RingNumbers
<1>3. ASSUME NEW q \in Places(m) PROVE Ahead(q, bottom) = IF q <= bottom THEN bottom - q ELSE bottom - q + Heap
  BY DEF Ahead
<1>4. CASE Wrapped(m, p)
  <2>1. ~Straight /\ p = m /\ mem[p].tag = "wrap"
    BY <1>1, <1>4, PlaceFacts DEF Wrapped
  <2>2. After(p) = 0
    BY <2>1 DEF After
  <2>3. 0 \in Places(m) /\ Key(0) = 2 * Base + 1 /\ Key(p) = 2 * Base /\ Base \in Int
    BY <2>1, KeyOrder, RingNumbers
  <2>4. \A q \in Places(m) : Key(q) \in Nat
    BY KeyOrder
  <2>5. \A q \in Places(m) : Key(q) <= Key(p) \/ Key(0) <= Key(q)
    BY <2>3, <2>4
  <2>6. Ahead(0, bottom) = bottom /\ Ahead(p, bottom) = bottom - p + Heap
    BY <1>2, <2>1, RingNumbers DEF Ahead
  <2> QED BY <1>1, <1>2, <1>4, <2>2, <2>3, <2>5, <2>6
<1>5. CASE ~Wrapped(m, p)
  <2> DEFINE q == p + Size(mem, p)
  <2>1. /\ q \in Places(m) /\ Size(mem, p) \in Nat /\ Size(mem, p) >= 1 /\ IsHeader(p)
        /\ Size(mem, p) = stream[mem[p].cell].size /\ Type(mem, p) = stream[mem[p].cell].type
        /\ Type(mem, p) # "end"
        /\ IF Wrapped(m, q) THEN Base = mem[p].cell + Size(mem, p) ELSE mem[q].cell = mem[p].cell + Size(mem, p)
        /\ \A j \in 0 .. Size(mem, p) - 1 : mem[p + j].cell = mem[p].cell + j
    BY <1>5, BlockNext
  <2> HIDE DEF q
  <2>2. q \in Nat /\ q < Heap
    BY <2>1, PlaceFacts
  <2>3. mem[p].tag # "wrap"
    BY <1>1, <1>5, PlaceFacts
  <2>4. After(p) = q
    BY <1>1, <1>2, <2>1, <2>2, <2>3 DEF After, q
  <2>5. Whole(p)
    BY <1>1, <1>2, <2>1, <2>2 DEF Whole, q
  <2>6. mem[p].cell \in Nat /\ mem[p].cell \in DOMAIN stream /\ Key(p) = 2 * mem[p].cell + 1
    BY <1>1, <1>5, PlaceFacts
  <2>7. Key(q) = IF Wrapped(m, q) THEN 2 * Base ELSE 2 * mem[q].cell + 1
    BY <2>1, PlaceFacts
  <2>8. Key(q) = IF Wrapped(m, q) THEN 2 * (mem[p].cell + Size(mem, p)) ELSE 2 * (mem[p].cell + Size(mem, p)) + 1
    BY <2>1, <2>7
  <2>9. Key(p) < Key(q)
    BY <2>1, <2>6, <2>8
  <2>10. \A k \in DOMAIN stream : k <= mem[p].cell \/ mem[p].cell + Size(mem, p) <= k
    BY <2>1, <2>6 DEF Order, Played
  <2>11. ASSUME NEW r \in Places(m) PROVE Key(r) <= Key(p) \/ Key(q) <= Key(r)
    <3>1. CASE ~Wrapped(m, r)
      <4>1. mem[r].cell \in DOMAIN stream /\ mem[r].cell \in Nat /\ Key(r) = 2 * mem[r].cell + 1
        BY <3>1, PlaceFacts
      <4>2. mem[r].cell <= mem[p].cell \/ mem[p].cell + Size(mem, p) <= mem[r].cell
        BY <2>10, <4>1
      <4> QED BY <2>1, <2>6, <2>8, <4>1, <4>2
    <3>2. CASE Wrapped(m, r)
      <4>1. Key(r) = 2 * Base /\ ~Straight /\ Base \in DOMAIN stream /\ Base \in Int
        BY <3>2, PlaceFacts, RingNumbers DEF Wrapped
      <4>2. Base <= mem[p].cell \/ mem[p].cell + Size(mem, p) <= Base
        BY <2>10, <4>1
      <4>3. CASE Base <= mem[p].cell
        BY <2>6, <4>1, <4>3
      <4>4. CASE mem[p].cell + Size(mem, p) <= Base /\ Wrapped(m, q)
        BY <2>1, <2>6, <2>8, <4>1, <4>4
      <4>5. CASE mem[p].cell + Size(mem, p) <= Base /\ ~Wrapped(m, q)
        <5>1. p \in top .. m - 1
          BY <1>1, <1>5, <2>1, <2>6, <4>1, <4>5, PlaceCases, PlaceFacts, RingNumbers
        <5>2. Spot(m, p) = Base - m + p /\ mem[p].cell = Spot(m, p)
          BY <1>1, <1>5, <4>1, <5>1, PlaceFacts, RingNumbers DEF Spot
        <5>3. q <= m /\ q # m /\ q \in top .. m - 1
          BY <1>1, <2>1, <2>2, <4>1, <4>5, <5>1, <5>2, RingNumbers DEF q, Wrapped
        <5>4. mem[q].cell = Base - m + q
          BY <2>1, <4>1, <4>5, <5>3, PlaceFacts, RingNumbers DEF Spot
        <5>5. Key(q) = 2 * (Base - m + q) + 1
          BY <2>7, <4>5, <5>4
        <5> QED BY <4>1, <5>3, <5>5, RingNumbers
      <4> QED BY <4>2, <4>3, <4>4, <4>5
    <3> QED BY <3>1, <3>2
  <2>12. Ahead(p, bottom) \in Nat /\ Ahead(q, bottom) \in Nat /\ Ahead(q, bottom) < Ahead(p, bottom)
    <3>1. p < q /\ (p <= bottom => q <= bottom)
      <4>1. p < q
        BY <1>1, <2>1 DEF q
      <4>2. ASSUME p <= bottom PROVE q <= bottom
        <5>1. CASE Straight
          BY <2>1, <5>1, PlaceCases
        <5>2. CASE ~Straight
          <6>1. p \in 0 .. bottom /\ Spot(m, p) = Base + p /\ mem[p].cell = Base + p
            BY <1>1, <1>5, <4>2, <5>2, PlaceFacts, RingNumbers DEF Spot
          <6>2. Key(bottom) = 2 * (Base + bottom) + 1 /\ Key(q) <= Key(bottom)
            BY <2>1, KeyOrder, PlaceFacts, RingNumbers DEF Wrapped, Spot
          <6>3. 2 * (mem[p].cell + Size(mem, p)) <= 2 * (Base + bottom) + 1
            BY <2>1, <2>6, <2>8, <6>2, RingNumbers
          <6> QED BY <1>1, <2>1, <6>1, <6>3, RingNumbers DEF q
        <5> QED BY <5>1, <5>2
      <4> QED BY <4>1, <4>2
    <3> QED BY <1>1, <1>2, <2>2, <3>1 DEF Ahead
  <2> QED BY <1>5, <2>1, <2>4, <2>5, <2>9, <2>11, <2>12 DEF q
<1> QED BY <1>4, <1>5

-----------------------------------------------------------------------------
(* The walk over the headers. *)

\* A header leads to a cell of the heap.
LEMMA AfterAddr ==
  ASSUME Played, NEW p \in Addr
  PROVE  After(p) \in Addr
<1>1. Size(mem, p) \in Nat /\ Size(mem, p) >= 1
  <2>1. CASE mem[p].cell \in DOMAIN stream
    BY <2>1, BlockFacts DEF Size
  <2>2. CASE mem[p].cell \notin DOMAIN stream
    BY <2>2 DEF Size
  <2> QED BY <2>1, <2>2
<1>2. Heap \in Nat
  BY HeapFacts
<1> QED BY <1>1, <1>2 DEF After, Addr

HeadersBody(f, n) ==
  IF n = 0 THEN [p \in Addr |-> << >>]
  ELSE [p \in Addr |-> IF p = bottom THEN << >> ELSE <<p>> \o f[n - 1][After(p)]]

\* Headers is the function its definition asks for.
LEMMA HeadersFacts ==
  ASSUME Played, Heap \in Nat
  PROVE  /\ Headers \in [0 .. Heap -> [Addr -> Seq(Addr)]]
         /\ \A p \in Addr : Headers[0][p] = << >>
         /\ \A n \in 1 .. Heap : \A p \in Addr :
              Headers[n][p] = IF p = bottom THEN << >> ELSE <<p>> \o Headers[n - 1][After(p)]
<1> DEFINE S == [Addr -> Seq(Addr)]
           P(f) == f = [n \in 0 .. Heap |-> HeadersBody(f, n)]
           a == [p \in Addr |-> << >>]
           Next1(g) == [p \in Addr |-> IF p = bottom THEN << >> ELSE <<p>> \o g[After(p)]]
           G == [n \in 1 .. Heap |-> [g \in S |-> Next1(g)]]
           h == Headers
<1>1. a \in S
  OBVIOUS
<1>2. ASSUME NEW g \in S PROVE Next1(g) \in S
  <2>1. ASSUME NEW p \in Addr PROVE (IF p = bottom THEN << >> ELSE <<p>> \o g[After(p)]) \in Seq(Addr)
    <3>1. g[After(p)] \in Seq(Addr)
      BY AfterAddr
    <3>2. <<p>> \in Seq(Addr) /\ << >> \in Seq(Addr)
      OBVIOUS
    <3>3. <<p>> \o g[After(p)] \in Seq(Addr)
      BY <3>1, <3>2, ConcatProperties
    <3> QED BY <3>2, <3>3
  <2> QED BY <2>1
<1>3. G \in [1 .. Heap -> [S -> S]]
  <2> HIDE DEF Next1, S
  <2>1. \A g \in S : Next1(g) \in S
    BY <1>2
  <2> QED BY <2>1
<1>4. \E s \in [0 .. Heap -> S] : s[0] = a /\ \A n \in 1 .. Heap : s[n] = G[n][s[n - 1]]
  <2> HIDE DEF S, G, a
  <2> QED BY <1>1, <1>3, Recursion
<1>5. PICK s \in [0 .. Heap -> S] : s[0] = a /\ \A n \in 1 .. Heap : s[n] = G[n][s[n - 1]]
  BY <1>4
<1>6. \A n \in 1 .. Heap : s[n] = Next1(s[n - 1])
  <2> HIDE DEF Next1, S
  <2>1. ASSUME NEW n \in 1 .. Heap PROVE s[n] = Next1(s[n - 1])
    <3>1. n - 1 \in 0 .. Heap
      OBVIOUS
    <3>2. s[n - 1] \in S
      BY <1>5, <3>1
    <3> QED BY <1>5, <3>2
  <2> QED BY <2>1
<1>7. \A n \in 0 .. Heap : s[n] = HeadersBody(s, n)
  <2>1. ASSUME NEW n \in 0 .. Heap PROVE s[n] = HeadersBody(s, n)
    <3>1. CASE n = 0
      BY <1>5, <3>1 DEF HeadersBody
    <3>2. CASE n # 0
      <4>1. n \in 1 .. Heap
        BY <3>2
      <4> QED BY <1>6, <3>2, <4>1 DEF HeadersBody
    <3> QED BY <3>1, <3>2
  <2> QED BY <2>1
<1>8. P(s)
  <2> HIDE DEF S
  <2> QED BY <1>5, <1>7
<1> HIDE DEF S, G, a, Next1
<1>9. h = CHOOSE f : P(f)
  BY Zenon DEF Headers, HeadersBody
<1>10. P(CHOOSE f : P(f))
  <2> HIDE DEF P
  <2> QED BY <1>8, Zenon
<1>11. P(h)
  <2> HIDE DEF P, h
  <2> QED BY <1>9, <1>10, Zenon
<1> HIDE DEF h
<1>12. \A n \in 0 .. Heap : h[n] = HeadersBody(h, n)
  BY <1>11, Zenon
<1>13. h = [n \in 0 .. Heap |-> h[n]]
  <2>1. h = [n \in 0 .. Heap |-> HeadersBody(h, n)]
    BY <1>11, Zenon
  <2> QED BY <1>12, <2>1
<1> HIDE DEF P
<1>14. h[0] = a
  BY <1>12 DEF HeadersBody, a
<1>15. ASSUME NEW n \in 1 .. Heap PROVE h[n] = Next1(h[n - 1])
  <2>1. n \in 0 .. Heap /\ n # 0
    OBVIOUS
  <2> QED BY <1>12, <2>1 DEF HeadersBody, Next1
<1>16. \A n \in 0 .. Heap : h[n] \in S
  <2> DEFINE I == {n \in 0 .. Heap : h[n] \in S}
  <2>1. 0 \in I
    BY <1>1, <1>14
  <2>2. \A n \in 1 .. Heap : n - 1 \in I => n \in I
    BY <1>2, <1>15
  <2>3. \A n \in 0 .. Heap : n \in I
    <3> HIDE DEF I
    <3> QED BY <2>1, <2>2, UpTo
  <2> QED BY <2>3
<1>17. h \in [0 .. Heap -> S]
  BY <1>13, <1>16
<1>18. Headers[0] = [p \in Addr |-> <<>>]
  BY <1>14 DEF h, a
<1>19. \A n \in 1 .. Heap : Headers[n] = Next1(Headers[n - 1])
  <2> HIDE DEF Next1
  <2> QED BY <1>15 DEF h
<1>20. Headers \in [0 .. Heap -> S]
  BY <1>17 DEF h
<1>21. \A p \in Addr : Headers[0][p] = <<>>
  BY <1>18
<1>22. ASSUME NEW n \in 1 .. Heap, NEW p \in Addr
       PROVE  Next1(Headers[n - 1])[p] = IF p = bottom THEN <<>> ELSE <<p>> \o Headers[n - 1][After(p)]
  BY Zenon DEF Next1
<1>23. \A n \in 1 .. Heap : \A p \in Addr :
         Headers[n][p] = IF p = bottom THEN <<>> ELSE <<p>> \o Headers[n - 1][After(p)]
  <2> HIDE DEF Next1
  <2> QED BY <1>19, <1>22
<1> QED BY <1>20, <1>21, <1>23 DEF S

\* A walk from a place: the headers from there to fs_stream_bottom, in their order.
Walk(m, p, T) ==
  /\ T \in Seq(Addr)
  /\ T = << >> <=> p = bottom
  /\ T # << >> => T[1] = p
  /\ \A k \in 1 .. Len(T) : /\ T[k] \in Heads(m) /\ Key(p) <= Key(T[k])
                            /\ After(T[k]) = IF k = Len(T) THEN bottom ELSE T[k + 1]
  /\ \A j, k \in 1 .. Len(T) : j < k => Key(T[j]) < Key(T[k])
  /\ \A q \in Heads(m) : Key(p) <= Key(q) => \E k \in 1 .. Len(T) : T[k] = q

\* One more in front.
LEMMA ConsFacts ==
  ASSUME NEW S, NEW x \in S, NEW T \in Seq(S)
  PROVE  /\ <<x>> \o T \in Seq(S) /\ Len(<<x>> \o T) = Len(T) + 1 /\ Len(T) \in Nat
         /\ (<<x>> \o T)[1] = x
         /\ \A k \in 1 .. Len(T) : (<<x>> \o T)[k + 1] = T[k]
         /\ \A k \in 2 .. Len(T) + 1 : (<<x>> \o T)[k] = T[k - 1]
         /\ <<x>> \o T # << >>
<1>1. <<x>> \in Seq(S) /\ Len(<<x>>) = 1 /\ <<x>>[1] = x
  OBVIOUS
<1>2. Len(T) \in Nat
  BY LenProperties
<1>3. /\ <<x>> \o T \in Seq(S) /\ Len(<<x>> \o T) = 1 + Len(T)
      /\ \A k \in 1 .. 1 + Len(T) : (<<x>> \o T)[k] = IF k <= 1 THEN <<x>>[k] ELSE T[k - 1]
  BY <1>1, ConcatProperties
<1> DEFINE U == <<x>> \o T
<1> HIDE DEF U
<1>4. U \in Seq(S) /\ Len(U) = 1 + Len(T) /\ \A k \in 1 .. 1 + Len(T) : U[k] = IF k <= 1 THEN <<x>>[k] ELSE T[k - 1]
  BY <1>3 DEF U
<1>5. U[1] = x /\ (\A k \in 2 .. Len(T) + 1 : U[k] = T[k - 1])
  BY <1>1, <1>2, <1>4
<1>6. ASSUME NEW k \in 1 .. Len(T) PROVE U[k + 1] = T[k]
  <2>1. k + 1 \in 2 .. Len(T) + 1 /\ (k + 1) - 1 = k
    BY <1>2
  <2> QED BY <1>5, <2>1
<1>7. U # << >>
  BY <1>2, <1>4
<1> QED BY <1>2, <1>4, <1>5, <1>6, <1>7 DEF U

\* One header more in front of a walk.
LEMMA WalkNext ==
  ASSUME NEW m, Order(m), NEW p \in Heads(m), NEW T, Walk(m, After(p), T)
  PROVE  Walk(m, p, <<p>> \o T)
<1> DEFINE U == <<p>> \o T
           q == After(p)
<1>1. p \in Places(m) /\ p # bottom /\ p \in Addr
  BY KeyOrder, PlaceFacts DEF Places
<1>2. q \in Places(m) /\ Key(p) < Key(q) /\ Key(p) \in Nat /\ Key(q) \in Nat
      /\ \A r \in Places(m) : Key(r) \in Nat /\ (Key(r) <= Key(p) \/ Key(q) <= Key(r))
  BY <1>1, NextFacts, KeyOrder
<1> DEFINE N == Len(T)
<1>3. /\ T \in Seq(Addr) /\ (T = << >> <=> q = bottom) /\ (T # << >> => T[1] = q)
      /\ \A k \in 1 .. N : /\ T[k] \in Heads(m) /\ Key(q) <= Key(T[k])
                           /\ After(T[k]) = IF k = N THEN bottom ELSE T[k + 1]
      /\ \A j, k \in 1 .. N : j < k => Key(T[j]) < Key(T[k])
      /\ \A r \in Heads(m) : Key(q) <= Key(r) => \E k \in 1 .. N : T[k] = r
  BY DEF Walk
<1>4. /\ U \in Seq(Addr) /\ Len(U) = N + 1 /\ N \in Nat /\ U[1] = p /\ U # << >>
      /\ \A k \in 1 .. N : U[k + 1] = T[k]
      /\ \A k \in 2 .. N + 1 : U[k] = T[k - 1]
  BY <1>1, <1>3, ConsFacts
<1>5. Heads(m) \subseteq Places(m)
  BY DEF Places
<1>6. T = << >> <=> N = 0
  BY <1>3, EmptySeq
<1>12. After(p) = q
  OBVIOUS
<1> HIDE DEF U, q, N
<1>7. ASSUME NEW k \in 1 .. N + 1
      PROVE  U[k] \in Heads(m) /\ Key(p) <= Key(U[k]) /\ After(U[k]) = IF k = N + 1 THEN bottom ELSE U[k + 1]
  <2>1. CASE k = 1
    <3>1. After(U[k]) = q
      BY <1>4, <1>12, <2>1
    <3>2. CASE N = 0
      BY <1>2, <1>3, <1>4, <1>6, <2>1, <3>1, <3>2
    <3>3. CASE N # 0
      <4>1. 1 \in 1 .. N /\ U[1 + 1] = T[1] /\ T[1] = q
        BY <1>3, <1>4, <1>6, <3>3
      <4> QED BY <1>2, <1>4, <2>1, <3>1, <3>3, <4>1
    <3> QED BY <3>2, <3>3
  <2>2. CASE k # 1
    <3>1. k - 1 \in 1 .. N /\ U[k] = T[k - 1] /\ k \in 2 .. N + 1
      BY <1>4, <2>2
    <3>2. T[k - 1] \in Heads(m) /\ Key(q) <= Key(T[k - 1]) /\ Key(T[k - 1]) \in Nat
      BY <1>2, <1>3, <1>5, <3>1
    <3>3. Key(p) <= Key(U[k])
      BY <1>2, <3>1, <3>2
    <3>4. After(T[k - 1]) = IF k - 1 = N THEN bottom ELSE T[(k - 1) + 1]
      BY <1>3, <3>1
    <3>5. CASE k = N + 1
      BY <1>4, <3>1, <3>2, <3>3, <3>4, <3>5
    <3>6. CASE k # N + 1
      <4>1. k \in 1 .. N /\ (k - 1) + 1 = k /\ k - 1 # N
        BY <1>4, <3>6
      <4>2. U[k + 1] = T[k]
        BY <1>4, <4>1
      <4> QED BY <3>1, <3>2, <3>3, <3>4, <3>6, <4>1, <4>2
    <3> QED BY <3>5, <3>6
  <2> QED BY <2>1, <2>2
<1>8. ASSUME NEW j \in 1 .. N + 1, NEW k \in 1 .. N + 1, j < k PROVE Key(U[j]) < Key(U[k])
  <2>1. k \in 2 .. N + 1 /\ k - 1 \in 1 .. N /\ U[k] = T[k - 1]
    BY <1>4, <1>8
  <2>2. Key(q) <= Key(T[k - 1]) /\ Key(T[k - 1]) \in Nat
    BY <1>2, <1>3, <1>5, <2>1
  <2>3. CASE j = 1
    BY <1>2, <1>4, <2>1, <2>2, <2>3
  <2>4. CASE j # 1
    <3>1. j \in 2 .. N + 1 /\ j - 1 \in 1 .. N /\ U[j] = T[j - 1] /\ j - 1 < k - 1
      BY <1>4, <1>8, <2>4
    <3> QED BY <1>3, <2>1, <3>1
  <2> QED BY <2>3, <2>4
<1>9. ASSUME NEW r \in Heads(m), Key(p) <= Key(r) PROVE \E k \in 1 .. N + 1 : U[k] = r
  <2>1. CASE Key(r) <= Key(p)
    <3>1. Key(r) = Key(p)
      BY <1>2, <1>5, <1>9, <2>1
    <3>2. r = p
      BY <1>1, <1>5, <3>1, KeyOrder
    <3>3. 1 \in 1 .. N + 1
      BY <1>4
    <3> QED BY <1>4, <3>2, <3>3
  <2>2. CASE Key(q) <= Key(r)
    <3>1. PICK k \in 1 .. N : T[k] = r
      BY <1>3, <2>2
    <3>2. k + 1 \in 1 .. N + 1 /\ U[k + 1] = r
      BY <1>4, <3>1
    <3> QED BY <3>2
  <2> QED BY <1>2, <1>5, <2>1, <2>2
<1>10. Len(U) = N + 1
  BY <1>4
<1>11. Walk(m, p, U)
  BY <1>1, <1>4, <1>7, <1>8, <1>9, <1>10 DEF Walk
<1> QED BY <1>11 DEF U

\* Enough steps lead from any place to fs_stream_bottom.
LEMMA HeadersWalk ==
  ASSUME NEW m, Order(m)
  PROVE  \A n \in 0 .. Heap : \A p \in Places(m) : Ahead(p, bottom) <= n => Walk(m, p, Headers[n][p])
<1> DEFINE Good(n) == \A p \in Places(m) : Ahead(p, bottom) <= n => Walk(m, p, Headers[n][p])
           I == {n \in 0 .. Heap : Good(n)}
<1>1. Heap \in Nat /\ Played
  BY RingNumbers DEF Order
<1>2. /\ \A p \in Addr : Headers[0][p] = << >>
      /\ \A n \in 1 .. Heap : \A p \in Addr :
           Headers[n][p] = IF p = bottom THEN << >> ELSE <<p>> \o Headers[n - 1][After(p)]
  BY <1>1, HeadersFacts
<1>3. Walk(m, bottom, << >>)
  <2>1. << >> \in Seq(Addr) /\ Len(<< >>) = 0
    OBVIOUS
  <2>2. ASSUME NEW q \in Heads(m), Key(bottom) <= Key(q) PROVE FALSE
    <3>1. q \in Places(m) /\ Key(q) < Key(bottom) /\ Key(q) \in Nat /\ Key(bottom) \in Nat
      BY KeyOrder DEF Places
    <3> QED BY <2>2, <3>1
  <2> QED BY <2>1, <2>2 DEF Walk
<1>4. \A p \in Places(m) : p \in Addr /\ (p # bottom => p \in Heads(m))
  BY PlaceFacts DEF Places
<1>5. 0 \in I
  <2>1. ASSUME NEW p \in Places(m), Ahead(p, bottom) <= 0 PROVE Walk(m, p, Headers[0][p])
    <3>1. CASE p = bottom
      BY <1>2, <1>3, <1>4, <3>1
    <3>2. CASE p # bottom
      <4>1. p \in Heads(m)
        BY <1>4, <3>2
      <4>2. Ahead(p, bottom) \in Nat /\ Ahead(After(p), bottom) \in Nat /\ Ahead(After(p), bottom) < Ahead(p, bottom)
        BY <4>1, NextFacts
      <4> QED BY <2>1, <4>2
    <3> QED BY <3>1, <3>2
  <2> QED BY <1>1, <2>1
<1>6. ASSUME NEW n \in 1 .. Heap, n - 1 \in I PROVE n \in I
  <2>1. ASSUME NEW p \in Places(m), Ahead(p, bottom) <= n PROVE Walk(m, p, Headers[n][p])
    <3>1. Headers[n][p] = IF p = bottom THEN << >> ELSE <<p>> \o Headers[n - 1][After(p)]
      BY <1>2, <1>4
    <3>2. CASE p = bottom
      BY <1>3, <3>1, <3>2
    <3>3. CASE p # bottom
      <4>1. p \in Heads(m)
        BY <1>4, <3>3
      <4>2. /\ After(p) \in Places(m) /\ Ahead(p, bottom) \in Nat /\ Ahead(After(p), bottom) \in Nat
            /\ Ahead(After(p), bottom) < Ahead(p, bottom)
        BY <4>1, NextFacts
      <4>3. Ahead(After(p), bottom) <= n - 1
        BY <2>1, <4>2
      <4>4. Walk(m, After(p), Headers[n - 1][After(p)])
        BY <1>6, <4>2, <4>3
      <4> QED BY <3>1, <3>3, <4>1, <4>4, WalkNext
    <3> QED BY <3>2, <3>3
  <2> QED BY <2>1
<1>7. \A n \in 0 .. Heap : n \in I
  <2> HIDE DEF I
  <2> QED BY <1>1, <1>5, <1>6, UpTo
<1> QED BY <1>7

\* The trail is the walk from fs_stream_top: it meets the headers in use, all of them.
LEMMA TrailWalk == ASSUME NEW m, Order(m) PROVE Walk(m, top, Trail)
<1>1. top \in Places(m) /\ Heap \in Nat
  BY KeyOrder, RingNumbers
<1>2. Ahead(top, bottom) <= Heap
  BY RingNumbers DEF Ahead
<1>3. Heap \in 0 .. Heap
  BY <1>1
<1> QED BY <1>1, <1>2, <1>3, HeadersWalk DEF Trail

\* The walk of FS_StreamGetData meets the headers in use, all of them, in their order, and then
\* fs_stream_bottom.
LEMMA TrailFacts ==
  ASSUME NEW m, Order(m)
  PROVE  /\ Live = Heads(m) /\ Trail \in Seq(Addr) /\ Len(Trail) \in Nat /\ DOMAIN Trail = 1 .. Len(Trail)
         /\ \A k \in 1 .. Len(Trail) : Trail[k] \in Heads(m)
         /\ \A j, k \in 1 .. Len(Trail) : j < k => Key(Trail[j]) < Key(Trail[k])
         /\ \A k \in 1 .. Len(Trail) : After(Trail[k]) = Append(Trail, bottom)[k + 1] /\ Append(Trail, bottom)[k] = Trail[k]
         /\ \A k \in 1 .. Len(Trail) : Append(Trail, bottom)[k + 1] \in Places(m)
<1>1. Walk(m, top, Trail)
  BY TrailWalk
<1>2. Trail \in Seq(Addr) /\ Len(Trail) \in Nat /\ DOMAIN Trail = 1 .. Len(Trail)
  BY <1>1, LenProperties DEF Walk
<1> DEFINE T == Trail
           N == Len(Trail)
<1> HIDE DEF T, N
<1>3. /\ \A k \in 1 .. N : T[k] \in Heads(m) /\ After(T[k]) = IF k = N THEN bottom ELSE T[k + 1]
      /\ \A j, k \in 1 .. N : j < k => Key(T[j]) < Key(T[k])
      /\ \A q \in Heads(m) : Key(top) <= Key(q) => \E k \in 1 .. N : T[k] = q
  BY <1>1 DEF Walk, T, N
<1>4. \A q \in Heads(m) : Key(top) <= Key(q)
  BY KeyOrder DEF Places
<1>5. T \in Seq(Addr) /\ N \in Nat /\ N = Len(T) /\ DOMAIN T = 1 .. N
  BY <1>2 DEF T, N
<1>6. Range(T) = Heads(m)
  <2>1. \A q \in Heads(m) : \E k \in 1 .. N : T[k] = q
    BY <1>3, <1>4
  <2> QED BY <1>3, <1>5, <2>1 DEF Range
<1>7. bottom \in Addr
  BY KeyOrder, PlaceFacts
<1>8. \A k \in 1 .. N + 1 : Append(T, bottom)[k] = IF k = N + 1 THEN bottom ELSE T[k]
  <2>1. /\ \A k \in 1 .. N : Append(T, bottom)[k] = T[k]
        /\ Append(T, bottom)[N + 1] = bottom
    BY <1>5, <1>7, AppendProperties
  <2> QED BY <1>5, <2>1
<1>9. ASSUME NEW k \in 1 .. N
      PROVE  After(T[k]) = Append(T, bottom)[k + 1] /\ Append(T, bottom)[k] = T[k] /\ Append(T, bottom)[k + 1] \in Places(m)
  <2>1. Append(T, bottom)[k] = T[k] /\ Append(T, bottom)[k + 1] = IF k + 1 = N + 1 THEN bottom ELSE T[k + 1]
    BY <1>5, <1>8
  <2>2. CASE k = N
    BY <1>3, <1>5, <2>1, <2>2 DEF Places
  <2>3. CASE k # N
    <3>1. k + 1 \in 1 .. N /\ k + 1 # N + 1
      BY <1>5, <2>3
    <3>2. T[k + 1] \in Heads(m)
      BY <1>3, <3>1
    <3> QED BY <1>3, <2>1, <2>3, <3>1, <3>2 DEF Places
  <2> QED BY <2>2, <2>3
<1>10. Live = Heads(m)
  BY <1>6 DEF Live, T
<1>11. Trail = T /\ N = Len(Trail) /\ Trail \in Seq(Addr)
  BY <1>2 DEF T, N
<1> HIDE DEF T, N
<1> QED BY <1>2, <1>3, <1>9, <1>10, <1>11

\* Before the first sector there is nothing to walk over.
LEMMA EmptyTrail ==
  ASSUME TypeOK, Played, top = bottom
  PROVE  Trail = << >> /\ Live = {} /\ DOMAIN Trail = {} /\ InUse(0) = {}
<1>1. Heap \in Nat /\ Heap \in 1 .. Heap /\ top \in Addr /\ bottom \in Nat
  <2>1. Heap \in Nat /\ Heap >= 1
    BY RingAssumption
  <2>2. top \in Addr /\ bottom \in Addr
    BY DEF TypeOK
  <2> QED BY <2>1, <2>2 DEF Addr
<1>2. Trail = << >>
  BY <1>1, HeadersFacts DEF Trail
<1>3. DOMAIN Trail = {} /\ Live = {}
  BY <1>2 DEF Live, Range
<1>4. InUse(0) = {}
  BY <1>1 DEF InUse
<1> QED BY <1>2, <1>3, <1>4

\* The headers in front of one of them.
LEMMA BeforeFacts ==
  ASSUME NEW m, Order(m), NEW e \in Heads(m)
  PROVE  Before(e) = {p \in Heads(m) : Key(p) < Key(e)}
<1>1. /\ Live = Heads(m) /\ Len(Trail) \in Nat /\ DOMAIN Trail = 1 .. Len(Trail)
      /\ \A k \in 1 .. Len(Trail) : Trail[k] \in Heads(m)
      /\ \A j, k \in 1 .. Len(Trail) : j < k => Key(Trail[j]) < Key(Trail[k])
  BY TrailFacts
<1>2. \A p \in Heads(m) : Key(p) \in Nat
  BY KeyOrder DEF Places
<1> DEFINE T == Trail
           N == Len(Trail)
<1>3. \A p \in Heads(m) : \E k \in 1 .. N : T[k] = p
  BY <1>1 DEF Live, Range
<1>4. Before(e) = {T[n] : n \in {k \in 1 .. N : \A j \in 1 .. k : T[j] # e}}
  BY <1>1 DEF Before
<1> HIDE DEF T, N
<1>5. /\ N \in Nat /\ \A k \in 1 .. N : T[k] \in Heads(m) /\ Key(T[k]) \in Nat
      /\ \A j, k \in 1 .. N : j < k => Key(T[j]) < Key(T[k])
  BY <1>1, <1>2 DEF T, N
<1>6. PICK f \in 1 .. N : T[f] = e
  BY <1>3
<1>7. ASSUME NEW k \in 1 .. N PROVE (\A j \in 1 .. k : T[j] # e) <=> Key(T[k]) < Key(e)
  <2>1. CASE k < f
    <3>1. Key(T[k]) < Key(e)
      BY <1>5, <1>6, <2>1
    <3>2. ASSUME NEW j \in 1 .. k PROVE T[j] # e
      <4>1. j \in 1 .. N /\ j < f
        BY <1>5, <2>1
      <4>2. Key(T[j]) < Key(T[f]) /\ Key(T[j]) \in Nat
        BY <1>5, <4>1
      <4> QED BY <1>6, <4>2
    <3> QED BY <3>1, <3>2
  <2>2. CASE ~(k < f)
    <3>1. f \in 1 .. k
      BY <1>5, <2>2
    <3>2. k = f \/ f < k
      BY <1>5, <2>2
    <3>3. Key(T[f]) <= Key(T[k]) /\ Key(T[f]) \in Nat /\ Key(T[k]) \in Nat
      BY <1>5, <3>2
    <3> QED BY <1>6, <3>1, <3>3
  <2> QED BY <2>1, <2>2
<1>8. ASSUME NEW p PROVE p \in Before(e) <=> p \in Heads(m) /\ Key(p) < Key(e)
  <2>1. ASSUME p \in Before(e) PROVE p \in Heads(m) /\ Key(p) < Key(e)
    <3>1. PICK k \in 1 .. N : p = T[k] /\ \A j \in 1 .. k : T[j] # e
      BY <1>4, <2>1
    <3> QED BY <1>5, <1>7, <3>1
  <2>2. ASSUME p \in Heads(m), Key(p) < Key(e) PROVE p \in Before(e)
    <3>1. PICK k \in 1 .. N : T[k] = p
      BY <1>3, <2>2
    <3> QED BY <1>4, <1>7, <2>2, <3>1
  <2> QED BY <2>1, <2>2
<1> QED BY <1>8

\* Before fs_stream_bottom, all of them.
LEMMA BeforeBottom ==
  ASSUME NEW m, Order(m)
  PROVE  Before(bottom) = Live
<1>1. /\ Live = Heads(m) /\ DOMAIN Trail = 1 .. Len(Trail) /\ Len(Trail) \in Nat
      /\ \A k \in 1 .. Len(Trail) : Trail[k] \in Heads(m)
  BY TrailFacts
<1>2. bottom \notin Heads(m)
  BY KeyOrder
<1>3. \A k \in DOMAIN Trail : \A j \in 1 .. k : Trail[j] # bottom
  BY <1>1, <1>2
<1>4. {k \in DOMAIN Trail : \A j \in 1 .. k : Trail[j] # bottom} = DOMAIN Trail
  BY <1>3
<1> QED BY <1>4 DEF Before, Live, Range

-----------------------------------------------------------------------------
(* The invariant gives the properties. *)

\* After the first sector there is a ring.
LEMMA OrderFacts ==
  ASSUME IInv, Fed
  PROVE  \E m \in Addr : Order(m) /\ Parts(m)
BY StreamFacts DEF IInv, Parts, Order

\* RingWhole, of the invariant.
LEMMA RingWholeFacts == ASSUME IInv PROVE RingWhole
<1>1. TypeOK
  BY DEF IInv
<1> DEFINE path == Append(Trail, bottom)
           end_of(k) == IF mem[path[k + 1]].tag = "wrap" THEN 0 ELSE path[k + 1]
<1>2. ASSUME Fed
      PROVE /\ \A k \in DOMAIN Trail :
                 /\ After(path[k]) = path[k + 1]
                 /\ mem[path[k]].tag # "wrap" => Whole(path[k]) /\ Follows(path[k], end_of(k))
            /\ mem[bottom].cell \in DOMAIN stream
            /\ bottom < write_ptr /\ mem[write_ptr - 1].cell = sector * Sector - 1
            /\ \A p \in bottom .. write_ptr - 1 : mem[p].cell = mem[bottom].cell + p - bottom
  <2>1. PICK m \in Addr : Order(m) /\ Parts(m)
    BY <1>2, OrderFacts
  <2>2. ASSUME NEW k \in DOMAIN Trail
        PROVE  /\ After(path[k]) = path[k + 1]
               /\ mem[path[k]].tag # "wrap" => Whole(path[k]) /\ Follows(path[k], end_of(k))
    <3>1. k \in 1 .. Len(Trail) /\ Trail[k] \in Heads(m) /\ path[k] = Trail[k] /\ After(Trail[k]) = path[k + 1]
          /\ path[k + 1] \in Places(m)
      BY <2>1, TrailFacts
    <3>2. ASSUME mem[path[k]].tag # "wrap" PROVE Whole(path[k]) /\ Follows(path[k], end_of(k))
      <4> DEFINE p == Trail[k]
      <4>1. p \in Heads(m) /\ ~Wrapped(m, p)
        BY <2>1, <3>1, <3>2, PlaceFacts DEF Places
      <4>2. After(p) = p + Size(mem, p) /\ Whole(p)
        BY <2>1, <4>1, NextFacts
      <4>3. IF Wrapped(m, After(p)) THEN Base = mem[p].cell + Size(mem, p)
            ELSE mem[After(p)].cell = mem[p].cell + Size(mem, p)
        BY <2>1, <4>1, <4>2, BlockNext
      <4>4. mem[After(p)].tag = "wrap" <=> Wrapped(m, After(p))
        BY <2>1, <3>1, PlaceFacts
      <4>5. Wrapped(m, After(p)) => mem[0].cell = Base
        <5>1. ASSUME Wrapped(m, After(p)) PROVE mem[0].cell = Base
          <6>1. 0 \in Places(m) /\ ~Wrapped(m, 0) /\ Spot(m, 0) = Base
            BY <2>1, <5>1, KeyOrder, RingNumbers DEF Wrapped, Spot
          <6> QED BY <2>1, <6>1, PlaceFacts
        <5> QED BY <5>1
      <4> HIDE DEF p
      <4>6. Follows(p, end_of(k))
        <5>1. end_of(k) = IF Wrapped(m, After(p)) THEN 0 ELSE After(p)
          BY <3>1, <4>4 DEF p
        <5> QED BY <4>3, <4>5, <5>1 DEF Follows
      <4> QED BY <3>1, <4>2, <4>6 DEF p
    <3> HIDE DEF path
    <3> QED BY <3>1, <3>2
  <2>3. ASSUME NEW p \in bottom .. write_ptr - 1 PROVE mem[p].cell = Base + p
    <3>1. ~Wrapped(m, p) /\ Spot(m, p) = Base + p
      BY <2>1, RingNumbers DEF Wrapped, Spot
    <3> QED BY <2>1, <3>1, CellFacts
  <2>4. /\ bottom \in Nat /\ write_ptr \in Nat /\ bottom < write_ptr /\ Base \in Int /\ Base = Count - write_ptr
        /\ Count \in Nat /\ Base + bottom \in DOMAIN stream
    BY <2>1, RingNumbers
  <2>5. bottom \in bottom .. write_ptr - 1 /\ write_ptr - 1 \in bottom .. write_ptr - 1
    BY <2>4
  <2>6. mem[bottom].cell = Base + bottom /\ mem[write_ptr - 1].cell = Base + (write_ptr - 1)
    BY <2>3, <2>5
  <2>7. mem[write_ptr - 1].cell = sector * Sector - 1
    <3>1. mem[write_ptr - 1].cell = Count - 1
      BY <2>4, <2>6
    <3> QED BY <3>1 DEF Count
  <2>8. ASSUME NEW p \in bottom .. write_ptr - 1 PROVE mem[p].cell = mem[bottom].cell + p - bottom
    <3>1. p \in Int /\ mem[p].cell = Base + p
      BY <2>3, <2>4
    <3> QED BY <2>4, <2>6, <3>1
  <2> HIDE DEF path, end_of
  <2> QED BY <2>2, <2>4, <2>6, <2>7, <2>8
<1> HIDE DEF path
<1>3. path = Append(Trail, bottom)
  BY DEF path
<1> QED BY <1>1, <1>2, <1>3 DEF RingWhole

\* HeldIntact, of the invariant.
LEMMA HeldIntactFacts == ASSUME IInv PROVE HeldIntact
<1> SUFFICES ASSUME NEW c \in Consumer, NEW k \in 1 .. Len(held[c])
             PROVE  /\ held[c][k] \in Live /\ Whole(held[c][k]) /\ Type(mem, held[c][k]) = c
                    /\ mem[held[c][k]].tag = "busy"
  BY DEF HeldIntact
<1>1. Fed
  <2>1. held[c] # << >>
    OBVIOUS
  <2> QED BY <2>1 DEF IInv, Opening
<1>2. PICK m \in Addr : Order(m) /\ Parts(m)
  BY <1>1, OrderFacts
<1>3. held[c][k] \in Heads(m) /\ Type(mem, held[c][k]) = c /\ mem[held[c][k]].tag = "busy"
  BY <1>2 DEF Parts, Holding
<1>4. ~Wrapped(m, held[c][k])
  BY <1>2, <1>3, PlaceFacts DEF Places
<1> QED BY <1>2, <1>3, <1>4, NextFacts, TrailFacts

\* WalksHeaders, of the invariant.
LEMMA WalksHeadersFacts == ASSUME IInv PROVE WalksHeaders
<1> SUFFICES ASSUME Walking, walk.ptr # bottom
             PROVE  walk.ptr \in Live /\ (mem[walk.ptr].tag = "wrap" \/ Whole(walk.ptr))
  BY DEF WalksHeaders
<1>1. Fed
  BY DEF IInv, Opening
<1>2. PICK m \in Addr : Order(m) /\ Parts(m)
  BY <1>1, OrderFacts
<1>3. walk.ptr \in Heads(m) /\ walk.ptr \in Places(m)
  BY <1>2 DEF Parts, Seeking, Places
<1>4. mem[walk.ptr].tag = "wrap" \/ ~Wrapped(m, walk.ptr)
  BY <1>2, <1>3, PlaceFacts
<1> QED BY <1>2, <1>3, <1>4, NextFacts, TrailFacts

-----------------------------------------------------------------------------
(* Steps that change no more than how headers are marked. *)

\* The ring is where it was, cell by cell; the mark is untouched, and so is what follows fs_stream_bottom.
SameCells ==
  /\ UNCHANGED <<top, bottom, write_ptr, sector, stream>>
  /\ \A p \in Addr : /\ mem'[p].cell = mem[p].cell
                     /\ mem[p].tag = "wrap" => mem'[p] = mem[p]
                     /\ mem[p].tag # "wrap" => mem'[p].tag # "wrap"
  /\ \A p \in bottom .. write_ptr - 1 : mem'[p] = mem[p]

\* A step that leaves the ring alone.
LEMMA UnchangedCells == ASSUME UNCHANGED ringVars, UNCHANGED <<sector, stream>> PROVE SameCells
BY DEF SameCells, ringVars

\* The headers, the places and their order are then what they were.
LEMMA SamePlaces ==
  ASSUME NEW m, Order(m), SameCells
  PROVE  /\ Ring(m)' /\ Fed' /\ Base' = Base
         /\ Heads(m)' = Heads(m) /\ Places(m)' = Places(m)
         /\ \A p \in Addr : Key(p)' = Key(p) /\ Type(mem, p)' = Type(mem, p) /\ Size(mem, p)' = Size(mem, p)
         /\ Places(m) \subseteq Addr /\ Heads(m) \subseteq Addr
<1>1. top' = top /\ bottom' = bottom /\ write_ptr' = write_ptr /\ sector' = sector /\ stream' = stream
  BY DEF SameCells
<1>2. Count' = Count /\ Base' = Base /\ Fed'
  BY <1>1 DEF Count, Base, Fed, Order
<1>3. InUse(m)' = InUse(m) /\ InUse(m) \subseteq Addr
  BY <1>1, CellFacts DEF InUse
<1>4. Heads(m)' = Heads(m)
  <2>1. \A p \in InUse(m) : (IsHeader(p)' <=> IsHeader(p)) /\ (mem'[p].tag = "wrap" <=> mem[p].tag = "wrap")
    BY <1>1, <1>3 DEF SameCells, IsHeader
  <2> QED BY <1>3, <2>1 DEF Heads
<1>5. Places(m)' = Places(m) /\ Places(m) \subseteq Addr /\ Heads(m) \subseteq Addr
  BY <1>1, <1>4, PlaceFacts DEF Places
<1>6. 0 \in Addr
  BY RingNumbers DEF Addr
<1>7. ASSUME NEW p \in Addr PROVE Key(p)' = Key(p) /\ Type(mem, p)' = Type(mem, p) /\ Size(mem, p)' = Size(mem, p)
  <2>1. mem'[p].cell = mem[p].cell /\ mem'[0].cell = mem[0].cell /\ (mem'[p].tag = "wrap" <=> mem[p].tag = "wrap")
    BY <1>6 DEF SameCells
  <2>2. Key(p)' = Key(p)
    BY <2>1 DEF Key
  <2> QED BY <1>1, <2>1, <2>2 DEF Type, Size
<1>8. \A p \in bottom .. write_ptr - 1 : mem'[p] = mem[p]
  BY DEF SameCells
<1>9. ASSUME NEW a, NEW b, NEW n, \A x \in a .. b - 1 : x \in Addr, \A x \in a .. b - 1 : mem[x].cell = n - (b - x)
      PROVE  \A x \in a .. b - 1 : mem'[x].cell = n - (b - x)
  BY <1>9 DEF SameCells
<1>10. CASE Straight
  <2>1. Laid(top, write_ptr, Count) /\ Base + top \in DOMAIN stream
    BY <1>10 DEF Order, Ring, Straight
  <2>2. Laid(top, write_ptr, Count)'
    <3>1. \A x \in top .. write_ptr - 1 : x \in Addr
      BY RingNumbers DEF Addr
    <3> QED BY <1>1, <1>2, <1>9, <2>1, <3>1 DEF Laid
  <2>3. Ring(m)'
    BY <1>1, <1>2, <1>8, <1>10, <2>1, <2>2 DEF Order, Ring, Straight
  <2> QED BY <1>2, <1>4, <1>5, <1>7, <2>3
<1>11. CASE ~Straight
  <2>1. Laid(0, write_ptr, Count) /\ Laid(top, m, Base) /\ mem[m] = Mark
    BY <1>11 DEF Order, Ring, Straight
  <2>2. (\A x \in 0 .. write_ptr - 1 : x \in Addr) /\ (\A x \in top .. m - 1 : x \in Addr)
    BY RingNumbers DEF Addr
  <2>3. Laid(0, write_ptr, Count)' /\ Laid(top, m, Base)'
    <3>1. \A x \in 0 .. write_ptr - 1 : mem'[x].cell = Count - (write_ptr - x)
      BY <1>9, <2>1, <2>2 DEF Laid
    <3>2. \A x \in top .. m - 1 : mem'[x].cell = Base - (m - x)
      BY <1>9, <2>1, <2>2 DEF Laid
    <3> QED BY <1>1, <1>2, <3>1, <3>2 DEF Laid
  <2>4. mem'[m] = Mark
    BY <2>1 DEF Order, SameCells, Mark
  <2>5. Ring(m)'
    BY <1>1, <1>2, <1>8, <1>11, <2>3, <2>4 DEF Order, Ring, Straight
  <2> QED BY <1>2, <1>4, <1>5, <1>7, <2>5
<1> QED BY <1>10, <1>11

\* Before the first sector every ring is right.
LEMMA NoRing ==
  ASSUME ~Fed, Opening, TypeOK, Typed, NEW m
  PROVE  /\ Ring(m) /\ Syncing(m) /\ Seeking(m) /\ top = 0 /\ bottom = 0 /\ write_ptr = 0
         /\ InUse(m) = {} /\ Holding(m) /\ Trail = << >> /\ Live = {}
<1>1. top = 0 /\ bottom = 0 /\ write_ptr = 0 /\ sync.pc = "idle" /\ ~Walking /\ \A c \in Consumer : held[c] = << >>
  BY DEF Opening
<1>2. InUse(m) = {}
  BY <1>1 DEF InUse
<1>3. \A c \in Consumer : 1 .. Len(held[c]) = {}
  BY <1>1
<1>4. Holding(m)
  BY <1>2, <1>3 DEF Holding, Heads
<1> QED BY <1>1, <1>2, <1>4, EmptyTrail, StreamFacts DEF Ring, Syncing, Seeking

\* The same, to be said of the next state.
LEMMA NoRingAll == \A q : ~Fed /\ Opening /\ TypeOK /\ Typed => Ring(q) /\ Syncing(q) /\ Seeking(q) /\ Holding(q)
BY NoRing

\* What an invariant state has, fed or not.
LEMMA PartsFacts ==
  ASSUME IInv
  PROVE  Played /\ \E m \in Addr : Parts(m) /\ (Fed => Order(m)) /\ Heads(m) \subseteq Addr
<1>1. Played
  BY StreamFacts DEF IInv
<1>2. PICK m \in Addr : Parts(m)
  BY DEF IInv
<1>3. Fed => Order(m)
  BY <1>1, <1>2 DEF IInv, Parts, Order
<1>4. Heads(m) \subseteq Addr
  <2>1. CASE Fed
    BY <1>3, <2>1, PlaceFacts DEF Places
  <2>2. CASE ~Fed
    BY <2>2, NoRing DEF IInv, Heads
  <2> QED BY <2>1, <2>2
<1> QED BY <1>1, <1>2, <1>3, <1>4

\* Whether the first sector is there or not.
LEMMA SameAll ==
  ASSUME IInv, NEW m \in Addr, Parts(m), SameCells
  PROVE  /\ Ring(m)' /\ (Fed' <=> Fed) /\ Heads(m)' = Heads(m) /\ Places(m)' = Places(m)
         /\ \A p \in Addr : Key(p)' = Key(p) /\ Type(mem, p)' = Type(mem, p) /\ Size(mem, p)' = Size(mem, p)
         /\ Heads(m) \subseteq Addr /\ Places(m) \subseteq Addr
<1>1. CASE Fed
  <2>1. Order(m)
    BY <1>1, StreamFacts DEF IInv, Parts, Order
  <2> QED BY <1>1, <2>1, SamePlaces
<1>2. CASE ~Fed
  <2>1. ~Fed' /\ bottom' = bottom /\ top' = top
    BY <1>2 DEF SameCells, Fed
  <2>2. InUse(m) = {} /\ bottom = 0 /\ top = 0
    BY <1>2, NoRing DEF IInv
  <2>3. InUse(m)' = {}
    BY <2>1, <2>2 DEF InUse
  <2>4. Heads(m) = {} /\ Heads(m)' = {} /\ 0 \in Addr
    BY <2>2, <2>3 DEF Heads, IInv, TypeOK
  <2>5. Places(m) = {0} /\ Places(m)' = {0}
    BY <2>1, <2>2, <2>4 DEF Places
  <2>6. ASSUME NEW p \in Addr PROVE Key(p)' = Key(p) /\ Type(mem, p)' = Type(mem, p) /\ Size(mem, p)' = Size(mem, p)
    <3>1. mem'[p].cell = mem[p].cell /\ mem'[0].cell = mem[0].cell /\ (mem'[p].tag = "wrap" <=> mem[p].tag = "wrap")
          /\ stream' = stream
      BY <2>4 DEF SameCells
    <3>2. Key(p)' = Key(p)
      BY <3>1 DEF Key
    <3> QED BY <3>1, <3>2 DEF Type, Size
  <2> QED BY <1>2, <2>1, <2>4, <2>5, <2>6 DEF Ring
<1> QED BY <1>1, <1>2

\* Where the disk writes depends on nothing that such a step changes.
LEMMA SameReading ==
  ASSUME IInv, NEW m \in Addr, Parts(m), SameCells, UNCHANGED <<heap_end, unread, drive, read, stop, end>>
  PROVE  Reading'
<1>1. /\ top' = top /\ bottom' = bottom /\ write_ptr' = write_ptr /\ (Fed' <=> Fed)
  BY SameAll DEF SameCells
<1>2. bottom \in Addr
  BY DEF IInv, TypeOK
<1>3. Type(mem, bottom)' = Type(mem, bottom) /\ Size(mem, bottom)' = Size(mem, bottom)
  <2>1. \A p \in Addr : Type(mem, p)' = Type(mem, p) /\ Size(mem, p)' = Size(mem, p)
    BY SameAll
  <2> QED BY <1>1, <1>2, <2>1 DEF Type, Size
<1>4. Reading
  BY DEF IInv
<1> QED BY <1>1, <1>3, <1>4 DEF Reading

\* FS_StreamSync, up to its walk.
LEMMA SyncBeginStep == ASSUME IInv, SyncBegin PROVE IInv'
<1>1. PICK m \in Addr : Parts(m) /\ (Fed => Order(m))
  BY PartsFacts
<1>2. UNCHANGED ringVars /\ UNCHANGED <<read, sector, stop, end, drive, walk, held, stream, starts>>
  BY DEF SyncBegin
<1>3. SameCells
  BY <1>2, UnchangedCells DEF ringVars
<1>4. UNCHANGED <<mem, top, bottom, write_ptr, heap_end, unread>>
  BY <1>2 DEF ringVars
<1>5. TypeOK'
  BY <1>2, <1>4 DEF IInv, TypeOK, SyncBegin
<1>6. sync' = sync \/ /\ Fed /\ ~end /\ ~stop /\ (task_state = -1 => ~read)
                      /\ sync' = [pc |-> "walk", ptr |-> top, lim |-> bottom, read |-> read]
  <2>1. ASSUME ~end, ~stop, task_state = -1 => ~read, ~Fed PROVE FALSE
    BY <2>1 DEF IInv, Opening
  <2> QED BY <2>1 DEF SyncBegin
<1>7. Typed'
  BY <1>2, <1>4, <1>6 DEF IInv, Typed, TypeOK
<1>8. Fed' <=> Fed
  BY <1>2 DEF Fed
<1>9. Opening'
  <2>1. ~Fed => sync' = sync
    BY <1>6
  <2>2. ~Fed /\ ~stop => task_state' = task_state
    BY DEF IInv, Opening, SyncBegin
  <2> QED BY <1>2, <1>4, <1>8, <2>1, <2>2 DEF IInv, Opening, Walking
<1>10. Reading'
  BY <1>1, <1>2, <1>3, <1>4, SameReading
<1>11. Stopping'
  BY <1>2, <1>6 DEF IInv, Stopping
<1>12. /\ Ring(m)' /\ Heads(m)' = Heads(m) /\ Places(m)' = Places(m)
       /\ \A p \in Addr : Key(p)' = Key(p) /\ Type(mem, p)' = Type(mem, p)
       /\ Heads(m) \subseteq Addr /\ Places(m) \subseteq Addr
  BY <1>1, <1>3, SameAll
<1>13. Seeking(m)' /\ Holding(m)'
  BY <1>1, <1>2, <1>4, <1>12 DEF Parts, Seeking, Holding, Walking
<1>14. Syncing(m)'
  <2>1. CASE sync' = sync
    BY <1>1, <1>2, <1>4, <1>8, <1>12, <2>1 DEF Parts, Syncing, Walking
  <2>2. CASE sync' # sync
    <3>1. /\ Fed /\ ~end /\ ~stop
          /\ sync' = [pc |-> "walk", ptr |-> top, lim |-> bottom, read |-> read]
      BY <1>6, <2>2
    <3>2. Order(m)
      BY <1>1, <3>1
    <3>3. /\ top \in Places(m) /\ bottom \in Places(m) /\ Key(top) <= Key(bottom)
          /\ \A p \in Heads(m) : Key(p) \in Nat /\ Key(top) <= Key(p)
      BY <3>2, KeyOrder DEF Places
    <3>4. \A p \in Heads(m) : ~(Key(p) < Key(top))
      BY <3>2, <3>3, KeyOrder
    <3>5. ~read => ~drive.on
      BY DEF IInv, Reading
    <3> QED BY <1>2, <1>4, <1>8, <1>12, <3>1, <3>3, <3>4, <3>5 DEF Syncing, Walking
  <2> QED BY <2>1, <2>2
<1> QED BY <1>5, <1>7, <1>9, <1>10, <1>11, <1>12, <1>13, <1>14 DEF IInv, Parts

\* A header that the walk of FS_StreamSync looks at.
LEMMA SyncWalkStep == ASSUME IInv, SyncWalk PROVE IInv'
<1>1. PICK m \in Addr : Parts(m) /\ (Fed => Order(m))
  BY PartsFacts
<1>2. UNCHANGED ringVars /\ UNCHANGED flagVars /\ UNCHANGED <<drive, walk, held, stream, starts>>
  BY DEF SyncWalk
<1>3. SameCells
  BY <1>2, UnchangedCells DEF flagVars
<1>4. UNCHANGED <<mem, top, bottom, write_ptr, heap_end, unread, read, sector, stop, end, task_state>>
  BY <1>2 DEF ringVars, flagVars
<1>5. sync.pc = "walk" /\ Fed /\ Order(m)
  BY <1>1 DEF SyncWalk, Parts, Syncing
<1>6. PICK lim \in {sync.lim, bottom} :
        sync' = IF sync.ptr = lim \/ mem[sync.ptr].tag \notin {"wrap", "clear"}
                THEN [sync EXCEPT !.pc = "end", !.lim = lim]
                ELSE [sync EXCEPT !.ptr = After(sync.ptr), !.lim = lim]
  BY DEF SyncWalk
<1>7. /\ sync.ptr \in Places(m) /\ lim \in Places(m) /\ Key(sync.ptr) <= Key(lim) /\ Key(sync.ptr) \in Nat /\ Key(lim) \in Nat
      /\ lim \in Addr
      /\ \A p \in Heads(m) : Key(p) < Key(sync.ptr) => mem[p].tag \in {"clear", "wrap"}
  BY <1>1, <1>5, <1>6, KeyOrder, PlaceFacts DEF Parts, Syncing
<1>8. sync \in [pc : {"idle", "walk", "end"}, ptr : Addr, lim : Addr, read : BOOLEAN]
  BY DEF IInv, Typed
<1>9. \/ sync' = [sync EXCEPT !.pc = "end", !.lim = lim]
      \/ /\ sync.ptr # lim /\ mem[sync.ptr].tag \in {"wrap", "clear"}
         /\ sync' = [sync EXCEPT !.ptr = After(sync.ptr), !.lim = lim]
  BY <1>6
<1>10. sync.ptr # lim => /\ sync.ptr \in Heads(m) /\ After(sync.ptr) \in Places(m) /\ After(sync.ptr) \in Addr
                         /\ Key(After(sync.ptr)) \in Nat /\ Key(After(sync.ptr)) <= Key(lim)
                         /\ \A q \in Places(m) : Key(q) \in Nat /\ (Key(q) <= Key(sync.ptr) \/ Key(After(sync.ptr)) <= Key(q))
  <2>1. SUFFICES ASSUME sync.ptr # lim
                 PROVE  /\ sync.ptr \in Heads(m) /\ After(sync.ptr) \in Places(m) /\ After(sync.ptr) \in Addr
                        /\ Key(After(sync.ptr)) \in Nat /\ Key(After(sync.ptr)) <= Key(lim)
                        /\ \A q \in Places(m) : Key(q) \in Nat /\ (Key(q) <= Key(sync.ptr) \/ Key(After(sync.ptr)) <= Key(q))
    OBVIOUS
  <2>2. Key(sync.ptr) < Key(lim)
    <3>1. Key(sync.ptr) # Key(lim)
      BY <1>5, <1>7, <2>1, KeyOrder
    <3> QED BY <1>7, <3>1
  <2>3. Key(lim) <= Key(bottom) /\ Key(bottom) \in Nat
    BY <1>5, <1>7, KeyOrder
  <2>4. Key(sync.ptr) < Key(bottom)
    BY <1>7, <2>2, <2>3
  <2>5. sync.ptr \in Heads(m)
    BY <1>5, <1>7, <2>4, KeyOrder
  <2>6. After(sync.ptr) \in Places(m) /\ \A q \in Places(m) : Key(q) <= Key(sync.ptr) \/ Key(After(sync.ptr)) <= Key(q)
    BY <1>5, <2>5, NextFacts
  <2>7. Key(After(sync.ptr)) \in Nat /\ After(sync.ptr) \in Addr /\ \A q \in Places(m) : Key(q) \in Nat
    BY <1>5, <2>6, PlaceFacts, KeyOrder
  <2>8. Key(After(sync.ptr)) <= Key(lim)
    BY <1>7, <2>2, <2>6, <2>7
  <2> QED BY <2>5, <2>6, <2>7, <2>8
<1>11. TypeOK'
  BY <1>2, <1>4 DEF IInv, TypeOK
<1>12. Typed'
  <2>1. sync' \in [pc : {"idle", "walk", "end"}, ptr : Addr, lim : Addr, read : BOOLEAN]
    BY <1>7, <1>8, <1>9, <1>10
  <2> QED BY <1>2, <1>4, <2>1 DEF IInv, Typed
<1>13. Fed' /\ Opening'
  BY <1>4, <1>5 DEF Fed, Opening
<1>14. Reading'
  BY <1>1, <1>2, <1>3, <1>4, SameReading
<1>15. Stopping'
  BY <1>4, <1>5 DEF IInv, Stopping
<1>16. /\ Ring(m)' /\ Heads(m)' = Heads(m) /\ Places(m)' = Places(m)
       /\ \A p \in Addr : Key(p)' = Key(p) /\ Type(mem, p)' = Type(mem, p)
       /\ Heads(m) \subseteq Addr /\ Places(m) \subseteq Addr
  BY <1>1, <1>3, SameAll
<1>17. Seeking(m)' /\ Holding(m)'
  BY <1>1, <1>2, <1>4, <1>16 DEF Parts, Seeking, Holding, Walking
<1>18. Syncing(m)'
  <2>1. ~sync.read => ~drive.on /\ ~end /\ ~read
    BY <1>1, <1>5 DEF Parts, Syncing
  <2>2. CASE sync' = [sync EXCEPT !.pc = "end", !.lim = lim]
    <3>1. sync'.ptr = sync.ptr /\ sync'.lim = lim /\ sync'.read = sync.read
      BY <1>8, <2>2
    <3> QED BY <1>2, <1>4, <1>5, <1>7, <1>13, <1>16, <2>1, <3>1 DEF Syncing, Walking
  <2>3. CASE /\ sync.ptr # lim /\ mem[sync.ptr].tag \in {"wrap", "clear"}
             /\ sync' = [sync EXCEPT !.ptr = After(sync.ptr), !.lim = lim]
    <3> DEFINE q == After(sync.ptr)
    <3>1. sync'.ptr = q /\ sync'.lim = lim /\ sync'.read = sync.read
      BY <1>8, <2>3
    <3>2. /\ q \in Places(m) /\ q \in Addr /\ Key(q) \in Nat /\ Key(q) <= Key(lim)
          /\ \A r \in Places(m) : Key(r) \in Nat /\ (Key(r) <= Key(sync.ptr) \/ Key(q) <= Key(r))
      BY <1>10, <2>3
    <3> HIDE DEF q
    <3>3. ASSUME NEW p \in Heads(m), Key(p) < Key(q) PROVE mem[p].tag \in {"clear", "wrap"}
      <4>1. p \in Places(m)
        BY DEF Places
      <4>2. Key(p) \in Nat /\ Key(p) <= Key(sync.ptr)
        BY <3>2, <3>3, <4>1
      <4>3. CASE Key(p) < Key(sync.ptr)
        BY <1>7, <4>3
      <4>4. CASE Key(p) = Key(sync.ptr)
        <5>1. p = sync.ptr
          BY <1>5, <1>7, <4>1, <4>4, KeyOrder
        <5> QED BY <2>3, <5>1
      <4> QED BY <1>7, <4>2, <4>3, <4>4
    <3> QED BY <1>2, <1>4, <1>5, <1>7, <1>13, <1>16, <2>1, <3>1, <3>2, <3>3 DEF Syncing, Walking
  <2> QED BY <1>9, <2>2, <2>3
<1> QED BY <1>11, <1>12, <1>13, <1>14, <1>15, <1>16, <1>17, <1>18 DEF IInv, Parts

Cells == [cell : Nat \cup {None}, tag : {"blank", "fresh", "busy", "clear", "wrap"}]

\* A step of a user: it marks headers, and changes what is held and where the walk is.
UserStep ==
  /\ SameCells /\ mem' \in [Addr -> Cells]
  /\ UNCHANGED <<top, bottom, write_ptr, heap_end, unread, flagVars, drive, sync, stream, starts>>
  /\ held' \in [Consumer -> Seq(Addr)]
  /\ walk' \in [ptr : Addr \cup {None}, lim : Addr]

\* What a step of a user leaves to show: its own walk, and what is held.
LEMMA UserStepFacts ==
  ASSUME IInv, sync.pc = "idle", NEW m \in Addr, Order(m), Parts(m), UserStep, Seeking(m)', Holding(m)'
  PROVE  IInv'
<1>1. UNCHANGED <<top, bottom, write_ptr, heap_end, unread, read, sector, stop, end, task_state, drive, sync, stream, starts>>
  BY DEF UserStep, flagVars
<1>2. TypeOK'
  BY <1>1 DEF IInv, TypeOK, UserStep, Cells
<1>3. Typed'
  <2>1. \A p \in Addr : mem'[p].tag = "wrap" => mem'[p].cell = None
    BY DEF UserStep, SameCells, IInv, Typed
  <2> QED BY <1>1, <2>1 DEF IInv, Typed, UserStep
<1>4. Fed /\ Fed'
  BY <1>1 DEF Order, Fed
<1>5. Opening'
  BY <1>4 DEF Opening
<1>6. Reading'
  BY <1>1, SameReading DEF UserStep
<1>7. Stopping'
  BY <1>1 DEF IInv, Stopping
<1>8. Ring(m)'
  BY SameAll DEF UserStep
<1>9. Syncing(m)'
  BY <1>1 DEF Syncing
<1> QED BY <1>2, <1>3, <1>5, <1>6, <1>7, <1>8, <1>9 DEF IInv, Parts

\* A header that is marked.
LEMMA Remark ==
  ASSUME IInv, NEW m \in Addr, Order(m), NEW p \in Heads(m), mem[p].tag # "wrap", NEW t \in {"busy", "clear"},
         mem' = [mem EXCEPT ![p].tag = t],
         UNCHANGED <<top, bottom, write_ptr, sector, stream>>
  PROVE  /\ SameCells /\ mem' \in [Addr -> Cells]
         /\ \A q \in Addr : mem'[q].cell = mem[q].cell /\ mem'[q].tag = IF q = p THEN t ELSE mem[q].tag
         /\ p \in Addr
<1>1. mem \in [Addr -> Cells]
  BY DEF IInv, TypeOK, Cells
<1>2. p \in Addr
  BY PlaceFacts DEF Places
<1>3. ASSUME NEW q \in Addr PROVE mem'[q] = IF q = p THEN [cell |-> mem[p].cell, tag |-> t] ELSE mem[q]
  <2>1. mem[p] = [cell |-> mem[p].cell, tag |-> mem[p].tag]
    BY <1>1, <1>2 DEF Cells
  <2>2. [mem[p] EXCEPT !.tag = t] = [cell |-> mem[p].cell, tag |-> t]
    BY <2>1
  <2> QED BY <1>1, <1>2, <2>2
<1>4. mem' \in [Addr -> Cells]
  <2>1. [cell |-> mem[p].cell, tag |-> t] \in Cells
    BY <1>1, <1>2 DEF Cells
  <2>2. mem' = [q \in Addr |-> mem'[q]]
    BY <1>1
  <2> QED BY <1>1, <1>3, <2>1, <2>2
<1>5. ASSUME NEW q \in Addr PROVE mem'[q].cell = mem[q].cell /\ mem'[q].tag = IF q = p THEN t ELSE mem[q].tag
  BY <1>3
<1>6. ASSUME NEW q \in bottom .. write_ptr - 1 PROVE q # p /\ q \in Addr
  <2>1. q \in Addr
    BY CellFacts
  <2>2. p \in InUse(m)
    BY DEF Heads
  <2> QED BY <1>6, <2>1, <2>2, RingNumbers DEF InUse, Straight
<1>7. SameCells
  BY <1>2, <1>3, <1>5, <1>6 DEF SameCells
<1> QED BY <1>2, <1>4, <1>5, <1>7

\* Headers that are no mark are in the order of their blocks.
LEMMA KeyCells ==
  ASSUME NEW m, Order(m), NEW p \in Heads(m), NEW q \in Heads(m), mem[p].tag # "wrap", mem[q].tag # "wrap"
  PROVE  (Key(p) < Key(q) <=> mem[p].cell < mem[q].cell) /\ (p # q /\ ~(Key(q) < Key(p)) => mem[p].cell < mem[q].cell)
<1>1. p \in Places(m) /\ q \in Places(m)
  BY DEF Places
<1>2. /\ Key(p) = 2 * mem[p].cell + 1 /\ mem[p].cell \in Nat
      /\ Key(q) = 2 * mem[q].cell + 1 /\ mem[q].cell \in Nat
  BY <1>1, PlaceFacts
<1>3. p # q => Key(p) # Key(q)
  BY <1>1, KeyOrder
<1> QED BY <1>2, <1>3

\* What is held, of the headers H of a memory M.
HeldBy(H, M, h) ==
  /\ \A c \in Consumer : \A i \in 1 .. Len(h[c]) :
       /\ h[c][i] \in H /\ Type(M, h[c][i]) = c /\ M[h[c][i]].tag = "busy"
       /\ \A j \in 1 .. i - 1 : M[h[c][j]].cell < M[h[c][i]].cell
       /\ \A q \in H : Type(M, q) = c /\ M[q].tag = "fresh" => M[h[c][i]].cell < M[q].cell
  /\ \A p \in H : M[p].tag = "busy" => \E c \in Consumer : p \in Range(h[c])

\* Holding, of HeldBy.
LEMMA HoldingIs == ASSUME NEW m PROVE Holding(m) <=> HeldBy(Heads(m), mem, held)
BY DEF Holding, HeldBy

\* Holding after a step that leaves the headers where they are.
LEMMA HoldingNext ==
  ASSUME NEW m, NEW H, Heads(m)' = H, stream' = stream, HeldBy(H, mem', held')
  PROVE  Holding(m)'
<1>1. (Holding(m) <=> HeldBy(Heads(m), mem, held))'
  BY HoldingIs, PTL
<1>2. HeldBy(Heads(m), mem, held)' <=> HeldBy(H, mem', held')
  BY DEF HeldBy, Type
<1> QED BY <1>1, <1>2

\* A user marks its block at p, the first of those that it has not marked.
Marks(m, c, p, was, is) ==
  /\ Order(m) /\ Parts(m) /\ SameCells /\ m \in Addr
  /\ p \in Heads(m) /\ Type(mem, p) = c /\ mem[p].tag = was
  /\ \A q \in Addr : mem'[q].cell = mem[q].cell /\ mem'[q].tag = IF q = p THEN is ELSE mem[q].tag
  /\ \A q \in Heads(m) : Type(mem, q) = c /\ mem[q].tag = was /\ q # p => mem[p].cell < mem[q].cell

\* The game takes a block.
LEMMA GetDataStep == ASSUME IInv, GetData PROVE IInv' /\ \E m, p : Marks(m, "game", p, "fresh", "busy")
<1>1. PICK m \in Addr : Parts(m) /\ (Fed => Order(m))
  BY PartsFacts
<1>2. /\ sync.pc = "idle" /\ ~stop /\ held["game"] = << >>
      /\ UNCHANGED <<top, bottom, write_ptr, heap_end, unread, flagVars, drive, sync, walk, stream, starts>>
  BY DEF GetData
<1>3. PICK k \in DOMAIN Trail :
        LET Mine(n) == Type(mem, Trail[n]) = "game" /\ mem[Trail[n]].tag = "fresh"
        IN /\ Mine(k) /\ \A n \in 1 .. k - 1 : ~Mine(n)
           /\ mem' = [mem EXCEPT ![Trail[k]].tag = "busy"]
           /\ held' = [held EXCEPT !["game"] = <<Trail[k]>>]
  BY DEF GetData
<1> DEFINE p == Trail[k]
<1>4. /\ Type(mem, p) = "game" /\ mem[p].tag = "fresh"
      /\ \A n \in 1 .. k - 1 : ~(Type(mem, Trail[n]) = "game" /\ mem[Trail[n]].tag = "fresh")
      /\ mem' = [mem EXCEPT ![p].tag = "busy"]
      /\ held' = [held EXCEPT !["game"] = <<p>>]
  BY <1>3
<1>5. Fed
  <2>1. CASE ~Fed
    BY <2>1, NoRing DEF IInv
  <2> QED BY <2>1
<1>6. Order(m)
  BY <1>1, <1>5
<1>7. p \in Heads(m)
  BY <1>6, TrailFacts
<1>8. ASSUME NEW q \in Heads(m), Type(mem, q) = "game", mem[q].tag = "fresh", q # p PROVE mem[p].cell < mem[q].cell
  <2>1. PICK n \in 1 .. Len(Trail) : Trail[n] = q
    BY <1>6, TrailFacts DEF Live, Range
  <2>2. k \in 1 .. Len(Trail) /\ Len(Trail) \in Nat
    BY <1>6, TrailFacts
  <2>3. ~(n \in 1 .. k - 1) /\ n # k
    BY <1>4, <1>8, <2>1
  <2>4. k < n
    BY <2>2, <2>3
  <2>5. Key(p) < Key(q)
    BY <1>6, <2>1, <2>2, <2>4, TrailFacts
  <2> QED BY <1>4, <1>6, <1>7, <1>8, <2>5, KeyCells
<1> HIDE DEF p
<1>9. /\ SameCells /\ mem' \in [Addr -> Cells]
      /\ \A q \in Addr : mem'[q].cell = mem[q].cell /\ mem'[q].tag = IF q = p THEN "busy" ELSE mem[q].tag
      /\ p \in Addr
  BY <1>2, <1>4, <1>6, <1>7, Remark DEF flagVars
<1>10. /\ held \in [Consumer -> Seq(Addr)] /\ held'["game"] = <<p>> /\ held'["sound"] = held["sound"]
       /\ held' \in [Consumer -> Seq(Addr)]
  <2>1. held \in [Consumer -> Seq(Addr)]
    BY DEF IInv, TypeOK
  <2>2. "game" \in Consumer /\ "sound" \in Consumer
    BY DEF Consumer
  <2>3. <<p>> \in Seq(Addr)
    BY <1>9
  <2> QED BY <1>4, <2>1, <2>2, <2>3
<1>11. UserStep
  BY <1>2, <1>9, <1>10 DEF UserStep, IInv, Typed
<1>12. /\ Heads(m)' = Heads(m) /\ Places(m)' = Places(m)
       /\ \A q \in Addr : Key(q)' = Key(q) /\ Type(mem, q)' = Type(mem, q)
       /\ Heads(m) \subseteq Addr /\ Places(m) \subseteq Addr
  BY <1>1, <1>9, SameAll
<1>13. Seeking(m)'
  <2>1. walk' = walk
    BY <1>2
  <2>2. Seeking(m)
    BY <1>1 DEF Parts
  <2>3. \A q \in Heads(m) : mem'[q].tag = "fresh" => mem[q].tag = "fresh"
    BY <1>9, <1>12
  <2> QED BY <1>2, <1>12, <2>1, <2>2, <2>3 DEF Seeking, Walking
<1>14. HeldBy(Heads(m), mem', held')
  <2>0. \A q \in Addr : Type(mem', q) = Type(mem, q)
    BY <1>9 DEF Type
  <2>1. ASSUME NEW c \in Consumer, NEW i \in 1 .. Len(held'[c])
        PROVE  /\ held'[c][i] \in Heads(m) /\ Type(mem', held'[c][i]) = c /\ mem'[held'[c][i]].tag = "busy"
               /\ \A j \in 1 .. i - 1 : mem'[held'[c][j]].cell < mem'[held'[c][i]].cell
               /\ \A q \in Heads(m) : Type(mem', q) = c /\ mem'[q].tag = "fresh" => mem'[held'[c][i]].cell < mem'[q].cell
    <3>1. CASE c = "game"
      <4>1. Len(<<p>>) = 1 /\ <<p>>[1] = p
        OBVIOUS
      <4>2. held'[c] = <<p>>
        BY <1>10, <3>1
      <4>3. i = 1 /\ held'[c][i] = p
        BY <4>1, <4>2
      <4>4. \A j \in 1 .. i - 1 : FALSE
        BY <4>3
      <4>5. \A q \in Heads(m) : Type(mem', q) = "game" /\ mem'[q].tag = "fresh" => mem'[p].cell < mem'[q].cell
        BY <1>8, <1>9, <1>12, <2>0
      <4>6. Type(mem', p) = "game" /\ mem'[p].tag = "busy"
        BY <1>4, <1>9, <2>0
      <4> QED BY <1>7, <3>1, <4>3, <4>4, <4>5, <4>6
    <3>2. CASE c = "sound"
      <4> DEFINE H == held["sound"]
      <4>1. held'[c] = H /\ i \in 1 .. Len(H) /\ H \in Seq(Addr)
        BY <1>10, <3>2 DEF Consumer
      <4>2. /\ H[i] \in Heads(m) /\ Type(mem, H[i]) = "sound" /\ mem[H[i]].tag = "busy"
            /\ \A j \in 1 .. i - 1 : mem[H[j]].cell < mem[H[i]].cell
            /\ \A q \in Heads(m) : Type(mem, q) = "sound" /\ mem[q].tag = "fresh" => mem[H[i]].cell < mem[q].cell
        BY <1>1, <3>2, <4>1 DEF Parts, Holding
      <4>3. \A j \in 1 .. i - 1 : H[j] \in Addr
        BY <4>1
      <4> HIDE DEF H
      <4>4. H[i] # p /\ H[i] \in Addr
        BY <1>4, <1>12, <4>2
      <4> QED BY <1>9, <1>12, <2>0, <3>2, <4>1, <4>2, <4>3, <4>4
    <3> QED BY <3>1, <3>2 DEF Consumer
  <2>2. ASSUME NEW q \in Heads(m), mem'[q].tag = "busy" PROVE \E c \in Consumer : q \in Range(held'[c])
    <3>1. CASE q = p
      <4>1. q \in Range(held'["game"])
        BY <1>10, <3>1 DEF Range
      <4> QED BY <4>1 DEF Consumer
    <3>2. CASE q # p
      <4>1. mem[q].tag = "busy"
        BY <1>9, <1>12, <2>2, <3>2
      <4>2. PICK c \in Consumer : q \in Range(held[c])
        BY <1>1, <4>1 DEF Parts, Holding
      <4>3. c # "game"
        BY <1>2, <4>2 DEF Range
      <4> QED BY <1>10, <4>2, <4>3 DEF Consumer
    <3> QED BY <3>1, <3>2
  <2> QED BY <2>1, <2>2 DEF HeldBy
<1>15. Holding(m)'
  BY <1>2, <1>12, <1>14, HoldingNext
<1>16. IInv'
  BY <1>1, <1>2, <1>6, <1>11, <1>13, <1>15, UserStepFacts
<1>17. Marks(m, "game", p, "fresh", "busy")
  BY <1>1, <1>4, <1>6, <1>7, <1>8, <1>9 DEF Marks
<1> QED BY <1>16, <1>17

\* What a step that leaves the memory alone leaves of the rest.
LEMMA UnmarkedStep ==
  ASSUME IInv, NEW m \in Addr, Parts(m), mem' = mem,
         UNCHANGED <<top, bottom, write_ptr, heap_end, unread, flagVars, drive, sync, stream, starts>>,
         held' \in [Consumer -> Seq(Addr)], walk' \in [ptr : Addr \cup {None}, lim : Addr]
  PROVE  UserStep
<1>1. SameCells
  BY DEF SameCells, flagVars
<1>2. mem' \in [Addr -> Cells]
  BY DEF IInv, TypeOK, Cells
<1> QED BY <1>1, <1>2 DEF UserStep

\* The sound task begins to look for a block.
LEMMA SoundGetBeginStep == ASSUME IInv, SoundGetBegin PROVE IInv'
<1>1. PICK m \in Addr : Parts(m) /\ (Fed => Order(m))
  BY PartsFacts
<1>2. /\ sync.pc = "idle" /\ ~Walking /\ ~stop /\ top # bottom
      /\ walk' = [ptr |-> top, lim |-> bottom]
      /\ mem' = mem /\ held' = held
      /\ UNCHANGED <<top, bottom, write_ptr, heap_end, unread, flagVars, drive, sync, stream, starts>>
  BY DEF SoundGetBegin, ringVars
<1>3. Fed
  BY <1>2 DEF IInv, Opening
<1>4. Order(m)
  BY <1>1, <1>3
<1>5. UserStep
  BY <1>1, <1>2, UnmarkedStep DEF IInv, TypeOK
<1>6. /\ Heads(m)' = Heads(m) /\ Places(m)' = Places(m)
      /\ \A q \in Addr : Key(q)' = Key(q) /\ Type(mem, q)' = Type(mem, q)
      /\ Heads(m) \subseteq Addr /\ Places(m) \subseteq Addr
  BY <1>1, <1>5, SameAll DEF UserStep
<1>7. Seeking(m)'
  <2>1. /\ top \in Places(m) /\ bottom \in Places(m) /\ Key(top) <= Key(bottom)
        /\ \A p \in Heads(m) : ~(Key(p) < Key(top))
    BY <1>4, KeyOrder DEF Places
  <2> QED BY <1>2, <1>6, <2>1 DEF Seeking
<1>8. Holding(m)'
  <2>1. HeldBy(Heads(m), mem', held')
    BY <1>1, <1>2, HoldingIs DEF Parts
  <2> QED BY <1>2, <1>6, <2>1, HoldingNext
<1> QED BY <1>1, <1>2, <1>4, <1>5, <1>7, <1>8, UserStepFacts

\* A header that the sound task looks at: it takes the block, goes on or gives up.
LEMMA SoundGetWalkStep ==
  ASSUME IInv, SoundGetWalk
  PROVE  IInv' /\ (mem' = mem \/ \E m, p : Marks(m, "sound", p, "fresh", "busy"))
<1>1. PICK m \in Addr : Parts(m) /\ (Fed => Order(m))
  BY PartsFacts
<1> DEFINE p == walk.ptr
<1>2. /\ sync.pc = "idle" /\ Walking
      /\ UNCHANGED <<top, bottom, write_ptr, heap_end, unread, flagVars, drive, sync, stream, starts>>
  BY DEF SoundGetWalk
<1>3. PICK lim \in {walk.lim, bottom} :
        LET mine == p # lim /\ Type(mem, p) = "sound" /\ mem[p].tag = "fresh"
        IN /\ walk' = IF p = lim \/ mine THEN AtRest ELSE [ptr |-> After(p), lim |-> lim]
           /\ IF mine THEN /\ mem' = [mem EXCEPT ![p].tag = "busy"]
                           /\ held' = [held EXCEPT !["sound"] = Append(@, p)]
              ELSE UNCHANGED <<mem, held>>
  BY DEF SoundGetWalk
<1>4. Fed
  BY <1>2 DEF IInv, Opening
<1>5. Order(m)
  BY <1>1, <1>4
<1>6. /\ p \in Places(m) /\ p \in Addr /\ Key(p) \in Nat /\ lim \in Places(m) /\ lim \in Addr /\ Key(lim) \in Nat
      /\ Key(p) <= Key(lim)
      /\ \A q \in Heads(m) : Key(q) < Key(p) /\ Type(mem, q) = "sound" => mem[q].tag # "fresh"
  BY <1>1, <1>2, <1>3, <1>5, KeyOrder, PlaceFacts DEF Parts, Seeking
<1>7. p # lim => /\ p \in Heads(m) /\ After(p) \in Places(m) /\ After(p) \in Addr
                 /\ Key(After(p)) \in Nat /\ Key(After(p)) <= Key(lim)
                 /\ \A q \in Places(m) : Key(q) \in Nat /\ (Key(q) <= Key(p) \/ Key(After(p)) <= Key(q))
  <2>1. SUFFICES ASSUME p # lim
                 PROVE  /\ p \in Heads(m) /\ After(p) \in Places(m) /\ After(p) \in Addr
                        /\ Key(After(p)) \in Nat /\ Key(After(p)) <= Key(lim)
                        /\ \A q \in Places(m) : Key(q) \in Nat /\ (Key(q) <= Key(p) \/ Key(After(p)) <= Key(q))
    OBVIOUS
  <2> HIDE DEF p
  <2>2. Key(p) < Key(lim)
    <3>1. Key(p) # Key(lim)
      BY <1>5, <1>6, <2>1, KeyOrder
    <3> QED BY <1>6, <3>1
  <2>3. Key(lim) <= Key(bottom) /\ Key(bottom) \in Nat
    BY <1>5, <1>6, KeyOrder
  <2>4. Key(p) < Key(bottom)
    BY <1>6, <2>2, <2>3
  <2>5. p \in Heads(m)
    BY <1>5, <1>6, <2>4, KeyOrder
  <2>6. After(p) \in Places(m) /\ \A q \in Places(m) : Key(q) <= Key(p) \/ Key(After(p)) <= Key(q)
    BY <1>5, <2>5, NextFacts
  <2>7. Key(After(p)) \in Nat /\ After(p) \in Addr /\ \A q \in Places(m) : Key(q) \in Nat
    BY <1>5, <2>6, PlaceFacts, KeyOrder
  <2>8. Key(After(p)) <= Key(lim)
    BY <1>6, <2>2, <2>6, <2>7
  <2> QED BY <2>5, <2>6, <2>7, <2>8
<1> HIDE DEF p
<1>8. held \in [Consumer -> Seq(Addr)] /\ AtRest \in [ptr : Addr \cup {None}, lim : Addr]
  <2>1. 0 \in Addr
    BY RingNumbers, <1>5 DEF Addr
  <2> QED BY <2>1 DEF IInv, TypeOK, AtRest
<1>9. CASE p # lim /\ Type(mem, p) = "sound" /\ mem[p].tag = "fresh"
  <2>1. walk' = AtRest /\ mem' = [mem EXCEPT ![p].tag = "busy"] /\ held' = [held EXCEPT !["sound"] = Append(@, p)]
    BY <1>3, <1>9 DEF p
  <2>2. p \in Heads(m) /\ mem[p].tag # "wrap"
    BY <1>7, <1>9
  <2>3. /\ SameCells /\ mem' \in [Addr -> Cells]
        /\ \A q \in Addr : mem'[q].cell = mem[q].cell /\ mem'[q].tag = IF q = p THEN "busy" ELSE mem[q].tag
    BY <1>2, <1>5, <2>1, <2>2, Remark DEF flagVars
  <2> DEFINE H == held["sound"]
             N == Len(H)
  <2>4. H \in Seq(Addr) /\ N \in Nat
    BY <1>8 DEF Consumer
  <2>5. held' \in [Consumer -> Seq(Addr)] /\ held'["sound"] = Append(H, p) /\ held'["game"] = held["game"]
    <3>1. Append(H, p) \in Seq(Addr)
      BY <1>6, <2>4
    <3> QED BY <1>8, <2>1, <3>1 DEF Consumer
  <2>6. /\ Len(Append(H, p)) = N + 1 /\ Append(H, p)[N + 1] = p
        /\ \A i \in 1 .. N : Append(H, p)[i] = H[i] /\ H[i] \in Addr
    BY <1>6, <2>4, AppendProperties
  <2>7. UserStep
    BY <1>2, <1>8, <2>1, <2>3, <2>5 DEF UserStep
  <2>8. /\ Heads(m)' = Heads(m) /\ Places(m)' = Places(m)
        /\ Heads(m) \subseteq Addr /\ Places(m) \subseteq Addr
    BY <1>1, <2>3, SameAll
  <2>9. Seeking(m)'
    BY <2>1 DEF Seeking, Walking, AtRest
  <2>10. \A q \in Addr : Type(mem', q) = Type(mem, q)
    BY <2>3 DEF Type
  <2>11. \A i \in 1 .. N :
            /\ H[i] \in Heads(m) /\ Type(mem, H[i]) = "sound" /\ mem[H[i]].tag = "busy"
            /\ \A j \in 1 .. i - 1 : mem[H[j]].cell < mem[H[i]].cell
            /\ \A q \in Heads(m) : Type(mem, q) = "sound" /\ mem[q].tag = "fresh" => mem[H[i]].cell < mem[q].cell
    BY <1>1 DEF Parts, Holding, Consumer
  <2> HIDE DEF H, N
  <2> DEFINE A == Append(H, p)
  <2>12. \A i \in 1 .. N + 1 : A[i] = IF i = N + 1 THEN p ELSE H[i]
    BY <2>4, <2>6
  <2> HIDE DEF A
  <2>13. ASSUME NEW q \in Heads(m), Type(mem, q) = "sound", mem[q].tag = "fresh", q # p PROVE mem[p].cell < mem[q].cell
    <3>1. ~(Key(q) < Key(p))
      BY <1>6, <2>13
    <3> QED BY <1>5, <2>2, <2>13, <3>1, KeyCells
  <2>14. ASSUME NEW i \in 1 .. N + 1
         PROVE  /\ A[i] \in Heads(m) /\ Type(mem', A[i]) = "sound" /\ mem'[A[i]].tag = "busy"
                /\ \A j \in 1 .. i - 1 : mem'[A[j]].cell < mem'[A[i]].cell
                /\ \A q \in Heads(m) : Type(mem', q) = "sound" /\ mem'[q].tag = "fresh" => mem'[A[i]].cell < mem'[q].cell
    <3>1. CASE i = N + 1
      <4>1. A[i] = p
        BY <2>4, <2>12, <3>1
      <4>2. Type(mem', p) = "sound" /\ mem'[p].tag = "busy" /\ mem'[p].cell = mem[p].cell
        BY <1>6, <1>9, <2>3, <2>10
      <4>3. ASSUME NEW j \in 1 .. i - 1 PROVE mem'[A[j]].cell < mem'[p].cell
        <5>1. j \in 1 .. N /\ A[j] = H[j] /\ H[j] \in Addr
          BY <2>4, <2>6, <2>12, <3>1
        <5>2. mem[H[j]].cell < mem[p].cell
          BY <1>9, <2>2, <2>11, <5>1
        <5> QED BY <2>3, <4>2, <5>1, <5>2
      <4>4. ASSUME NEW q \in Heads(m), Type(mem', q) = "sound", mem'[q].tag = "fresh" PROVE mem'[p].cell < mem'[q].cell
        <5>1. q \in Addr /\ q # p /\ Type(mem, q) = "sound" /\ mem[q].tag = "fresh"
          BY <2>3, <2>8, <2>10, <4>2, <4>4
        <5> QED BY <2>3, <2>13, <4>2, <5>1
      <4> QED BY <2>2, <4>1, <4>2, <4>3, <4>4
    <3>2. CASE i # N + 1
      <4>1. i \in 1 .. N /\ A[i] = H[i] /\ H[i] \in Addr
        BY <2>4, <2>6, <2>12, <3>2
      <4>2. /\ H[i] \in Heads(m) /\ Type(mem, H[i]) = "sound" /\ mem[H[i]].tag = "busy"
            /\ \A j \in 1 .. i - 1 : mem[H[j]].cell < mem[H[i]].cell
            /\ \A q \in Heads(m) : Type(mem, q) = "sound" /\ mem[q].tag = "fresh" => mem[H[i]].cell < mem[q].cell
        BY <2>11, <4>1
      <4>3. H[i] # p
        BY <1>9, <4>2
      <4>4. \A j \in 1 .. i - 1 : A[j] = H[j] /\ H[j] \in Addr
        BY <2>4, <2>6, <2>12, <4>1
      <4>5. Type(mem', H[i]) = "sound" /\ mem'[H[i]].tag = "busy" /\ mem'[H[i]].cell = mem[H[i]].cell
        BY <2>3, <2>10, <4>1, <4>2, <4>3
      <4>6. ASSUME NEW j \in 1 .. i - 1 PROVE mem'[A[j]].cell < mem'[H[i]].cell
        BY <2>3, <4>2, <4>4, <4>5
      <4>7. ASSUME NEW q \in Heads(m), Type(mem', q) = "sound", mem'[q].tag = "fresh" PROVE mem'[H[i]].cell < mem'[q].cell
        <5>1. q \in Addr /\ Type(mem, q) = "sound" /\ mem[q].tag = "fresh" /\ mem'[q].cell = mem[q].cell
          BY <2>3, <2>8, <2>10, <4>7
        <5> QED BY <4>2, <4>5, <5>1
      <4> QED BY <4>1, <4>2, <4>5, <4>6, <4>7
    <3> QED BY <3>1, <3>2
  <2>15. ASSUME NEW i \in 1 .. Len(held["game"])
         PROVE  LET a == held["game"][i] IN
                /\ a \in Heads(m) /\ Type(mem', a) = "game" /\ mem'[a].tag = "busy"
                /\ \A j \in 1 .. i - 1 : mem'[held["game"][j]].cell < mem'[a].cell
                /\ \A q \in Heads(m) : Type(mem', q) = "game" /\ mem'[q].tag = "fresh" => mem'[a].cell < mem'[q].cell
    <3> DEFINE G == held["game"]
    <3>1. /\ G[i] \in Heads(m) /\ Type(mem, G[i]) = "game" /\ mem[G[i]].tag = "busy"
          /\ \A j \in 1 .. i - 1 : mem[G[j]].cell < mem[G[i]].cell
          /\ \A q \in Heads(m) : Type(mem, q) = "game" /\ mem[q].tag = "fresh" => mem[G[i]].cell < mem[q].cell
      BY <1>1 DEF Parts, Holding, Consumer
    <3>2. \A j \in 1 .. i - 1 : G[j] \in Addr
      BY <1>8 DEF Consumer
    <3> HIDE DEF G
    <3>3. G[i] \in Addr /\ G[i] # p
      BY <1>9, <2>8, <3>1
    <3>4. /\ G[i] \in Heads(m) /\ Type(mem', G[i]) = "game" /\ mem'[G[i]].tag = "busy"
          /\ \A j \in 1 .. i - 1 : mem'[G[j]].cell < mem'[G[i]].cell
          /\ \A q \in Heads(m) : Type(mem', q) = "game" /\ mem'[q].tag = "fresh" => mem'[G[i]].cell < mem'[q].cell
      BY <2>3, <2>8, <2>10, <3>1, <3>2, <3>3
    <3> QED BY <3>4 DEF G
  <2>16. ASSUME NEW q \in Heads(m), mem'[q].tag = "busy" PROVE \E c \in Consumer : q \in Range(held'[c])
    <3>0. held'["sound"] = A /\ DOMAIN A = 1 .. N + 1
      BY <2>4, <2>5, <2>6, <1>6 DEF A
    <3>1. CASE q = p
      <4>1. N + 1 \in 1 .. N + 1 /\ A[N + 1] = p
        BY <2>4, <2>12
      <4>2. q \in Range(held'["sound"])
        BY <3>0, <3>1, <4>1 DEF Range
      <4> QED BY <4>2 DEF Consumer
    <3>2. CASE q # p
      <4>1. mem[q].tag = "busy"
        BY <2>3, <2>8, <2>16, <3>2
      <4>2. PICK c \in Consumer : q \in Range(held[c])
        BY <1>1, <4>1 DEF Parts, Holding
      <4>3. CASE c = "game"
        BY <2>5, <4>2, <4>3
      <4>4. CASE c = "sound"
        <5>1. PICK i \in 1 .. N : H[i] = q
          BY <2>4, <4>2, <4>4 DEF Range, H, N
        <5>2. i \in 1 .. N + 1 /\ A[i] = q
          BY <2>4, <2>12, <5>1
        <5>3. q \in Range(held'["sound"])
          BY <3>0, <5>2 DEF Range
        <5> QED BY <5>3 DEF Consumer
      <4> QED BY <4>3, <4>4 DEF Consumer
    <3> QED BY <3>1, <3>2
  <2>17. HeldBy(Heads(m), mem', held')
    <3>1. held'["sound"] = A /\ Len(A) = N + 1 /\ held'["game"] = held["game"]
      BY <2>5, <2>6 DEF A
    <3> QED BY <2>14, <2>15, <2>16, <3>1 DEF HeldBy, Consumer
  <2>18. Holding(m)'
    BY <1>2, <2>8, <2>17, HoldingNext
  <2>19. IInv'
    BY <1>1, <1>2, <1>5, <2>7, <2>9, <2>18, UserStepFacts
  <2>20. Marks(m, "sound", p, "fresh", "busy")
    BY <1>1, <1>5, <1>9, <2>2, <2>3, <2>13 DEF Marks
  <2> QED BY <2>19, <2>20
<1>10. CASE ~(p # lim /\ Type(mem, p) = "sound" /\ mem[p].tag = "fresh")
  <2>1. mem' = mem /\ held' = held /\ walk' = IF p = lim THEN AtRest ELSE [ptr |-> After(p), lim |-> lim]
    BY <1>3, <1>10 DEF p
  <2>2. walk' \in [ptr : Addr \cup {None}, lim : Addr]
    BY <1>6, <1>7, <1>8, <2>1
  <2>3. UserStep
    BY <1>1, <1>2, <1>8, <2>1, <2>2, UnmarkedStep
  <2>4. /\ Heads(m)' = Heads(m) /\ Places(m)' = Places(m)
        /\ \A q \in Addr : Key(q)' = Key(q) /\ Type(mem, q)' = Type(mem, q)
        /\ Heads(m) \subseteq Addr /\ Places(m) \subseteq Addr
    BY <1>1, <2>3, SameAll DEF UserStep
  <2>5. Holding(m)'
    <3>1. HeldBy(Heads(m), mem', held')
      BY <1>1, <2>1, HoldingIs DEF Parts
    <3> QED BY <1>2, <2>4, <3>1, HoldingNext
  <2>6. Seeking(m)'
    <3>1. CASE p = lim
      BY <2>1, <3>1 DEF Seeking, Walking, AtRest
    <3>2. CASE p # lim
      <4> DEFINE n == After(p)
      <4>1. walk' = [ptr |-> n, lim |-> lim]
        BY <2>1, <3>2
      <4>2. /\ p \in Heads(m) /\ n \in Places(m) /\ n \in Addr /\ Key(n) \in Nat /\ Key(n) <= Key(lim)
            /\ \A q \in Places(m) : Key(q) \in Nat /\ (Key(q) <= Key(p) \/ Key(n) <= Key(q))
        BY <1>7, <3>2
      <4> HIDE DEF n
      <4>3. ASSUME NEW q \in Heads(m), Key(q) < Key(n), Type(mem, q) = "sound" PROVE mem[q].tag # "fresh"
        <5>1. q \in Places(m)
          BY DEF Places
        <5>2. Key(q) \in Nat /\ Key(q) <= Key(p)
          BY <4>2, <4>3, <5>1
        <5>3. CASE Key(q) < Key(p)
          BY <1>6, <4>3, <5>3
        <5>4. CASE Key(q) = Key(p)
          <6>1. q = p
            BY <1>5, <1>6, <5>1, <5>4, KeyOrder
          <6> QED BY <1>10, <3>2, <4>3, <6>1
        <5> QED BY <1>6, <5>2, <5>3, <5>4
      <4> QED BY <1>6, <2>1, <2>4, <4>1, <4>2, <4>3 DEF Seeking
    <3> QED BY <3>1, <3>2
  <2>7. IInv'
    BY <1>1, <1>2, <1>5, <2>3, <2>5, <2>6, UserStepFacts
  <2> QED BY <2>1, <2>7
<1> QED BY <1>9, <1>10

\* A user gives its oldest block back.
LEMMA ClearStep ==
  ASSUME IInv, NEW c \in Consumer, FS_StreamClear(c)
  PROVE  IInv' /\ \E m, p : Marks(m, c, p, "busy", "clear")
<1>1. PICK m \in Addr : Parts(m) /\ (Fed => Order(m))
  BY PartsFacts
<1> DEFINE H == held[c]
           p == Head(H)
           N == Len(H)
<1>2. /\ sync.pc = "idle" /\ H # << >> /\ (c = "sound" => ~Walking)
      /\ mem' = [mem EXCEPT ![p].tag = "clear"]
      /\ held' = [held EXCEPT ![c] = Tail(@)]
      /\ UNCHANGED <<top, bottom, write_ptr, heap_end, unread, flagVars, drive, sync, walk, stream, starts>>
  BY DEF FS_StreamClear
<1>3. Fed
  BY <1>2 DEF IInv, Opening
<1>4. Order(m)
  BY <1>1, <1>3
<1>5. held \in [Consumer -> Seq(Addr)] /\ H \in Seq(Addr)
  BY DEF IInv, TypeOK
<1>6. N \in Nat /\ N >= 1 /\ p = H[1]
  BY <1>2, <1>5, LenProperties, EmptySeq
<1>7. /\ Tail(H) \in Seq(Addr) /\ Len(Tail(H)) = N - 1
      /\ \A i \in 1 .. N - 1 : Tail(H)[i] = H[i + 1]
  BY <1>2, <1>5, HeadTailProperties
<1>8. held' \in [Consumer -> Seq(Addr)] /\ held'[c] = Tail(H) /\ \A d \in Consumer : d # c => held'[d] = held[d]
  BY <1>2, <1>5, <1>7
<1>9. \A d \in Consumer : \A i \in 1 .. Len(held[d]) :
        /\ held[d][i] \in Addr
        /\ held[d][i] \in Heads(m) /\ Type(mem, held[d][i]) = d /\ mem[held[d][i]].tag = "busy"
        /\ \A j \in 1 .. i - 1 : mem[held[d][j]].cell < mem[held[d][i]].cell
        /\ \A q \in Heads(m) : Type(mem, q) = d /\ mem[q].tag = "fresh" => mem[held[d][i]].cell < mem[q].cell
  BY <1>1, <1>5 DEF Parts, Holding
<1>10. \A i \in 1 .. N :
        /\ H[i] \in Addr
        /\ H[i] \in Heads(m) /\ Type(mem, H[i]) = c /\ mem[H[i]].tag = "busy"
        /\ \A j \in 1 .. i - 1 : mem[H[j]].cell < mem[H[i]].cell
        /\ \A q \in Heads(m) : Type(mem, q) = c /\ mem[q].tag = "fresh" => mem[H[i]].cell < mem[q].cell
  BY <1>9
<1> DEFINE TL == Tail(H)
<1> HIDE DEF H, N, p, TL
<1>11. p \in Heads(m) /\ p \in Addr /\ Type(mem, p) = c /\ mem[p].tag = "busy"
  BY <1>6, <1>10
<1>12. /\ SameCells /\ mem' \in [Addr -> Cells]
       /\ \A q \in Addr : mem'[q].cell = mem[q].cell /\ mem'[q].tag = IF q = p THEN "clear" ELSE mem[q].tag
  BY <1>2, <1>4, <1>11, Remark DEF flagVars
<1>13. UserStep
  BY <1>2, <1>8, <1>12 DEF UserStep, IInv, Typed
<1>14. /\ Heads(m)' = Heads(m) /\ Places(m)' = Places(m)
       /\ \A q \in Addr : Key(q)' = Key(q) /\ Type(mem, q)' = Type(mem, q)
       /\ Heads(m) \subseteq Addr /\ Places(m) \subseteq Addr
  BY <1>1, <1>12, SameAll
<1>15. Seeking(m)'
  <2>1. walk' = walk /\ Seeking(m) /\ (Walking => Walking)
    BY <1>1, <1>2 DEF Parts
  <2>2. \A q \in Addr : mem'[q].tag = "fresh" => mem[q].tag = "fresh"
    BY <1>12
  <2> QED BY <1>14, <2>1, <2>2 DEF Seeking, Walking
<1>16. \A q \in Addr : Type(mem', q) = Type(mem, q)
  BY <1>12 DEF Type
<1>17. Len(TL) = N - 1 /\ TL \in Seq(Addr) /\ \A i \in 1 .. N - 1 : TL[i] = H[i + 1]
  BY <1>7 DEF TL, N
<1>18. ASSUME NEW i \in 1 .. N - 1
       PROVE  /\ TL[i] \in Heads(m) /\ Type(mem', TL[i]) = c /\ mem'[TL[i]].tag = "busy"
              /\ \A j \in 1 .. i - 1 : mem'[TL[j]].cell < mem'[TL[i]].cell
              /\ \A q \in Heads(m) : Type(mem', q) = c /\ mem'[q].tag = "fresh" => mem'[TL[i]].cell < mem'[q].cell
  <2>1. i + 1 \in 1 .. N /\ TL[i] = H[i + 1] /\ 1 \in 1 .. (i + 1) - 1
    BY <1>6, <1>17
  <2> DEFINE r == H[i + 1]
  <2>2. /\ r \in Addr /\ r \in Heads(m) /\ Type(mem, r) = c /\ mem[r].tag = "busy"
        /\ \A j \in 1 .. (i + 1) - 1 : mem[H[j]].cell < mem[r].cell
        /\ \A q \in Heads(m) : Type(mem, q) = c /\ mem[q].tag = "fresh" => mem[r].cell < mem[q].cell
    BY <1>10, <2>1
  <2>3. mem[p].cell < mem[r].cell /\ mem[p].cell \in Nat \cup {None} /\ mem[r].cell \in Nat \cup {None}
    BY <1>6, <1>11, <2>1, <2>2 DEF IInv, TypeOK
  <2>4. r # p
    BY <2>3 DEF None
  <2> HIDE DEF r
  <2>5. Type(mem', r) = c /\ mem'[r].tag = "busy" /\ mem'[r].cell = mem[r].cell
    BY <1>12, <1>16, <2>2, <2>4
  <2>6. ASSUME NEW j \in 1 .. i - 1 PROVE mem'[TL[j]].cell < mem'[r].cell
    <3>1. j + 1 \in 1 .. (i + 1) - 1 /\ TL[j] = H[j + 1] /\ j + 1 \in 1 .. N
      BY <1>6, <1>17, <2>1
    <3>2. H[j + 1] \in Addr /\ mem[H[j + 1]].cell < mem[r].cell
      BY <1>10, <2>2, <3>1
    <3> QED BY <1>12, <2>5, <3>1, <3>2
  <2>7. ASSUME NEW q \in Heads(m), Type(mem', q) = c, mem'[q].tag = "fresh" PROVE mem'[r].cell < mem'[q].cell
    <3>1. q \in Addr /\ q # p /\ Type(mem, q) = c /\ mem[q].tag = "fresh"
      BY <1>11, <1>12, <1>14, <1>16, <2>7
    <3> QED BY <1>12, <2>2, <2>5, <3>1
  <2>8. TL[i] = r
    BY <2>1 DEF r
  <2> QED BY <2>2, <2>5, <2>6, <2>7, <2>8
<1>19. ASSUME NEW d \in Consumer, d # c, NEW i \in 1 .. Len(held[d])
       PROVE  /\ held[d][i] \in Heads(m) /\ Type(mem', held[d][i]) = d /\ mem'[held[d][i]].tag = "busy"
              /\ \A j \in 1 .. i - 1 : mem'[held[d][j]].cell < mem'[held[d][i]].cell
              /\ \A q \in Heads(m) : Type(mem', q) = d /\ mem'[q].tag = "fresh" => mem'[held[d][i]].cell < mem'[q].cell
  <2> DEFINE G == held[d]
  <2>1. /\ G[i] \in Heads(m) /\ G[i] \in Addr /\ Type(mem, G[i]) = d /\ mem[G[i]].tag = "busy"
        /\ \A j \in 1 .. i - 1 : mem[G[j]].cell < mem[G[i]].cell
        /\ \A q \in Heads(m) : Type(mem, q) = d /\ mem[q].tag = "fresh" => mem[G[i]].cell < mem[q].cell
    BY <1>9
  <2>2. \A j \in 1 .. i - 1 : G[j] \in Addr
    BY <1>5
  <2> HIDE DEF G
  <2>3. G[i] # p
    BY <1>11, <1>19, <2>1
  <2>4. /\ G[i] \in Heads(m) /\ Type(mem', G[i]) = d /\ mem'[G[i]].tag = "busy"
        /\ \A j \in 1 .. i - 1 : mem'[G[j]].cell < mem'[G[i]].cell
    BY <1>12, <1>16, <2>1, <2>2, <2>3
  <2>5. \A q \in Heads(m) : Type(mem', q) = d /\ mem'[q].tag = "fresh" => mem'[G[i]].cell < mem'[q].cell
    <3>1. ASSUME NEW q \in Heads(m), Type(mem', q) = d, mem'[q].tag = "fresh" PROVE mem'[G[i]].cell < mem'[q].cell
      <4>1. q \in Addr /\ Type(mem, q) = d /\ mem[q].tag = "fresh"
        BY <1>11, <1>12, <1>14, <1>16, <1>19, <3>1
      <4> QED BY <1>12, <2>1, <4>1
    <3> QED BY <3>1
  <2> QED BY <2>4, <2>5 DEF G
<1>20. ASSUME NEW q \in Heads(m), mem'[q].tag = "busy" PROVE \E d \in Consumer : q \in Range(held'[d])
  <2>1. q \in Addr /\ q # p /\ mem[q].tag = "busy"
    BY <1>11, <1>12, <1>14, <1>20
  <2>2. PICK d \in Consumer : q \in Range(held[d])
    BY <1>1, <2>1 DEF Parts, Holding
  <2>3. CASE d # c
    BY <1>8, <2>2, <2>3
  <2>4. CASE d = c
    <3>1. PICK i \in 1 .. N : H[i] = q
      BY <1>5, <2>2, <2>4 DEF Range, H, N
    <3>2. i # 1
      BY <1>6, <2>1, <3>1
    <3>3. i - 1 \in 1 .. N - 1 /\ TL[i - 1] = H[(i - 1) + 1] /\ (i - 1) + 1 = i
      BY <1>6, <1>17, <3>1, <3>2
    <3>4. i - 1 \in DOMAIN TL /\ TL[i - 1] = q
      BY <1>6, <1>17, <3>1, <3>3
    <3>5. q \in Range(TL)
      BY <3>4 DEF Range
    <3> QED BY <1>8, <3>5 DEF TL
  <2> QED BY <2>3, <2>4
<1>21. HeldBy(Heads(m), mem', held')
  <2>1. held'[c] = TL /\ \A d \in Consumer : d # c => held'[d] = held[d]
    BY <1>8 DEF TL
  <2>2. ASSUME NEW d \in Consumer, NEW i \in 1 .. Len(held'[d])
        PROVE  /\ held'[d][i] \in Heads(m) /\ Type(mem', held'[d][i]) = d /\ mem'[held'[d][i]].tag = "busy"
               /\ \A j \in 1 .. i - 1 : mem'[held'[d][j]].cell < mem'[held'[d][i]].cell
               /\ \A q \in Heads(m) : Type(mem', q) = d /\ mem'[q].tag = "fresh" => mem'[held'[d][i]].cell < mem'[q].cell
    <3>1. CASE d = c
      BY <1>17, <1>18, <2>1, <3>1
    <3>2. CASE d # c
      <4>1. held'[d] = held[d]
        BY <2>1, <3>2
      <4>2. i \in 1 .. Len(held[d])
        BY <4>1
      <4> QED BY <1>19, <3>2, <4>1, <4>2
    <3> QED BY <3>1, <3>2
  <2> QED BY <1>20, <2>2 DEF HeldBy
<1>22. Holding(m)'
  BY <1>2, <1>14, <1>21, HoldingNext
<1>23. IInv'
  BY <1>1, <1>2, <1>4, <1>13, <1>15, <1>22, UserStepFacts
<1>24. ASSUME NEW q \in Heads(m), Type(mem, q) = c, mem[q].tag = "busy", q # p PROVE mem[p].cell < mem[q].cell
  <2>1. PICK d \in Consumer : q \in Range(held[d])
    BY <1>1, <1>24 DEF Parts, Holding
  <2>2. held[d] \in Seq(Addr)
    BY <1>5
  <2>3. PICK i \in 1 .. Len(held[d]) : held[d][i] = q
    BY <2>1, <2>2 DEF Range
  <2>4. d = c
    BY <1>9, <1>24, <2>3
  <2>5. i \in 1 .. N /\ H[i] = q
    BY <2>3, <2>4 DEF H, N
  <2>6. 1 \in 1 .. i - 1
    BY <1>6, <1>24, <2>5
  <2> QED BY <1>6, <1>10, <2>5, <2>6
<1>25. Marks(m, c, p, "busy", "clear")
  BY <1>1, <1>4, <1>11, <1>12, <1>24 DEF Marks
<1> QED BY <1>23, <1>25

\* The sound before the block at h is dropped.
Drops(m, h) ==
  /\ Order(m) /\ Parts(m) /\ SameCells /\ m \in Addr
  /\ h \in Heads(m) /\ Type(mem, h) = "game" /\ mem[h].tag = "busy"
  /\ \A q \in Heads(m) : Type(mem, q) = "sound" => mem[q].tag # "busy"
  /\ \A q \in Addr : mem'[q].cell = mem[q].cell
  /\ \A q \in Heads(m) : mem'[q].tag = IF Type(mem, q) = "sound" /\ Key(q) < Key(h) THEN "clear" ELSE mem[q].tag

\* The game drops sound.
LEMMA ClearTypeStep == ASSUME IInv, FS_StreamClearType PROVE IInv' /\ \E m, h : Drops(m, h)
<1>1. PICK m \in Addr : Parts(m) /\ (Fed => Order(m))
  BY PartsFacts
<1> DEFINE B == Before(Head(held["game"]))
<1>2. /\ sync.pc = "idle" /\ ~Walking /\ held["game"] # << >> /\ held["sound"] = << >>
      /\ mem' = [p \in Addr |-> IF p \in B /\ Type(mem, p) = "sound" THEN [mem[p] EXCEPT !.tag = "clear"] ELSE mem[p]]
      /\ held' = held /\ sync' = sync /\ walk' = walk
      /\ UNCHANGED <<top, bottom, write_ptr, heap_end, unread, flagVars, drive, sync, stream, starts>>
  BY DEF FS_StreamClearType, userVars
<1>3. Fed
  BY <1>2 DEF IInv, Opening, Consumer
<1>4. Order(m)
  BY <1>1, <1>3
<1>5. B \subseteq Heads(m)
  <2>1. Before(Head(held["game"])) \subseteq Range(Trail)
    BY DEF Before, Range
  <2> QED BY <1>4, <2>1, TrailFacts DEF Live
<1> HIDE DEF B
<1>6. mem \in [Addr -> Cells] /\ Heads(m) \subseteq Addr /\ Places(m) \subseteq Addr
  BY <1>4, PlaceFacts DEF IInv, TypeOK, Cells, Places
<1> DEFINE D(p) == p \in B /\ Type(mem, p) = "sound"
<1>7. ASSUME NEW p \in Addr
      PROVE  mem'[p] = IF D(p) THEN [cell |-> mem[p].cell, tag |-> "clear"] ELSE mem[p]
  <2>1. mem[p] = [cell |-> mem[p].cell, tag |-> mem[p].tag]
    BY <1>6 DEF Cells
  <2>2. [mem[p] EXCEPT !.tag = "clear"] = [cell |-> mem[p].cell, tag |-> "clear"]
    BY <2>1
  <2> QED BY <1>2, <2>2
<1>8. ASSUME NEW p \in Addr
      PROVE  /\ mem'[p].cell = mem[p].cell /\ mem'[p].tag = IF D(p) THEN "clear" ELSE mem[p].tag
             /\ mem'[p] \in Cells
  <2>1. mem[p] \in Cells /\ [cell |-> mem[p].cell, tag |-> "clear"] \in Cells
    BY <1>6 DEF Cells
  <2> QED BY <1>7, <2>1
<1>9. mem' \in [Addr -> Cells]
  <2>1. mem' = [p \in Addr |-> mem'[p]]
    BY <1>2
  <2> QED BY <1>8, <2>1
<1>10. ASSUME NEW p \in Addr, D(p) PROVE p \in Heads(m) /\ mem[p].tag # "wrap" /\ p \notin bottom .. write_ptr - 1
  <2>1. p \in Heads(m)
    BY <1>5, <1>10
  <2>2. mem[p].tag # "wrap"
    <3>1. mem[p].cell \in DOMAIN stream
      BY <1>10 DEF Type
    <3>2. mem[p].cell \in Nat
      BY <1>4, <3>1, BlockFacts DEF Order
    <3> QED BY <3>2 DEF IInv, Typed, None
  <2>3. p \in InUse(m)
    BY <2>1 DEF Heads
  <2>4. p \notin bottom .. write_ptr - 1
    BY <1>4, <2>3, RingNumbers DEF InUse, Straight
  <2> QED BY <2>1, <2>2, <2>4
<1> HIDE DEF D
<1>11. SameCells
  <2>1. \A p \in bottom .. write_ptr - 1 : p \in Addr
    BY <1>4, CellFacts
  <2>2. ASSUME NEW p \in Addr PROVE /\ mem'[p].cell = mem[p].cell
                                    /\ mem[p].tag = "wrap" => mem'[p] = mem[p]
                                    /\ mem[p].tag # "wrap" => mem'[p].tag # "wrap"
    BY <1>7, <1>8, <1>10
  <2>3. ASSUME NEW p \in bottom .. write_ptr - 1 PROVE mem'[p] = mem[p]
    BY <1>7, <1>10, <2>1
  <2> QED BY <1>2, <2>2, <2>3 DEF SameCells, flagVars
<1>12. UserStep
  BY <1>2, <1>9, <1>11 DEF UserStep, IInv, Typed, TypeOK
<1>13. Heads(m)' = Heads(m)
  BY <1>1, <1>11, SameAll
<1>14. Seeking(m)'
  BY <1>2 DEF Seeking, Walking
<1>15. \A q \in Addr : Type(mem', q) = Type(mem, q)
  BY <1>8 DEF Type
<1>16. ASSUME NEW q \in Addr, Type(mem, q) # "sound" PROVE mem'[q] = mem[q]
  BY <1>7, <1>16 DEF D
<1>17. ASSUME NEW q \in Addr, mem'[q].tag # "clear" PROVE mem'[q] = mem[q]
  BY <1>7, <1>8, <1>17
<1> DEFINE G == held["game"]
<1>18. ASSUME NEW i \in 1 .. Len(G)
       PROVE  /\ G[i] \in Heads(m) /\ Type(mem', G[i]) = "game" /\ mem'[G[i]].tag = "busy"
              /\ \A j \in 1 .. i - 1 : mem'[G[j]].cell < mem'[G[i]].cell
              /\ \A q \in Heads(m) : Type(mem', q) = "game" /\ mem'[q].tag = "fresh" => mem'[G[i]].cell < mem'[q].cell
  <2>1. /\ G[i] \in Heads(m) /\ Type(mem, G[i]) = "game" /\ mem[G[i]].tag = "busy"
        /\ \A j \in 1 .. i - 1 : mem[G[j]].cell < mem[G[i]].cell
        /\ \A q \in Heads(m) : Type(mem, q) = "game" /\ mem[q].tag = "fresh" => mem[G[i]].cell < mem[q].cell
    BY <1>1 DEF Parts, Holding, Consumer
  <2>2. G \in Seq(Addr)
    BY DEF IInv, TypeOK, Consumer
  <2>3. \A j \in 1 .. i - 1 : G[j] \in Addr
    BY <2>2
  <2> HIDE DEF G
  <2>4. Type(mem', G[i]) = "game" /\ mem'[G[i]] = mem[G[i]]
    BY <1>6, <1>15, <1>16, <2>1
  <2>5. \A j \in 1 .. i - 1 : mem'[G[j]].cell < mem'[G[i]].cell
    BY <1>8, <2>1, <2>3, <2>4
  <2>6. \A q \in Heads(m) : Type(mem', q) = "game" /\ mem'[q].tag = "fresh" => mem'[G[i]].cell < mem'[q].cell
    BY <1>6, <1>8, <1>15, <1>17, <2>1, <2>4
  <2> QED BY <2>1, <2>4, <2>5, <2>6
<1>19. ASSUME NEW q \in Heads(m), mem'[q].tag = "busy" PROVE \E d \in Consumer : q \in Range(held'[d])
  <2>1. mem[q].tag = "busy"
    BY <1>6, <1>17, <1>19
  <2> QED BY <1>1, <1>2, <2>1 DEF Parts, Holding
<1>20. HeldBy(Heads(m), mem', held')
  <2>1. ASSUME NEW c \in Consumer, NEW i \in 1 .. Len(held[c])
        PROVE  /\ held[c][i] \in Heads(m) /\ Type(mem', held[c][i]) = c /\ mem'[held[c][i]].tag = "busy"
               /\ \A j \in 1 .. i - 1 : mem'[held[c][j]].cell < mem'[held[c][i]].cell
               /\ \A q \in Heads(m) : Type(mem', q) = c /\ mem'[q].tag = "fresh" => mem'[held[c][i]].cell < mem'[q].cell
    <3>1. CASE c = "game"
      BY <1>18, <3>1
    <3>2. CASE c = "sound"
      <4>1. 1 .. Len(held[c]) = {}
        BY <1>2, <3>2
      <4> QED BY <4>1
    <3> QED BY <3>1, <3>2 DEF Consumer
  <2> QED BY <1>2, <1>19, <2>1, SMTT(20) DEF HeldBy
<1>21. Holding(m)'
  BY <1>2, <1>13, <1>20, HoldingNext
<1>22. IInv'
  BY <1>1, <1>2, <1>4, <1>12, <1>14, <1>21, UserStepFacts
<1>23. PICK h : h = Head(held["game"])
  OBVIOUS
<1>24. h \in Heads(m) /\ Type(mem, h) = "game" /\ mem[h].tag = "busy"
  <2>1. held["game"] \in Seq(Addr)
    BY DEF IInv, TypeOK, Consumer
  <2>2. 1 \in 1 .. Len(held["game"]) /\ h = held["game"][1]
    BY <1>2, <1>23, <2>1, LenProperties, EmptySeq
  <2> QED BY <1>1, <2>2 DEF Parts, Holding, Consumer
<1>25. B = {p \in Heads(m) : Key(p) < Key(h)}
  BY <1>4, <1>23, <1>24, BeforeFacts DEF B
<1>26. \A q \in Heads(m) : mem'[q].tag = IF Type(mem, q) = "sound" /\ Key(q) < Key(h) THEN "clear" ELSE mem[q].tag
  BY <1>6, <1>8, <1>25 DEF D
<1>27. ASSUME NEW q \in Heads(m), Type(mem, q) = "sound", mem[q].tag = "busy" PROVE FALSE
  <2>1. PICK c \in Consumer : q \in Range(held[c])
    BY <1>1, <1>27 DEF Parts, Holding
  <2>2. held[c] \in Seq(Addr)
    BY DEF IInv, TypeOK
  <2>3. PICK i \in 1 .. Len(held[c]) : held[c][i] = q
    BY <2>1, <2>2 DEF Range
  <2>4. c = "sound"
    BY <1>1, <1>27, <2>3 DEF Parts, Holding
  <2> QED BY <1>2, <2>3, <2>4
<1>28. Drops(m, h)
  BY <1>1, <1>4, <1>8, <1>11, <1>24, <1>26, <1>27 DEF Drops
<1> QED BY <1>22, <1>28

\* The game stops the stream.
LEMMA StopStep == ASSUME IInv, FS_StreamStop PROVE IInv'
<1>1. PICK m \in Addr : Parts(m)
  BY PartsFacts
<1>2. /\ sync.pc = "idle" /\ stop' = TRUE /\ end' = TRUE /\ task_state' = 0
      /\ drive' = [drive EXCEPT !.on = FALSE] \/ drive' = drive
      /\ UNCHANGED ringVars /\ UNCHANGED <<mem, top, bottom, write_ptr, heap_end, unread>>
      /\ UNCHANGED <<read, sector, sync, walk, held, stream, starts>>
  BY DEF FS_StreamStop, ringVars, userVars
<1>3. SameCells
  BY <1>2, UnchangedCells
<1>4. drive \in [on : BOOLEAN, buffer : 0 .. Heap]
  BY DEF IInv, Typed
<1>5. drive' \in [on : BOOLEAN, buffer : 0 .. Heap] /\ drive'.buffer = drive.buffer /\ (drive'.on => drive.on)
  BY <1>2, <1>4
<1>6. TypeOK'
  BY <1>2, <1>5 DEF IInv, TypeOK
<1>7. Typed'
  BY <1>2, <1>5 DEF IInv, Typed
<1>8. (Fed' <=> Fed) /\ (Walking' <=> Walking)
  BY <1>2 DEF Fed, Walking
<1>9. Opening'
  BY <1>2, <1>8 DEF IInv, Opening
<1>10. Reading'
  <2>1. Type(mem, bottom)' = Type(mem, bottom) /\ Size(mem, bottom)' = Size(mem, bottom)
    BY <1>2 DEF Type, Size
  <2> QED BY <1>2, <1>5, <1>8, <2>1 DEF IInv, Reading
<1>11. Stopping'
  BY <1>2 DEF Stopping
<1>12. Parts(m)'
  <2>1. Heads(m)' = Heads(m) /\ Places(m)' = Places(m) /\ \A p \in Addr : Type(mem, p)' = Type(mem, p)
    BY <1>1, <1>3, SameAll
  <2>2. Holding(m)'
    <3>1. HeldBy(Heads(m), mem', held')
      BY <1>1, <1>2, HoldingIs DEF Parts
    <3> QED BY <1>2, <2>1, <3>1, HoldingNext
  <2>3. Ring(m)'
    BY <1>1, <1>3, SameAll
  <2>4. Syncing(m)'
    BY <1>2 DEF Syncing
  <2>5. Seeking(m)'
    <3>1. /\ Heads(m)' = Heads(m) /\ Places(m)' = Places(m)
          /\ \A q \in Addr : Key(q)' = Key(q) /\ Type(mem, q)' = Type(mem, q)
          /\ Heads(m) \subseteq Addr /\ Places(m) \subseteq Addr
      BY <1>1, <1>3, SameAll
    <3> QED BY <1>1, <1>2, <1>8, <3>1 DEF Parts, Seeking, Walking
  <2> QED BY <2>2, <2>3, <2>4, <2>5 DEF Parts
<1> QED BY <1>6, <1>7, <1>9, <1>10, <1>11, <1>12 DEF IInv

\* Nothing of the last stream is left.
LEMMA TaskStartStep == ASSUME IInv, FS_StreamTaskStart PROVE IInv'
<1>1. PICK m \in Addr : Parts(m)
  BY PartsFacts
<1>2. /\ starts < Len(Streams) /\ starts' = starts + 1
      /\ sync.pc = "idle" /\ ~Walking /\ \A c \in Consumer : held[c] = << >>
      /\ stream' = Streams[starts']
      /\ heap_end' = Heap /\ end' = FALSE /\ stop' = FALSE /\ sector' = 0 /\ unread' = None
      /\ task_state' = -1 /\ top' = 0 /\ bottom' = 0 /\ write_ptr' = 0
      /\ read' = TRUE /\ drive' = [on |-> TRUE, buffer |-> 0]
      /\ mem' = mem /\ sync' = sync /\ walk' = walk /\ held' = held
  BY DEF FS_StreamTaskStart, Request, userVars
<1>3. Heap \in Nat /\ Sector \in Nat /\ Sector >= 2 /\ Sector <= Heap
  <2>1. Played
    BY PartsFacts
  <2> QED BY <2>1, HeapFacts
<1>4. 0 \in Addr /\ {0, Heap} \subseteq 0 .. Heap
  BY <1>3 DEF Addr
<1>5. TypeOK'
  BY <1>2, <1>4 DEF IInv, TypeOK, None
<1>6. Len(Streams) \in Nat
  BY RingAssumption, LenProperties
<1>7. Typed'
  <2>1. starts + 1 \in 1 .. Len(Streams)
    BY <1>2, <1>6 DEF IInv, Typed
  <2>2. drive' \in [on : BOOLEAN, buffer : 0 .. Heap]
    BY <1>2, <1>4
  <2> QED BY <1>2, <2>1, <2>2 DEF IInv, Typed
<1>8. ~Fed'
  BY <1>2 DEF Fed
<1>9. Opening'
  BY <1>2 DEF Opening, Walking
<1>10. Reading'
  <2>1. Heap - Sector < heap_end' /\ heap_end' <= Heap /\ 0 + Sector <= Heap /\ 0 <= 0
    BY <1>2, <1>3
  <2>2. drive'.on /\ drive'.buffer = 0
    BY <1>2
  <2> QED BY <1>2, <1>8, <2>1, <2>2 DEF Reading
<1>11. Stopping'
  BY <1>2 DEF Stopping
<1>12. Parts(m)'
  <2>1. (\A q : ~Fed /\ Opening /\ TypeOK /\ Typed => Ring(q) /\ Syncing(q) /\ Seeking(q) /\ Holding(q))'
    BY NoRingAll, PTL
  <2> QED BY <1>5, <1>7, <1>8, <1>9, <2>1 DEF Parts
<1> QED BY <1>5, <1>7, <1>9, <1>10, <1>11, <1>12 DEF IInv

-----------------------------------------------------------------------------
(* What the interrupt looks for. *)

UnfinishedBody(M, w, f, n) ==
  IF n = 0 THEN [p \in Addr |-> p]
  ELSE [p \in Addr |-> LET q == p + Size(M, p) IN
                        IF q > w - 1 THEN p ELSE IF Type(M, q) = "end" THEN q ELSE f[n - 1][q]]

\* Unfinished is the function its definition asks for.
LEMMA UnfinishedFacts ==
  ASSUME Played, Heap \in Nat, NEW M, NEW w \in 0 .. Heap
  PROVE  /\ \A p \in Addr : Unfinished(M, w)[0][p] = p
         /\ \A n \in 1 .. Heap : \A p \in Addr :
              Unfinished(M, w)[n][p] = IF p + Size(M, p) > w - 1 THEN p
                                       ELSE IF Type(M, p + Size(M, p)) = "end" THEN p + Size(M, p)
                                       ELSE Unfinished(M, w)[n - 1][p + Size(M, p)]
<1> DEFINE S == [Addr -> Addr]
           P(f) == f = [n \in 0 .. Heap |-> UnfinishedBody(M, w, f, n)]
           a == [p \in Addr |-> p]
           Next1(g) == [p \in Addr |-> LET q == p + Size(M, p) IN
                                         IF q > w - 1 THEN p ELSE IF Type(M, q) = "end" THEN q ELSE g[q]]
           G == [n \in 1 .. Heap |-> [g \in S |-> Next1(g)]]
           h == Unfinished(M, w)
<1>1. a \in S
  OBVIOUS
<1>2. ASSUME NEW g \in S PROVE Next1(g) \in S
  <2>1. ASSUME NEW p \in Addr
        PROVE  (IF p + Size(M, p) > w - 1 THEN p ELSE IF Type(M, p + Size(M, p)) = "end" THEN p + Size(M, p)
                ELSE g[p + Size(M, p)]) \in Addr
    <3>1. Size(M, p) \in Nat
      <4>1. CASE M[p].cell \in DOMAIN stream
        BY <4>1, BlockFacts DEF Size
      <4>2. CASE M[p].cell \notin DOMAIN stream
        BY <4>2 DEF Size
      <4> QED BY <4>1, <4>2
    <3>2. CASE p + Size(M, p) > w - 1
      BY <3>2
    <3>3. CASE ~(p + Size(M, p) > w - 1)
      <4>1. p + Size(M, p) \in Addr
        BY <3>1, <3>3 DEF Addr
      <4> QED BY <3>3, <4>1
    <3> QED BY <3>2, <3>3
  <2> QED BY <2>1
<1>3. G \in [1 .. Heap -> [S -> S]]
  <2> HIDE DEF Next1, S
  <2>1. \A g \in S : Next1(g) \in S
    BY <1>2
  <2> QED BY <2>1
<1>4. \E s \in [0 .. Heap -> S] : s[0] = a /\ \A n \in 1 .. Heap : s[n] = G[n][s[n - 1]]
  <2> HIDE DEF S, G, a
  <2> QED BY <1>1, <1>3, Recursion
<1>5. PICK s \in [0 .. Heap -> S] : s[0] = a /\ \A n \in 1 .. Heap : s[n] = G[n][s[n - 1]]
  BY <1>4
<1>6. \A n \in 1 .. Heap : s[n] = Next1(s[n - 1])
  <2> HIDE DEF Next1, S
  <2>1. ASSUME NEW n \in 1 .. Heap PROVE s[n] = Next1(s[n - 1])
    <3>1. n - 1 \in 0 .. Heap
      OBVIOUS
    <3>2. s[n - 1] \in S
      BY <1>5, <3>1
    <3> QED BY <1>5, <3>2
  <2> QED BY <2>1
<1>7. \A n \in 0 .. Heap : s[n] = UnfinishedBody(M, w, s, n)
  <2>1. ASSUME NEW n \in 0 .. Heap PROVE s[n] = UnfinishedBody(M, w, s, n)
    <3>1. CASE n = 0
      BY <1>5, <3>1 DEF UnfinishedBody
    <3>2. CASE n # 0
      <4>1. n \in 1 .. Heap
        BY <3>2
      <4> QED BY <1>6, <3>2, <4>1 DEF UnfinishedBody
    <3> QED BY <3>1, <3>2
  <2> QED BY <2>1
<1>8. P(s)
  <2> HIDE DEF S
  <2> QED BY <1>5, <1>7
<1> HIDE DEF S, G, a, Next1
<1>9. h = CHOOSE f : P(f)
  BY Zenon DEF Unfinished, UnfinishedBody
<1>10. P(CHOOSE f : P(f))
  <2> HIDE DEF P
  <2> QED BY <1>8, Zenon
<1>11. P(h)
  <2> HIDE DEF P, h
  <2> QED BY <1>9, <1>10, Zenon
<1> HIDE DEF h
<1>12. \A n \in 0 .. Heap : h[n] = UnfinishedBody(M, w, h, n)
  BY <1>11, Zenon
<1> HIDE DEF P
<1>13. h[0] = a
  <2>1. 0 \in 0 .. Heap
    OBVIOUS
  <2>2. h[0] = UnfinishedBody(M, w, h, 0)
    BY <1>12, <2>1, Zenon
  <2>3. UnfinishedBody(M, w, h, 0) = a
    BY Zenon DEF UnfinishedBody, a
  <2> QED BY <2>2, <2>3
<1>14. ASSUME NEW n \in 1 .. Heap PROVE h[n] = Next1(h[n - 1])
  <2>1. n \in 0 .. Heap /\ n # 0
    OBVIOUS
  <2> QED BY <1>12, <2>1 DEF UnfinishedBody, Next1
<1>15. \A p \in Addr : h[0][p] = p
  BY <1>13 DEF a
<1>16. \A n \in 1 .. Heap : \A p \in Addr :
         h[n][p] = IF p + Size(M, p) > w - 1 THEN p
                   ELSE IF Type(M, p + Size(M, p)) = "end" THEN p + Size(M, p)
                   ELSE h[n - 1][p + Size(M, p)]
  <2>1. ASSUME NEW n \in 1 .. Heap, NEW p \in Addr
        PROVE  Next1(h[n - 1])[p] = IF p + Size(M, p) > w - 1 THEN p
                                    ELSE IF Type(M, p + Size(M, p)) = "end" THEN p + Size(M, p)
                                    ELSE h[n - 1][p + Size(M, p)]
    BY Zenon DEF Next1
  <2> HIDE DEF Next1
  <2> QED BY <1>14, <2>1
<1> QED BY <1>15, <1>16 DEF h

\* The cells of M from b to before w are those of the stream, base being the number of the first of all.
Come(M, b, w, base) == \A x \in b .. w - 1 : M[x].cell = base + x

\* The block that is found is one of the stream; it is the end, or it is not there to its end.
LEMMA UnfinishedEnds ==
  ASSUME Played, NEW M, NEW w \in Nat, w <= Heap, NEW base \in Int, NEW b \in Nat,
         Come(M, b, w, base),
         b < w, base + b \in DOMAIN stream, stream[base + b].type # "end",
         NEW r, r = Unfinished(M, w)[Heap][b]
  PROVE  /\ r \in b .. w - 1 /\ base + r \in DOMAIN stream
         /\ Type(M, r) = stream[base + r].type /\ Size(M, r) = stream[base + r].size
         /\ Type(M, r) # "end" => r + Size(M, r) >= w
<1> DEFINE U == Unfinished(M, w)
           Ends(x) == x \in b .. w - 1 /\ base + x \in DOMAIN stream /\ (Type(M, x) # "end" => x + Size(M, x) >= w)
           Good(n) == \A p \in b .. w - 1 : base + p \in DOMAIN stream /\ stream[base + p].type # "end" /\ w - p <= n
                                              => Ends(U[n][p])
           I == {n \in 0 .. Heap : Good(n)}
<1>1. Heap \in Nat
  BY HeapFacts
<1>2. /\ \A p \in Addr : U[0][p] = p
      /\ \A n \in 1 .. Heap : \A p \in Addr :
           U[n][p] = IF p + Size(M, p) > w - 1 THEN p
                     ELSE IF Type(M, p + Size(M, p)) = "end" THEN p + Size(M, p)
                     ELSE U[n - 1][p + Size(M, p)]
  BY <1>1, UnfinishedFacts
<1> HIDE DEF U
<1>3. ASSUME NEW p \in b .. w - 1, base + p \in DOMAIN stream
      PROVE  /\ p \in Addr /\ Type(M, p) = stream[base + p].type /\ Size(M, p) = stream[base + p].size
             /\ Size(M, p) \in Nat /\ Size(M, p) >= 1
  <2>1. p \in Addr
    BY <1>1 DEF Addr
  <2>2. M[p].cell = base + p
    BY DEF Come
  <2> QED BY <1>3, <2>1, <2>2, BlockFacts DEF Type, Size
<1>4. 0 \in I
  <2>1. \A p \in b .. w - 1 : ~(w - p <= 0)
    OBVIOUS
  <2> QED BY <1>1, <2>1
<1>5. ASSUME NEW n \in 1 .. Heap, n - 1 \in I PROVE n \in I
  <2>1. ASSUME NEW p \in b .. w - 1, base + p \in DOMAIN stream, stream[base + p].type # "end", w - p <= n PROVE Ends(U[n][p])
    <3> DEFINE q == p + Size(M, p)
    <3>1. p \in Addr /\ Type(M, p) = stream[base + p].type /\ Size(M, p) = stream[base + p].size
          /\ Size(M, p) \in Nat /\ Size(M, p) >= 1
      BY <1>3, <2>1
    <3>2. U[n][p] = IF q > w - 1 THEN p ELSE IF Type(M, q) = "end" THEN q ELSE U[n - 1][q]
      BY <1>2, <3>1
    <3>3. CASE q > w - 1
      <4>1. U[n][p] = p /\ p + Size(M, p) >= w
        BY <3>1, <3>2, <3>3
      <4> QED BY <2>1, <4>1
    <3>4. CASE ~(q > w - 1)
      <4>1. q \in b .. w - 1 /\ w - q <= n - 1
        BY <2>1, <3>1, <3>4
      <4>2. base + q \in DOMAIN stream
        <5>1. (base + p) + stream[base + p].size \in DOMAIN stream
          BY <2>1 DEF Played
        <5>2. base + q = (base + p) + stream[base + p].size
          BY <3>1
        <5> QED BY <5>1, <5>2
      <4>3. CASE Type(M, q) = "end"
        BY <3>2, <3>4, <4>1, <4>2, <4>3
      <4>4. CASE Type(M, q) # "end"
        <5>1. stream[base + q].type # "end"
          BY <1>3, <4>1, <4>2, <4>4
        <5>2. Ends(U[n - 1][q])
          <6> HIDE DEF Ends, q
          <6> QED BY <1>5, <4>1, <4>2, <5>1
        <5>3. U[n][p] = U[n - 1][q]
          BY <3>2, <3>4, <4>4
        <5> HIDE DEF Ends
        <5> QED BY <5>2, <5>3
      <4> QED BY <4>3, <4>4
    <3> QED BY <3>3, <3>4
  <2> QED BY <2>1
<1>6. \A n \in 0 .. Heap : n \in I
  <2> HIDE DEF I
  <2> QED BY <1>1, <1>4, <1>5, UpTo
<1>7. Ends(r)
  <2>1. Heap \in 0 .. Heap /\ w - b <= Heap /\ b \in b .. w - 1
    BY <1>1
  <2>2. Good(Heap)
    BY <1>6, <2>1
  <2>3. Ends(U[Heap][b])
    <3> HIDE DEF Ends
    <3> QED BY <2>1, <2>2
  <2> QED BY <2>3 DEF U
<1> QED BY <1>3, <1>7

-----------------------------------------------------------------------------
(* Steps that change the ring. *)

\* A ring in the memory M.
RingAt(M, t, b, w, base, m) ==
  /\ b < w /\ base + b \in DOMAIN stream
  /\ \A p \in b .. w - 1 : M[p].tag = "fresh"
  /\ IF t <= b
     THEN (\A x \in t .. w - 1 : M[x].cell = base + x) /\ base + t \in DOMAIN stream
     ELSE /\ w <= t /\ t <= m /\ M[m] = Mark
          /\ \A x \in 0 .. w - 1 : M[x].cell = base + x
          /\ \A x \in t .. m - 1 : M[x].cell = base - m + x
          /\ base \in DOMAIN stream /\ (t = m \/ base - m + t \in DOMAIN stream)

\* The cells of a ring, counted from the start of the heap.
LEMMA RingIs ==
  ASSUME NEW m \in Nat, top \in Nat, bottom \in Nat, write_ptr \in Nat, Count \in Nat, Fed
  PROVE  Ring(m) <=> RingAt(mem, top, bottom, write_ptr, Base, m)
<1>1. Base \in Int /\ Base = Count - write_ptr
  BY DEF Base
<1>2. Laid(top, write_ptr, Count) <=> \A x \in top .. write_ptr - 1 : mem[x].cell = Base + x
  <2>1. \A x \in top .. write_ptr - 1 : Count - (write_ptr - x) = Base + x
    BY <1>1
  <2> QED BY <2>1 DEF Laid
<1>3. Laid(0, write_ptr, Count) <=> \A x \in 0 .. write_ptr - 1 : mem[x].cell = Base + x
  <2>1. \A x \in 0 .. write_ptr - 1 : Count - (write_ptr - x) = Base + x
    BY <1>1
  <2> QED BY <2>1 DEF Laid
<1>4. Laid(top, m, Base) <=> \A x \in top .. m - 1 : mem[x].cell = Base - m + x
  <2>1. \A x \in top .. m - 1 : Base - (m - x) = Base - m + x
    BY <1>1
  <2> QED BY <2>1 DEF Laid
<1> QED BY <1>2, <1>3, <1>4 DEF Ring, RingAt

\* The same, to be said of the next state:
LEMMA RingIsAll ==
  \A m \in Nat : top \in Nat /\ bottom \in Nat /\ write_ptr \in Nat /\ Count \in Nat /\ Fed
                   => (Ring(m) <=> RingAt(mem, top, bottom, write_ptr, Base, m))
BY RingIs

\* said of it.
LEMMA RingIsPrimed ==
  (\A m \in Nat : top \in Nat /\ bottom \in Nat /\ write_ptr \in Nat /\ Count \in Nat /\ Fed
                    => (Ring(m) <=> RingAt(mem, top, bottom, write_ptr, Base, m)))'
BY RingIsAll, PTL

\* The ring that a step makes.
LEMMA RingNext ==
  ASSUME NEW m \in Nat, top' \in Nat, bottom' \in Nat, write_ptr' \in Nat, Count' \in Nat, Fed', stream' = stream,
         RingAt(mem', top', bottom', write_ptr', Base', m)
  PROVE  Ring(m)'
<1>1. RingAt(mem, top, bottom, write_ptr, Base, m)' <=> RingAt(mem', top', bottom', write_ptr', Base', m)
  BY DEF RingAt
<1> QED BY <1>1, RingIsPrimed

\* The ring that a step makes is one.
LEMMA OrderNext ==
  ASSUME NEW m, m \in Addr, TypeOK', Typed', Played, stream' = stream, Fed', Ring(m)'
  PROVE  Order(m)'
BY DEF Order, Played, Addr, TwoThirds

\* The lemmas on a ring, for the ring that a step makes.
LEMMA PlacesAll ==
  \A m : Order(m) => \A p :
    /\ Straight => (p \in Places(m) <=> p \in top .. bottom /\ Base + p \in DOMAIN stream)
    /\ ~Straight => (p \in Places(m) <=> \/ p = m
                                         \/ p \in top .. m - 1 /\ Base - m + p \in DOMAIN stream
                                         \/ p \in 0 .. bottom /\ Base + p \in DOMAIN stream)
BY PlacesAre

\* Where the headers are after a step.
LEMMA PlacesPrimed ==
  (\A m : Order(m) => \A p :
    /\ Straight => (p \in Places(m) <=> p \in top .. bottom /\ Base + p \in DOMAIN stream)
    /\ ~Straight => (p \in Places(m) <=> \/ p = m
                                         \/ p \in top .. m - 1 /\ Base - m + p \in DOMAIN stream
                                         \/ p \in 0 .. bottom /\ Base + p \in DOMAIN stream))'
BY PlacesAll, PTL

\* The keys in numbers, to be said of the next state:
LEMMA KeysAll ==
  \A m : Order(m) => \A p \in Places(m) :
    /\ p \in Nat /\ p < Heap /\ p \in Addr /\ Key(p) \in Nat
    /\ Wrapped(m, p) => mem[p] = Mark /\ p # bottom /\ Key(p) = 2 * Base
    /\ ~Wrapped(m, p) => /\ Key(p) = 2 * (IF top <= bottom \/ p < top THEN Base + p ELSE Base - m + p) + 1
                         /\ Key(p) = 2 * mem[p].cell + 1
    /\ p \in Heads(m) <=> p # bottom
<1> SUFFICES ASSUME NEW m, Order(m), NEW p \in Places(m)
             PROVE  /\ p \in Nat /\ p < Heap /\ p \in Addr /\ Key(p) \in Nat
                    /\ Wrapped(m, p) => mem[p] = Mark /\ p # bottom /\ Key(p) = 2 * Base
                    /\ ~Wrapped(m, p) => Key(p) = 2 * Spot(m, p) + 1 /\ Key(p) = 2 * mem[p].cell + 1
                    /\ p \in Heads(m) <=> p # bottom
  BY DEF Spot, Straight
<1>1. p \in Heads(m) <=> p # bottom
  BY KeyOrder DEF Places
<1> QED BY <1>1, PlaceFacts

\* said of it.
LEMMA KeysPrimed ==
  (\A m : Order(m) => \A p \in Places(m) :
    /\ p \in Nat /\ p < Heap /\ p \in Addr /\ Key(p) \in Nat
    /\ Wrapped(m, p) => mem[p] = Mark /\ p # bottom /\ Key(p) = 2 * Base
    /\ ~Wrapped(m, p) => /\ Key(p) = 2 * (IF top <= bottom \/ p < top THEN Base + p ELSE Base - m + p) + 1
                         /\ Key(p) = 2 * mem[p].cell + 1
    /\ p \in Heads(m) <=> p # bottom)'
BY KeysAll, PTL

\* The cells from fs_stream_bottom on, to be said of the next state:
LEMMA CellsAll ==
  \A m : Order(m) => \A p, q \in Heads(m) :
    mem[p].tag # "wrap" /\ mem[q].tag # "wrap" => (p # q /\ ~(Key(q) < Key(p)) => mem[p].cell < mem[q].cell)
BY KeyCells

\* said of it.
LEMMA CellsPrimed ==
  (\A m : Order(m) => \A p, q \in Heads(m) :
    mem[p].tag # "wrap" /\ mem[q].tag # "wrap" => (p # q /\ ~(Key(q) < Key(p)) => mem[p].cell < mem[q].cell))'
BY CellsAll, PTL

\* What a step adds to the ring comes after what was there, and nobody has taken it.
Grows(m, n) ==
  /\ \A p \in Places(m) : p \in Places(n)'
  /\ \A p \in Heads(m) : p \in Heads(n)' /\ mem'[p] = mem[p]
  /\ \A p, q \in Places(m) : Key(p) < Key(q) => Key(p)' < Key(q)'
  /\ \A p \in Heads(n)' : p \in Heads(m) \/ (mem'[p].tag \in {"fresh", "wrap"} /\ \A q \in Places(m) : Key(q)' <= Key(p)')

\* A ring that grows keeps its users' places.
LEMMA Carry ==
  ASSUME NEW m, NEW n, Order(m), Order(n)', stream' = stream, sync' = sync, walk' = walk, held' = held,
         Grows(m, n), Parts(m), drive.on, held \in [Consumer -> Seq(Addr)]
  PROVE  Syncing(n)' /\ Seeking(n)' /\ Holding(n)'
<1>1. \A p \in Places(n)' : Key(p)' \in Nat /\ p \in Addr
  BY KeysPrimed DEF Addr
<1>2. \A p, q \in Heads(n)' : mem'[p].tag # "wrap" /\ mem'[q].tag # "wrap"
                                => (p # q /\ ~(Key(q)' < Key(p)') => mem'[p].cell < mem'[q].cell)
  BY CellsPrimed
<1>3. /\ \A p \in Places(m) : p \in Places(n)' /\ p \in Addr /\ Key(p) \in Nat /\ Key(p)' \in Nat
      /\ \A p \in Heads(m) : p \in Heads(n)' /\ mem'[p] = mem[p] /\ p \in Places(m)
      /\ \A p, q \in Places(m) : Key(p) < Key(q) => Key(p)' < Key(q)'
      /\ \A p, q \in Places(m) : Key(p) <= Key(q) => Key(p)' <= Key(q)'
      /\ \A p \in Heads(n)' : p \in Heads(m) \/ (mem'[p].tag \in {"fresh", "wrap"} /\ \A q \in Places(m) : Key(q)' <= Key(p)')
  <2>1. \A p \in Places(m) : p \in Places(n)' /\ p \in Addr /\ Key(p) \in Nat /\ Key(p)' \in Nat
    BY <1>1, PlaceFacts DEF Grows
  <2>2. ASSUME NEW p \in Places(m), NEW q \in Places(m), Key(p) <= Key(q) PROVE Key(p)' <= Key(q)'
    <3>1. Key(p) < Key(q) \/ Key(p) = Key(q)
      BY <2>1, <2>2
    <3>2. CASE Key(p) < Key(q)
      BY <2>1, <3>2 DEF Grows
    <3>3. CASE Key(p) = Key(q)
      <4>1. p = q
        BY <3>3, KeyOrder
      <4> QED BY <2>1, <4>1
    <3> QED BY <3>1, <3>2, <3>3
  <2>3. \A p \in Heads(m) : p \in Heads(n)' /\ mem'[p] = mem[p] /\ p \in Places(m)
    BY DEF Grows, Places
  <2>4. \A p, q \in Places(m) : Key(p) < Key(q) => Key(p)' < Key(q)'
    BY DEF Grows
  <2>5. \A p \in Heads(n)' : p \in Heads(m) \/ (mem'[p].tag \in {"fresh", "wrap"} /\ \A q \in Places(m) : Key(q)' <= Key(p)')
    BY DEF Grows
  <2> QED BY <2>1, <2>2, <2>3, <2>4, <2>5
<1>4. ASSUME NEW p \in Heads(n)', NEW r \in Places(m), Key(p)' < Key(r)' PROVE p \in Heads(m) /\ Key(p) < Key(r)
  <2>1. p \in Heads(m)
    <3>1. p \in Places(n)'
      BY DEF Places
    <3>2. Key(p)' \in Nat /\ Key(r)' \in Nat
      BY <1>1, <1>3, <3>1
    <3> QED BY <1>3, <1>4, <3>2
  <2>2. ~(Key(r) <= Key(p))
    BY <1>3, <1>4, <2>1
  <2> QED BY <1>3, <2>1, <2>2
<1>5. \A p \in Heads(m) : Type(mem', p) = Type(mem, p) /\ Type(mem, p)' = Type(mem, p)
  BY <1>3 DEF Type
<1>6. Fed /\ Fed'
  BY DEF Order
<1>7. Syncing(n)'
  <2>1. CASE sync.pc = "idle"
    BY <2>1 DEF Syncing
  <2>2. CASE sync.pc # "idle"
    <3>1. /\ sync.read
          /\ {sync.ptr, sync.lim} \subseteq Places(m) /\ Key(sync.ptr) <= Key(sync.lim)
          /\ \A p \in Heads(m) : Key(p) < Key(sync.ptr) => mem[p].tag \in {"clear", "wrap"}
      BY <2>2 DEF Parts, Syncing
    <3>2. \E s, l : s = sync.ptr /\ l = sync.lim
      OBVIOUS
    <3>3. PICK s, l : s = sync.ptr /\ l = sync.lim
      BY <3>2
    <3>4. /\ s \in Places(m) /\ l \in Places(m) /\ Key(s) <= Key(l)
          /\ \A p \in Heads(m) : Key(p) < Key(s) => mem[p].tag \in {"clear", "wrap"}
      BY <3>1, <3>3
    <3>5. s \in Places(n)' /\ l \in Places(n)' /\ Key(s)' <= Key(l)'
      BY <1>3, <3>4
    <3>6. \A p \in Heads(n)' : Key(p)' < Key(s)' => mem'[p].tag \in {"clear", "wrap"}
      BY <1>3, <1>4, <3>4
    <3> QED BY <1>6, <3>1, <3>3, <3>5, <3>6 DEF Syncing, Walking
  <2> QED BY <2>1, <2>2
<1>8. Seeking(n)'
  <2>1. CASE ~Walking
    BY <2>1 DEF Seeking, Walking
  <2>2. CASE Walking
    <3>1. \E s, l : s = walk.ptr /\ l = walk.lim
      OBVIOUS
    <3>2. PICK s, l : s = walk.ptr /\ l = walk.lim
      BY <3>1
    <3>3. /\ s \in Places(m) /\ l \in Places(m) /\ Key(s) <= Key(l)
          /\ \A p \in Heads(m) : Key(p) < Key(s) /\ Type(mem, p) = "sound" => mem[p].tag # "fresh"
      BY <2>2, <3>2 DEF Parts, Seeking
    <3>4. s \in Places(n)' /\ l \in Places(n)' /\ Key(s)' <= Key(l)'
      BY <1>3, <3>3
    <3>5. \A p \in Heads(n)' : Key(p)' < Key(s)' /\ Type(mem, p)' = "sound" => mem'[p].tag # "fresh"
      BY <1>3, <1>4, <1>5, <3>3
    <3> QED BY <3>2, <3>4, <3>5 DEF Seeking
  <2> QED BY <2>1, <2>2
<1>9. HeldBy(Heads(n)', mem', held)
  <2>1. ASSUME NEW c \in Consumer, NEW i \in 1 .. Len(held[c])
        PROVE  /\ held[c][i] \in Heads(n)' /\ Type(mem', held[c][i]) = c /\ mem'[held[c][i]].tag = "busy"
               /\ \A j \in 1 .. i - 1 : mem'[held[c][j]].cell < mem'[held[c][i]].cell
               /\ \A q \in Heads(n)' : Type(mem', q) = c /\ mem'[q].tag = "fresh" => mem'[held[c][i]].cell < mem'[q].cell
    <3>1. \E h : h = held[c]
      OBVIOUS
    <3>2. PICK h : h = held[c]
      BY <3>1
    <3>3. \E p : p = h[i]
      OBVIOUS
    <3>4. PICK p : p = h[i]
      BY <3>3
    <3>5. /\ p \in Heads(m) /\ Type(mem, p) = c /\ mem[p].tag = "busy"
          /\ \A j \in 1 .. i - 1 : mem[h[j]].cell < mem[p].cell
          /\ \A q \in Heads(m) : Type(mem, q) = c /\ mem[q].tag = "fresh" => mem[p].cell < mem[q].cell
      BY <3>2, <3>4 DEF Parts, Holding
    <3>6. \A j \in 1 .. i - 1 : h[j] \in Heads(m)
      <4>1. \A j \in 1 .. i - 1 : j \in 1 .. Len(held[c])
        <5>1. Len(held[c]) \in Nat
          BY LenProperties
        <5> QED BY <5>1
      <4> QED BY <3>2, <4>1 DEF Parts, Holding
    <3>7. p \in Heads(n)' /\ mem'[p] = mem[p] /\ Type(mem', p) = c
      BY <1>3, <1>5, <3>5
    <3>8. \A j \in 1 .. i - 1 : mem'[h[j]].cell < mem'[p].cell
      BY <1>3, <3>5, <3>6, <3>7
    <3>9. ASSUME NEW q \in Heads(n)', Type(mem', q) = c, mem'[q].tag = "fresh" PROVE mem'[p].cell < mem'[q].cell
      <4>1. CASE q \in Heads(m)
        <5>1. mem'[q] = mem[q] /\ Type(mem, q) = c /\ mem'[p] = mem[p]
          BY <1>3, <1>5, <3>7, <3>9, <4>1
        <5> QED BY <3>5, <3>9, <4>1, <5>1
      <4>2. CASE q \notin Heads(m)
        <5>1. Key(p)' <= Key(q)' /\ p # q
          BY <1>3, <3>5, <4>2
        <5>2. Key(p)' \in Nat /\ Key(q)' \in Nat
          <6>1. p \in Places(n)' /\ q \in Places(n)'
            BY <3>7 DEF Places
          <6> QED BY <1>1, <6>1
        <5>3. mem'[p].tag = "busy" /\ ~(Key(q)' < Key(p)')
          BY <3>5, <3>7, <5>1, <5>2
        <5> QED BY <1>2, <3>7, <3>9, <5>1, <5>3
      <4> QED BY <4>1, <4>2
    <3>10. mem'[p].tag = "busy"
      BY <3>5, <3>7
    <3> QED BY <3>2, <3>4, <3>7, <3>8, <3>9, <3>10
  <2>2. ASSUME NEW p \in Heads(n)', mem'[p].tag = "busy" PROVE \E c \in Consumer : p \in Range(held[c])
    <3>1. p \in Heads(m) /\ mem[p].tag = "busy"
      BY <1>3, <2>2
    <3> QED BY <3>1 DEF Parts, Holding
  <2> QED BY <2>1, <2>2 DEF HeldBy
<1>10. Holding(n)'
  BY <1>9, HoldingNext
<1> QED BY <1>7, <1>8, <1>10

-----------------------------------------------------------------------------
(* The sector that comes in. *)

Filled(w) == [p \in Addr |-> IF p \in drive.buffer .. w - 1 THEN Cell(sector * Sector + p - drive.buffer) ELSE mem[p]]

\* Before and after the first sector, what the interrupt finds.
LEMMA ReadyNumbers ==
  ASSUME IInv, NEW m \in Addr, Parts(m), drive.on
  PROVE  /\ top \in Nat /\ bottom \in Nat /\ write_ptr \in Nat /\ heap_end \in Nat /\ Count \in Nat /\ Base \in Int
         /\ Base = Count - write_ptr /\ m \in Nat /\ m < Heap
         /\ top < Heap /\ bottom < Heap /\ bottom <= write_ptr
         /\ drive.buffer = write_ptr /\ write_ptr + Sector <= Heap
         /\ write_ptr + Sector <= IF top <= bottom THEN heap_end ELSE top
         /\ Heap - Sector < heap_end /\ heap_end <= Heap /\ unread = None /\ read
         /\ Base + bottom \in DOMAIN stream
         /\ ~end => stream[Base + bottom].type # "end"
         /\ ~Fed => top = 0 /\ bottom = 0 /\ write_ptr = 0 /\ Base = 0
         /\ Heap \in Nat /\ Sector \in Nat /\ Sector >= 2
<1>1. Played /\ TypeOK /\ Typed /\ Reading /\ Opening
  BY StreamFacts DEF IInv
<1>2. /\ top \in Nat /\ bottom \in Nat /\ write_ptr \in Nat /\ heap_end \in Nat /\ Count \in Nat
      /\ top < Heap /\ bottom < Heap /\ m \in Nat /\ m < Heap
      /\ Heap \in Nat /\ Sector \in Nat /\ Sector >= 2 /\ write_ptr <= Heap
  <2>1. Heap \in Nat /\ Sector \in Nat /\ Sector >= 2
    BY <1>1, HeapFacts
  <2>2. top \in Addr /\ bottom \in Addr /\ m \in Addr /\ write_ptr \in 0 .. Heap /\ heap_end \in 0 .. Heap /\ sector \in Nat
    BY <1>1 DEF TypeOK
  <2>3. Count \in Nat
    BY <2>2, CountFacts
  <2> QED BY <2>1, <2>2, <2>3 DEF Addr
<1>3. Base = Count - write_ptr /\ Base \in Int
  BY <1>2 DEF Base
<1>4. /\ drive.buffer = write_ptr /\ read /\ unread = None /\ Heap - Sector < heap_end /\ heap_end <= Heap
      /\ write_ptr + Sector <= IF top <= bottom THEN heap_end ELSE top
  BY <1>1 DEF Reading
<1>5. write_ptr + Sector <= Heap
  BY <1>2, <1>4
<1>6. CASE Fed
  <2>1. Ring(m) /\ bottom < write_ptr /\ Base + bottom \in DOMAIN stream
    BY <1>6 DEF Parts, Ring
  <2>2. Order(m)
    BY <1>1, <1>6, <2>1 DEF Order
  <2>3. ~end => stream[Base + bottom].type # "end"
    <3>1. bottom \in Places(m)
      BY DEF Places
    <3>2. ~Wrapped(m, bottom)
      BY <2>2, <3>1, PlaceFacts
    <3>3. mem[bottom].cell = Spot(m, bottom)
      BY <2>2, <3>1, <3>2, PlaceFacts
    <3>4. Spot(m, bottom) = Base + bottom
      BY <1>2 DEF Spot, Straight
    <3>5. ~end => Type(mem, bottom) # "end"
      BY <1>1, <1>6 DEF Reading
    <3> QED BY <2>1, <3>3, <3>4, <3>5 DEF Type
  <2> QED BY <1>2, <1>3, <1>4, <1>5, <1>6, <2>1, <2>3
<1>7. CASE ~Fed
  <2>1. top = 0 /\ bottom = 0 /\ write_ptr = 0 /\ Base = 0
    BY <1>1, <1>2, <1>3, <1>7, CountFacts DEF Opening, TypeOK
  <2>2. 0 \in DOMAIN stream /\ stream[0].type # "end"
    BY <1>1 DEF Played
  <2> QED BY <1>2, <1>3, <1>4, <1>5, <1>7, <2>1, <2>2
<1> QED BY <1>6, <1>7

\* The sector lies behind the others and hits nothing in use.
LEMMA FillFacts ==
  ASSUME IInv, NEW m \in Addr, Parts(m), drive.on, NEW w, w = drive.buffer + Sector, NEW M, M = Filled(w)
  PROVE  /\ RingAt(M, top, bottom, w, Base, m)
         /\ M \in [Addr -> Cells]
         /\ \A p \in Addr : p < write_ptr \/ p >= w => M[p] = mem[p]
         /\ \A p \in write_ptr .. w - 1 : p \in Addr /\ M[p].tag = "fresh" /\ M[p].cell = Base + p
         /\ \A p \in bottom .. w - 1 : M[p].tag = "fresh"
         /\ \A p \in Addr : M[p].tag = "wrap" => M[p].cell = None
<1>1. /\ top \in Nat /\ bottom \in Nat /\ write_ptr \in Nat /\ heap_end \in Nat /\ Count \in Nat /\ Base \in Int
      /\ Base = Count - write_ptr /\ m \in Nat /\ m < Heap
      /\ top < Heap /\ bottom < Heap /\ bottom <= write_ptr
      /\ drive.buffer = write_ptr /\ write_ptr + Sector <= Heap
      /\ write_ptr + Sector <= IF top <= bottom THEN heap_end ELSE top
      /\ Base + bottom \in DOMAIN stream
      /\ ~Fed => top = 0 /\ bottom = 0 /\ write_ptr = 0 /\ Base = 0
      /\ Heap \in Nat /\ Sector \in Nat /\ Sector >= 2
  BY ReadyNumbers
<1>2. w = write_ptr + Sector /\ w \in Nat /\ w <= Heap
  BY <1>1
<1>3. \A p \in Addr : M[p] = IF p \in write_ptr .. w - 1 THEN Cell(Base + p) ELSE mem[p]
  <2>1. M = [p \in Addr |-> IF p \in write_ptr .. w - 1 THEN Cell(sector * Sector + p - write_ptr) ELSE mem[p]]
    BY <1>1 DEF Filled
  <2>2. ASSUME NEW p \in Addr PROVE M[p] = IF p \in write_ptr .. w - 1 THEN Cell(Base + p) ELSE mem[p]
    <3>1. p \in Nat
      BY DEF Addr
    <3>2. Count + p - write_ptr = Base + p
      BY <1>1, <3>1
    <3>3. sector * Sector = Count
      BY DEF Count
    <3> QED BY <2>1, <3>2, <3>3
  <2> QED BY <2>2
<1>4. \A p \in write_ptr .. w - 1 : p \in Addr /\ M[p].tag = "fresh" /\ M[p].cell = Base + p
  <2>1. \A p \in write_ptr .. w - 1 : p \in Addr
    BY <1>1, <1>2 DEF Addr
  <2>2. \A p \in write_ptr .. w - 1 : M[p] = Cell(Base + p)
    BY <1>3, <2>1
  <2>3. \A i : Cell(i).tag = "fresh" /\ Cell(i).cell = i
    BY DEF Cell
  <2> QED BY <2>1, <2>2, <2>3
<1>5. \A p \in Addr : p < write_ptr \/ p >= w => M[p] = mem[p]
  BY <1>1, <1>2, <1>3 DEF Addr
<1>6. M \in [Addr -> Cells]
  <2>1. mem \in [Addr -> Cells]
    BY DEF IInv, TypeOK, Cells
  <2>2. \A p \in write_ptr .. w - 1 : Cell(Base + p) \in Cells
    BY <1>1 DEF Cell, Cells
  <2>3. M = [p \in Addr |-> M[p]]
    BY DEF Filled
  <2>4. \A p \in Addr : M[p] \in Cells
    BY <1>3, <2>1, <2>2
  <2> QED BY <2>3, <2>4
<1>7. \A p \in Addr : M[p].tag = "wrap" => M[p].cell = None
  <2>1. \A p \in Addr : mem[p].tag = "wrap" => mem[p].cell = None
    BY DEF IInv, Typed
  <2>2. \A p \in write_ptr .. w - 1 : Cell(Base + p).tag # "wrap"
    BY DEF Cell
  <2> QED BY <1>3, <2>1, <2>2
<1>8. \A p \in bottom .. w - 1 : M[p].tag = "fresh"
  <2>1. CASE Fed
    <3>1. \A p \in bottom .. write_ptr - 1 : mem[p].tag = "fresh" /\ p \in Addr
      BY <1>1, <2>1 DEF Parts, Ring, Addr
    <3> QED BY <1>1, <1>2, <1>4, <1>5, <3>1
  <2>2. CASE ~Fed
    BY <1>1, <1>2, <1>4, <2>2
  <2> QED BY <2>1, <2>2
<1>9. RingAt(M, top, bottom, w, Base, m)
  <2>1. CASE Fed
    <3>1. RingAt(mem, top, bottom, write_ptr, Base, m)
      BY <1>1, <2>1, RingIs DEF Parts
    <3>2. CASE top <= bottom
      <4>1. \A x \in top .. write_ptr - 1 : mem[x].cell = Base + x /\ x \in Addr
        BY <1>1, <3>1, <3>2 DEF RingAt, Addr
      <4>2. \A x \in top .. w - 1 : M[x].cell = Base + x
        BY <1>1, <1>2, <1>4, <1>5, <4>1
      <4> QED BY <1>1, <1>2, <1>8, <3>1, <3>2, <4>2 DEF RingAt
    <3>3. CASE ~(top <= bottom)
      <4>1. /\ \A x \in 0 .. write_ptr - 1 : mem[x].cell = Base + x /\ x \in Addr
            /\ \A x \in top .. m - 1 : mem[x].cell = Base - m + x /\ x \in Addr
            /\ write_ptr <= top /\ top <= m /\ mem[m] = Mark
        BY <1>1, <3>1, <3>3 DEF RingAt, Addr
      <4>2. \A x \in 0 .. w - 1 : M[x].cell = Base + x
        BY <1>1, <1>2, <1>4, <1>5, <4>1
      <4>3. w <= top
        BY <1>1, <1>2, <3>3
      <4>4. \A x \in top .. m - 1 : M[x].cell = Base - m + x
        BY <1>1, <1>2, <1>5, <4>1, <4>3
      <4>5. M[m] = Mark
        BY <1>1, <1>2, <1>5, <4>1, <4>3
      <4> QED BY <1>1, <1>2, <1>8, <3>1, <3>3, <4>1, <4>2, <4>3, <4>4, <4>5 DEF RingAt
    <3> QED BY <3>2, <3>3
  <2>2. CASE ~Fed
    <3>1. \A x \in 0 .. w - 1 : M[x].cell = Base + x
      BY <1>1, <1>2, <1>4, <2>2
    <3> QED BY <1>1, <1>2, <1>8, <2>2, <3>1 DEF RingAt
  <2> QED BY <2>1, <2>2
<1> QED BY <1>4, <1>5, <1>6, <1>7, <1>8, <1>9

\* A block moved to the start of the heap, before fs_stream_top.
LEMMA MovedCells ==
  ASSUME NEW M \in [Addr -> Cells], NEW b \in Nat, NEW w \in Nat, b < w, w <= Heap, Heap \in Nat, w - b <= b
  PROVE  /\ Moved(M, b, w) \in [Addr -> Cells]
         /\ \A q \in 0 .. w - b - 1 : Moved(M, b, w)[q] = M[b + q] /\ q \in Addr
         /\ \A q \in Addr : q >= w - b /\ q # b => Moved(M, b, w)[q] = M[q]
         /\ Moved(M, b, w)[b] = Mark /\ b \in Addr
         /\ (\A q \in Addr : M[q].tag = "wrap" => M[q].cell = None)
              => \A q \in Addr : Moved(M, b, w)[q].tag = "wrap" => Moved(M, b, w)[q].cell = None
<1>1. \A q \in Addr : Moved(M, b, w)[q] = IF q < w - b THEN M[b + q] ELSE IF q = b THEN Mark ELSE M[q]
  BY DEF Moved
<1>2. \A q \in Addr : q < w - b => b + q \in Addr
  BY DEF Addr
<1>3. Mark \in Cells /\ Mark.cell = None
  BY DEF Mark, Cells, None
<1>4. Moved(M, b, w) \in [Addr -> Cells]
  <2>1. \A q \in Addr : (IF q < w - b THEN M[b + q] ELSE IF q = b THEN Mark ELSE M[q]) \in Cells
    BY <1>2, <1>3
  <2> QED BY <2>1 DEF Moved
<1>5. \A q \in 0 .. w - b - 1 : Moved(M, b, w)[q] = M[b + q] /\ q \in Addr
  <2>1. \A q \in 0 .. w - b - 1 : q \in Addr /\ q < w - b
    BY DEF Addr
  <2> QED BY <1>1, <2>1
<1>6. \A q \in Addr : q >= w - b /\ q # b => Moved(M, b, w)[q] = M[q]
  BY <1>1 DEF Addr
<1>7. Moved(M, b, w)[b] = Mark /\ b \in Addr
  BY <1>1 DEF Addr
<1>8. ASSUME \A q \in Addr : M[q].tag = "wrap" => M[q].cell = None
      PROVE  \A q \in Addr : Moved(M, b, w)[q].tag = "wrap" => Moved(M, b, w)[q].cell = None
  BY <1>1, <1>2, <1>3, <1>8
<1> QED BY <1>4, <1>5, <1>6, <1>7, <1>8

\* The ring after its last block is moved to the start of the heap.
LEMMA MovedRing ==
  ASSUME NEW M \in [Addr -> Cells], NEW t \in Nat, NEW b \in Nat, NEW w \in Nat, NEW base \in Int, NEW m,
         Heap \in Nat, w <= Heap, RingAt(M, t, b, w, base, m), t <= b, w - b <= t
  PROVE  RingAt(Moved(M, b, w), t, 0, w - b, base + b, b)
<1>1. /\ b < w /\ base + b \in DOMAIN stream /\ base + t \in DOMAIN stream
      /\ \A p \in b .. w - 1 : M[p].tag = "fresh"
      /\ \A x \in t .. w - 1 : M[x].cell = base + x
  BY DEF RingAt
<1>2. /\ \A q \in 0 .. w - b - 1 : Moved(M, b, w)[q] = M[b + q]
      /\ \A q \in Addr : q >= w - b /\ q # b => Moved(M, b, w)[q] = M[q]
      /\ Moved(M, b, w)[b] = Mark
  BY <1>1, MovedCells
<1> DEFINE N == Moved(M, b, w)
<1> HIDE DEF N
<1>3. \A q \in 0 .. w - b - 1 : N[q].tag = "fresh" /\ N[q].cell = base + b + q
  <2>1. \A q \in 0 .. w - b - 1 : b + q \in b .. w - 1 /\ b + q \in t .. w - 1 /\ base + (b + q) = base + b + q
    OBVIOUS
  <2> QED BY <1>1, <1>2, <2>1 DEF N
<1>4. \A x \in t .. b - 1 : N[x].cell = base + b - b + x
  <2>1. \A x \in t .. b - 1 : x \in Addr /\ x >= w - b /\ x # b /\ x \in t .. w - 1 /\ base + x = base + b - b + x
    BY <1>1 DEF Addr
  <2> QED BY <1>1, <1>2, <2>1 DEF N
<1>5. N[b] = Mark
  BY <1>2 DEF N
<1>6. 0 < w - b /\ base + b + 0 = base + b /\ ~(t <= 0) /\ base + b - b + t = base + t
  BY <1>1
<1>7. RingAt(N, t, 0, w - b, base + b, b)
  BY <1>1, <1>3, <1>4, <1>5, <1>6 DEF RingAt
<1> QED BY <1>7 DEF N

-----------------------------------------------------------------------------
(* What the sector adds to the ring. *)

\* After a sector there is a first one.
LEMMA FedNext ==
  ASSUME sector \in Nat, sector' = sector + 1
  PROVE  Fed'
BY DEF Fed

\* What comes is what the stream has from where fs_stream_bottom was to before its R-th cell.
Arrives(m, n, R) ==
  /\ \A p \in Heads(m) : p \in Heads(n)' /\ mem'[p] = mem[p]
  /\ \A p \in Heads(n)' : \/ p \in Heads(m) \/ mem'[p].tag = "wrap"
                          \/ /\ mem'[p].tag = "fresh" /\ mem'[p].cell \in DOMAIN stream
                             /\ Base + bottom <= mem'[p].cell /\ mem'[p].cell < R
  /\ \A j \in DOMAIN stream : Base + bottom <= j /\ j < R => \E p \in Heads(n)' : mem'[p].tag = "fresh" /\ mem'[p].cell = j

\* Where nothing is moved, the ring is longer by the blocks that are there to their end.
LEMMA GrowHere ==
  ASSUME IInv, NEW m \in Addr, Parts(m), drive.on, NEW w, w = drive.buffer + Sector, NEW M, M = Filled(w),
         NEW r \in bottom .. w - 1, Base + r \in DOMAIN stream,
         mem' = M, write_ptr' = w, bottom' = r, sector' = sector + 1,
         UNCHANGED <<top, stream, sync, walk, held>>, TypeOK', Typed'
  PROVE  Parts(m)' /\ Order(m)' /\ Arrives(m, m, Base + r)
<1>1. /\ top \in Nat /\ bottom \in Nat /\ write_ptr \in Nat /\ Count \in Nat /\ Base \in Int
      /\ Base = Count - write_ptr /\ m \in Nat /\ m < Heap
      /\ top < Heap /\ bottom < Heap /\ bottom <= write_ptr
      /\ drive.buffer = write_ptr /\ write_ptr + Sector <= Heap
      /\ write_ptr + Sector <= IF top <= bottom THEN heap_end ELSE top
      /\ ~Fed => top = 0 /\ bottom = 0 /\ write_ptr = 0 /\ Base = 0
      /\ Heap \in Nat /\ Sector \in Nat /\ Sector >= 2
  BY ReadyNumbers
<1>2. w = write_ptr + Sector /\ w \in Nat /\ w <= Heap /\ r \in Nat /\ sector \in Nat /\ Played
  BY <1>1, StreamFacts DEF IInv, TypeOK
<1>3. /\ RingAt(M, top, bottom, w, Base, m)
      /\ \A p \in Addr : p < write_ptr \/ p >= w => M[p] = mem[p]
      /\ \A p \in bottom .. w - 1 : M[p].tag = "fresh"
  BY FillFacts
<1>4. Fed' /\ Count' = Count + Sector /\ Base' = Base
  <2>1. Fed' /\ Count' = Count + Sector
    BY <1>2, FedNext, CountNext
  <2>2. Base' = Count' - write_ptr'
    BY DEF Base
  <2> QED BY <1>1, <1>2, <2>1, <2>2
<1>5. RingAt(mem', top', bottom', write_ptr', Base', m)
  <2>1. RingAt(M, top, r, w, Base, m)
    <3>1. r < w /\ \A p \in r .. w - 1 : M[p].tag = "fresh"
      BY <1>1, <1>2, <1>3
    <3>2. CASE top <= bottom
      BY <1>1, <1>2, <1>3, <3>1, <3>2 DEF RingAt
    <3>3. CASE ~(top <= bottom)
      BY <1>1, <1>2, <1>3, <3>1, <3>3 DEF RingAt
    <3> QED BY <3>2, <3>3
  <2> QED BY <1>4, <2>1
<1>6. Ring(m)'
  <2>1. top' \in Nat /\ bottom' \in Nat /\ write_ptr' \in Nat /\ Count' \in Nat
    BY <1>1, <1>2, <1>4
  <2> QED BY <1>1, <1>4, <1>5, <2>1, RingNext
<1>7. Order(m)'
  BY <1>2, <1>4, <1>6, OrderNext
<1>20. \A p \in bottom .. w - 1 : M[p].cell = Base + p
  <2>1. \/ top <= bottom /\ \A x \in top .. w - 1 : M[x].cell = Base + x
        \/ \A x \in 0 .. w - 1 : M[x].cell = Base + x
    BY <1>3 DEF RingAt
  <2> QED BY <1>1, <1>2, <2>1
<1>21. ASSUME NEW j \in DOMAIN stream, Base + bottom <= j, j < Base + r
       PROVE  \E p \in Heads(m)' : mem'[p].tag = "fresh" /\ mem'[p].cell = j
  <2>1. j \in Nat
    BY <1>2, BlockFacts
  <2>2. \E p : p = j - Base
    OBVIOUS
  <2>3. PICK p : p = j - Base
    BY <2>2
  <2>4. p \in bottom .. r - 1 /\ Base + p = j /\ p \in 0 .. r /\ p # r /\ p \in bottom .. w - 1 /\ (top <= r => p \in top .. r \/ ~(top <= bottom))
    BY <1>1, <1>2, <1>21, <2>1, <2>3
  <2>5. \A q : /\ Straight' => (q \in Places(m)' <=> q \in top .. r /\ Base + q \in DOMAIN stream)
               /\ ~Straight' => (q \in Places(m)' <=> \/ q = m
                                                      \/ q \in top .. m - 1 /\ Base - m + q \in DOMAIN stream
                                                      \/ q \in 0 .. r /\ Base + q \in DOMAIN stream)
    BY <1>4, <1>7, PlacesPrimed
  <2>6. Straight' => top <= bottom
    BY <1>1, <1>2 DEF Straight
  <2>7. p \in Places(m)'
    BY <2>4, <2>5, <2>6 DEF Straight
  <2>8. p \in Heads(m)'
    BY <1>7, <2>4, <2>7, KeysPrimed
  <2> QED BY <1>3, <1>20, <2>4, <2>8
<1>8. CASE Fed
  <2>1. Order(m)
    BY <1>2, <1>8 DEF IInv, Parts, Order
  <2>2. /\ bottom < write_ptr
        /\ Straight => top <= bottom
        /\ ~Straight => bottom < top /\ write_ptr <= top /\ top <= m
    BY <1>1, <2>1, RingNumbers DEF Straight
  <2>3. Straight' <=> Straight
    BY <1>1, <1>2, <2>2 DEF Straight
  <2>4. \A p \in Places(m) : p \in Places(m)' /\ p \in Nat
    <3>1. \A p : /\ Straight' => (p \in Places(m)' <=> p \in top .. r /\ Base + p \in DOMAIN stream)
                 /\ ~Straight' => (p \in Places(m)' <=> \/ p = m
                                                        \/ p \in top .. m - 1 /\ Base - m + p \in DOMAIN stream
                                                        \/ p \in 0 .. r /\ Base + p \in DOMAIN stream)
      BY <1>4, <1>7, PlacesPrimed
    <3>2. \A p : /\ Straight => (p \in Places(m) <=> p \in top .. bottom /\ Base + p \in DOMAIN stream)
                 /\ ~Straight => (p \in Places(m) <=> \/ p = m
                                                      \/ p \in top .. m - 1 /\ Base - m + p \in DOMAIN stream
                                                      \/ p \in 0 .. bottom /\ Base + p \in DOMAIN stream)
      BY <2>1, PlacesAre
    <3> QED BY <1>1, <1>2, <2>3, <3>1, <3>2
  <2>5. \A p \in Heads(m) : p \in Heads(m)' /\ mem'[p] = mem[p]
    <3>1. ASSUME NEW p \in Heads(m) PROVE p # r /\ p \in Places(m) /\ mem'[p] = mem[p]
      <4>1. p \in InUse(m) /\ p \in Places(m) /\ p \in Addr
        BY <2>1, PlaceFacts DEF Heads, Places
      <4>2. CASE Straight
        <5>1. p \in top .. bottom - 1
          BY <4>1, <4>2 DEF InUse, Straight
        <5> QED BY <1>1, <1>2, <1>3, <2>2, <4>1, <5>1
      <4>3. CASE ~Straight
        <5>1. p \in top .. m \/ p \in 0 .. bottom - 1
          BY <1>1, <4>1, <4>3 DEF InUse, Straight
        <5>2. w <= top
          BY <1>1, <1>2, <4>3 DEF Straight
        <5> QED BY <1>1, <1>2, <1>3, <2>2, <4>1, <4>3, <5>1, <5>2
      <4> QED BY <4>2, <4>3
    <3> QED BY <1>7, <2>4, <3>1, KeysPrimed
  <2>6. \A p \in Places(m)' : ~Wrapped(m, p)' => Key(p)' = 2 * (IF top <= r \/ p < top THEN Base + p ELSE Base - m + p) + 1
    BY <1>4, <1>7, KeysPrimed
  <2>7. \A p \in Places(m)' : Wrapped(m, p)' => Key(p)' = 2 * Base
    BY <1>4, <1>7, KeysPrimed
  <2>8. \A p : Wrapped(m, p)' <=> Wrapped(m, p)
    BY <2>3 DEF Wrapped
  <2>9. \A p \in Places(m) : Key(p)' = Key(p)
    <3>1. ASSUME NEW p \in Places(m) PROVE Key(p)' = Key(p)
      <4>1. CASE Wrapped(m, p)
        BY <2>1, <2>4, <2>7, <2>8, <4>1, PlaceFacts
      <4>2. CASE ~Wrapped(m, p)
        <5>1. Key(p) = 2 * (IF top <= bottom \/ p < top THEN Base + p ELSE Base - m + p) + 1
          BY <2>1, <4>2, PlaceFacts DEF Spot, Straight
        <5>2. top <= bottom <=> top <= r
          BY <1>1, <1>2, <2>2 DEF Straight
        <5> QED BY <2>4, <2>6, <2>8, <4>2, <5>1, <5>2
      <4> QED BY <4>1, <4>2
    <3> QED BY <3>1
  <2>10. \A p \in Heads(m)' : p \in Heads(m) \/ (p \in bottom .. r - 1 /\ p \in Places(m)')
    <3>1. ASSUME NEW p \in Heads(m)', p \notin Heads(m) PROVE p \in bottom .. r - 1 /\ p \in Places(m)'
      <4>1. p \in Places(m)' /\ p # r
        <5>1. p \in Places(m)'
          BY DEF Places
        <5> QED BY <1>7, <5>1, KeysPrimed
      <4>2. p \in Places(m) => p = bottom
        BY <3>1 DEF Places
      <4>3. \A q : /\ Straight' => (q \in Places(m)' <=> q \in top .. r /\ Base + q \in DOMAIN stream)
                   /\ ~Straight' => (q \in Places(m)' <=> \/ q = m
                                                          \/ q \in top .. m - 1 /\ Base - m + q \in DOMAIN stream
                                                          \/ q \in 0 .. r /\ Base + q \in DOMAIN stream)
        BY <1>4, <1>7, PlacesPrimed
      <4>4. \A q : /\ Straight => (q \in Places(m) <=> q \in top .. bottom /\ Base + q \in DOMAIN stream)
                   /\ ~Straight => (q \in Places(m) <=> \/ q = m
                                                        \/ q \in top .. m - 1 /\ Base - m + q \in DOMAIN stream
                                                        \/ q \in 0 .. bottom /\ Base + q \in DOMAIN stream)
        BY <2>1, PlacesAre
      <4> QED BY <1>1, <1>2, <2>2, <2>3, <4>1, <4>2, <4>3, <4>4
    <3> QED BY <3>1
  <2>11. ASSUME NEW p \in bottom .. r - 1, p \in Places(m)'
         PROVE  mem'[p].tag \in {"fresh", "wrap"} /\ \A q \in Places(m) : Key(q)' <= Key(p)'
    <3>1. mem'[p].tag = "fresh"
      BY <1>1, <1>2, <1>3
    <3>2. ~Wrapped(m, p) /\ Key(p)' = 2 * (Base + p) + 1
      BY <1>1, <1>2, <2>2, <2>6, <2>8, <2>11 DEF Wrapped, Straight
    <3>3. \A q \in Places(m) : Key(q) <= Key(bottom)
      BY <2>1, KeyOrder
    <3>4. Key(bottom) = 2 * (Base + bottom) + 1 /\ bottom \in Places(m)
      <4>1. bottom \in Places(m)
        BY DEF Places
      <4>2. ~Wrapped(m, bottom)
        BY <2>1, <4>1, PlaceFacts
      <4> QED BY <1>1, <2>1, <2>2, <4>1, <4>2, PlaceFacts DEF Spot, Straight
    <3>5. \A q \in Places(m) : Key(q) \in Nat
      BY <2>1, KeyOrder
    <3> QED BY <1>1, <1>2, <2>9, <3>1, <3>2, <3>3, <3>4, <3>5
  <2>12. Grows(m, m)
    <3>1. \A p, q \in Places(m) : Key(p) < Key(q) => Key(p)' < Key(q)'
      BY <2>9
    <3>2. \A p \in Heads(m)' : p \in Heads(m) \/ (mem'[p].tag \in {"fresh", "wrap"} /\ \A q \in Places(m) : Key(q)' <= Key(p)')
      BY <2>10, <2>11
    <3> QED BY <2>4, <2>5, <3>1, <3>2 DEF Grows
  <2>13. Syncing(m)' /\ Seeking(m)' /\ Holding(m)'
    <3>1. held \in [Consumer -> Seq(Addr)]
      BY DEF IInv, TypeOK
    <3> QED BY <1>7, <2>1, <2>12, <3>1, Carry
  <2>14. Arrives(m, m, Base + r)
    <3>1. ASSUME NEW p \in bottom .. r - 1, p \in Places(m)', p \in Heads(m)'
          PROVE  \/ mem'[p].tag = "wrap"
                 \/ /\ mem'[p].tag = "fresh" /\ mem'[p].cell \in DOMAIN stream
                    /\ Base + bottom <= mem'[p].cell /\ mem'[p].cell < Base + r
      <4>1. p \in bottom .. w - 1 /\ p \in Nat
        BY <1>1, <1>2
      <4>2. mem'[p].cell = Base + p /\ mem'[p].tag = "fresh"
        BY <1>3, <1>20, <4>1
      <4>3. mem'[p].cell \in DOMAIN stream
        BY <3>1, <4>2 DEF Heads, IsHeader
      <4> QED BY <1>1, <1>2, <4>2, <4>3
    <3>2. \A p \in Heads(m)' : \/ p \in Heads(m) \/ mem'[p].tag = "wrap"
                               \/ /\ mem'[p].tag = "fresh" /\ mem'[p].cell \in DOMAIN stream
                                  /\ Base + bottom <= mem'[p].cell /\ mem'[p].cell < Base + r
      BY <2>10, <3>1
    <3> QED BY <1>21, <2>5, <3>2 DEF Arrives
  <2> QED BY <1>6, <1>7, <2>13, <2>14 DEF Parts
<1>9. CASE ~Fed
  <2>1. sync.pc = "idle" /\ ~Walking /\ \A c \in Consumer : held[c] = << >>
    BY <1>9 DEF IInv, Opening
  <2>2. Syncing(m)' /\ Seeking(m)'
    BY <2>1 DEF Syncing, Seeking, Walking
  <2>3. \A p \in Heads(m)' : mem'[p].tag = "fresh" /\ p \in 0 .. r - 1 /\ p \in bottom .. w - 1
    <3>1. ASSUME NEW p \in Heads(m)' PROVE p \in bottom .. w - 1 /\ p \in 0 .. r - 1
      <4>1. p \in InUse(m)'
        BY DEF Heads
      <4>2. InUse(m)' = top .. r - 1
        BY <1>1, <1>2, <1>9 DEF InUse
      <4> QED BY <1>1, <1>2, <1>9, <4>1, <4>2
    <3> QED BY <1>3, <3>1
  <2>4. HeldBy(Heads(m)', mem', held')
    BY <2>1, <2>3 DEF HeldBy
  <2>5. Holding(m)'
    BY <2>4, HoldingNext
  <2>6. Heads(m) = {}
    <3>1. InUse(m) = {}
      BY <1>9, NoRing DEF IInv
    <3> QED BY <3>1 DEF Heads
  <2>7. ASSUME NEW p \in Heads(m)'
        PROVE  /\ mem'[p].tag = "fresh" /\ mem'[p].cell \in DOMAIN stream
               /\ Base + bottom <= mem'[p].cell /\ mem'[p].cell < Base + r
    <3>1. mem'[p].tag = "fresh" /\ p \in 0 .. r - 1 /\ mem'[p].cell = Base + p
      BY <1>20, <2>3
    <3>2. mem'[p].cell \in DOMAIN stream
      BY <3>1 DEF Heads, IsHeader
    <3> QED BY <1>1, <1>2, <1>9, <3>1, <3>2
  <2>8. Arrives(m, m, Base + r)
    BY <1>21, <2>6, <2>7 DEF Arrives
  <2> QED BY <1>6, <1>7, <2>2, <2>5, <2>8 DEF Parts
<1> QED BY <1>8, <1>9

\* So it is where the last block is moved to the start of the heap.
LEMMA GrowMoved ==
  ASSUME IInv, NEW m \in Addr, Parts(m), drive.on, NEW w, w = drive.buffer + Sector, NEW M, M = Filled(w),
         NEW r \in bottom .. w - 1, Base + r \in DOMAIN stream, top <= r, Straight, w - r <= top,
         mem' = Moved(M, r, w), write_ptr' = w - r, bottom' = 0, sector' = sector + 1,
         UNCHANGED <<top, stream, sync, walk, held>>, TypeOK', Typed'
  PROVE  Parts(r)' /\ r \in Addr /\ Order(r)' /\ Arrives(m, r, Base + r) /\ mem'[0].cell = Base + r
<1>1. /\ top \in Nat /\ bottom \in Nat /\ write_ptr \in Nat /\ Count \in Nat /\ Base \in Int
      /\ Base = Count - write_ptr /\ m \in Nat /\ m < Heap
      /\ top < Heap /\ bottom < Heap /\ bottom <= write_ptr
      /\ drive.buffer = write_ptr /\ write_ptr + Sector <= Heap
      /\ ~Fed => top = 0 /\ bottom = 0 /\ write_ptr = 0 /\ Base = 0
      /\ Heap \in Nat /\ Sector \in Nat /\ Sector >= 2
  BY ReadyNumbers
<1>2. /\ w = write_ptr + Sector /\ w \in Nat /\ w <= Heap /\ r \in Nat /\ r < w /\ sector \in Nat /\ Played
      /\ r \in Addr /\ top > 0 /\ bottom <= r
  BY <1>1, StreamFacts DEF IInv, TypeOK, Addr
<1>3. /\ RingAt(M, top, bottom, w, Base, m)
      /\ M \in [Addr -> Cells]
      /\ \A p \in Addr : p < write_ptr \/ p >= w => M[p] = mem[p]
      /\ \A p \in bottom .. w - 1 : M[p].tag = "fresh"
  BY FillFacts
<1>4. Fed' /\ Count' = Count + Sector /\ Base' = Base + r
  <2>1. Fed' /\ Count' = Count + Sector
    BY <1>2, FedNext, CountNext
  <2>2. Base' = Count' - write_ptr'
    BY DEF Base
  <2> QED BY <1>1, <1>2, <2>1, <2>2
<1>5. Fed
  BY <1>1, <1>2
<1>6. RingAt(M, top, r, w, Base, m)
  <2>1. r < w /\ (\A p \in r .. w - 1 : M[p].tag = "fresh") /\ top <= bottom
    BY <1>1, <1>2, <1>3 DEF Straight
  <2> QED BY <1>1, <1>2, <1>3, <2>1 DEF RingAt
<1>7. RingAt(mem', top', bottom', write_ptr', Base', r)
  BY <1>1, <1>2, <1>3, <1>4, <1>6, MovedRing
<1>8. Ring(r)'
  <2>1. top' \in Nat /\ bottom' \in Nat /\ write_ptr' \in Nat /\ Count' \in Nat
    BY <1>1, <1>2, <1>4
  <2> QED BY <1>2, <1>4, <1>7, <2>1, RingNext
<1>9. Order(r)'
  BY <1>2, <1>4, <1>8, OrderNext
<1>10. Order(m)
  BY <1>2, <1>5 DEF IInv, Parts, Order
<1>11. ~Straight' /\ \A p : Wrapped(r, p)' <=> p = r
  <2>1. ~Straight'
    BY <1>1, <1>2 DEF Straight
  <2> QED BY <2>1 DEF Wrapped
<1>12. bottom < write_ptr /\ top <= bottom
  BY <1>10, RingNumbers DEF Straight
<1>13. \A p : p \in Places(m) <=> p \in top .. bottom /\ Base + p \in DOMAIN stream
  BY <1>10, PlacesAre
<1>14. \A p : p \in Places(r)' <=> \/ p = r
                                   \/ p \in top .. r - 1 /\ Base + p \in DOMAIN stream
                                   \/ p = 0 /\ Base + r \in DOMAIN stream
  <2>1. \A p : p \in Places(r)' <=> \/ p = r
                                    \/ p \in top .. r - 1 /\ Base + r - r + p \in DOMAIN stream
                                    \/ p \in 0 .. 0 /\ Base + r + p \in DOMAIN stream
    <3>1. \A p : p \in Places(r)' <=> \/ p = r
                                      \/ p \in top' .. r - 1 /\ Base' - r + p \in DOMAIN stream'
                                      \/ p \in 0 .. bottom' /\ Base' + p \in DOMAIN stream'
      BY <1>9, <1>11, PlacesPrimed
    <3>2. Base' = Base + r /\ bottom' = 0 /\ top' = top /\ stream' = stream
      BY <1>4
    <3>3. \E u, v : u = Base' - r /\ v = Base'
      OBVIOUS
    <3>4. PICK u, v : u = Base' - r /\ v = Base'
      BY <3>3
    <3>5. top' .. r - 1 = top .. r - 1 /\ 0 .. bottom' = 0 .. 0 /\ DOMAIN stream' = DOMAIN stream
      BY <3>2
    <3>6. \A p : p \in Places(r)' <=> \/ p = r
                                      \/ p \in top .. r - 1 /\ u + p \in DOMAIN stream
                                      \/ p \in 0 .. 0 /\ v + p \in DOMAIN stream
      BY <3>1, <3>4, <3>5
    <3>7. u = Base + r - r /\ v = Base + r
      BY <1>1, <1>2, <3>2, <3>4
    <3> QED BY <3>6, <3>7
  <2>2. \A p \in top .. r - 1 : Base + r - r + p = Base + p
    BY <1>1, <1>2
  <2>3. \A p : p \in 0 .. 0 <=> p = 0
    OBVIOUS
  <2>4. Base + r + 0 = Base + r
    BY <1>1, <1>2
  <2> QED BY <2>1, <2>2, <2>3, <2>4
<1>15. \A p \in Places(m) : p \in Places(r)' /\ p \in Nat /\ p # 0
  <2>1. ASSUME NEW p \in Places(m) PROVE p \in Nat /\ p # 0 /\ (p = r \/ p \in top .. r - 1) /\ Base + p \in DOMAIN stream
    <3>1. p \in top .. bottom /\ Base + p \in DOMAIN stream
      BY <1>13
    <3> QED BY <1>1, <1>2, <3>1
  <2> QED BY <1>14, <2>1
<1>16. \A p \in Places(m) : Key(p) = 2 * (Base + p) + 1
  <2>1. ASSUME NEW p \in Places(m) PROVE ~Wrapped(m, p) /\ Spot(m, p) = Base + p
    BY DEF Wrapped, Spot
  <2> QED BY <1>10, <2>1, PlaceFacts
<1>17. \A p \in Places(r)' : Key(p)' = IF p = r THEN 2 * (Base + r) ELSE IF p < top THEN 2 * (Base + r + p) + 1 ELSE 2 * (Base + p) + 1
  <2>1. \A p \in Places(r)' :
          /\ Wrapped(r, p)' => Key(p)' = 2 * Base'
          /\ ~Wrapped(r, p)' => Key(p)' = 2 * (IF top' <= bottom' \/ p < top' THEN Base' + p ELSE Base' - r + p) + 1
    BY <1>9, KeysPrimed
  <2>2. ~(top <= 0)
    BY <1>1, <1>2
  <2>3. ASSUME NEW p \in Places(r)' PROVE Base + r - r + p = Base + p
    <3>1. p \in Nat
      BY <1>1, <1>2, <1>14
    <3> QED BY <1>1, <1>2, <3>1
  <2>4. ASSUME NEW p \in Places(r)', p = r PROVE Key(p)' = 2 * (Base + r)
    BY <1>4, <1>11, <2>1, <2>4
  <2>5. ASSUME NEW p \in Places(r)', p # r PROVE Key(p)' = IF p < top THEN 2 * (Base + r + p) + 1 ELSE 2 * (Base + p) + 1
    <3>1. Key(p)' = 2 * (IF top' <= bottom' \/ p < top' THEN Base' + p ELSE Base' - r + p) + 1
      BY <1>11, <2>1, <2>5
    <3>2. Base' = Base + r /\ bottom' = 0 /\ top' = top
      BY <1>4
    <3>3. Key(p)' = 2 * (IF p < top THEN Base + r + p ELSE Base + r - r + p) + 1
      <4>1. ~(top' <= bottom')
        BY <2>2, <3>2
      <4>2. \E u, v : u = Base' - r /\ v = Base'
        OBVIOUS
      <4>3. PICK u, v : u = Base' - r /\ v = Base'
        BY <4>2
      <4>4. Key(p)' = 2 * (IF p < top THEN v + p ELSE u + p) + 1
        BY <3>1, <3>2, <4>1, <4>3
      <4>5. u = Base + r - r /\ v = Base + r
        BY <1>1, <1>2, <3>2, <4>3
      <4> QED BY <4>4, <4>5
    <3> QED BY <2>3, <3>3
  <2> QED BY <2>4, <2>5
<1>18. \A p \in Heads(m) : p \in Heads(r)' /\ mem'[p] = mem[p]
  <2>1. ASSUME NEW p \in Heads(m) PROVE p \in Heads(r)' /\ mem'[p] = mem[p]
    <3>1. p \in Places(m) /\ p \in InUse(m) /\ p \in Addr
      BY <1>10, PlaceFacts DEF Heads, Places
    <3>2. p \in top .. bottom - 1
      BY <3>1 DEF InUse, Straight
    <3>3. p \in Heads(r)'
      BY <1>9, <1>15, <3>1, KeysPrimed
    <3>4. p >= w - r /\ p # r /\ p < write_ptr
      BY <1>1, <1>2, <1>12, <3>2
    <3>5. w - r <= r /\ Heap \in Nat
      BY <1>1, <1>2
    <3>6. Moved(M, r, w)[p] = M[p]
      <4>1. \A q \in Addr : q >= w - r /\ q # r => Moved(M, r, w)[q] = M[q]
        BY <1>2, <1>3, <3>5, MovedCells
      <4> QED BY <3>1, <3>4, <4>1
    <3> QED BY <1>3, <3>1, <3>3, <3>4, <3>6
  <2> QED BY <2>1
<1>19. \A p, q \in Places(m) : Key(p) < Key(q) => Key(p)' < Key(q)'
  <2>1. ASSUME NEW p \in Places(m), NEW q \in Places(m), Key(p) < Key(q) PROVE Key(p)' < Key(q)'
    <3>1. p \in top .. bottom /\ q \in top .. bottom
      BY <1>13
    <3>2. Key(p) = 2 * (Base + p) + 1 /\ Key(q) = 2 * (Base + q) + 1
      BY <1>16
    <3>3. p < q /\ p # r /\ ~(p < top) /\ ~(q < top)
      BY <1>1, <1>2, <2>1, <3>1, <3>2
    <3>4. Key(p)' = 2 * (Base + p) + 1 /\ Key(q)' = IF q = r THEN 2 * (Base + r) ELSE 2 * (Base + q) + 1
      BY <1>15, <1>17, <3>3
    <3> QED BY <1>1, <1>2, <3>1, <3>3, <3>4
  <2> QED BY <2>1
<1>20. ASSUME NEW p \in Heads(r)', p \notin Heads(m)
       PROVE  mem'[p].tag \in {"fresh", "wrap"} /\ \A q \in Places(m) : Key(q)' <= Key(p)'
  <2>1. p \in Places(r)' /\ p # 0
    <3>1. p \in Places(r)'
      BY DEF Places
    <3> QED BY <1>9, <3>1, KeysPrimed
  <2>2. \A q \in Places(m) : q \in top .. bottom /\ ~(q < top) /\ q \in Nat
    BY <1>1, <1>13
  <2>3. w - r <= r /\ Heap \in Nat
    BY <1>1, <1>2
  <2>4. CASE p = r
    <3>1. mem'[p].tag = "wrap"
      BY <1>2, <1>3, <2>3, <2>4, MovedCells DEF Mark
    <3>2. ASSUME NEW q \in Places(m) PROVE Key(q)' <= Key(p)'
      <4>1. Key(p)' = 2 * (Base + r)
        BY <1>17, <2>1, <2>4
      <4>2. Key(q)' = IF q = r THEN 2 * (Base + r) ELSE 2 * (Base + q) + 1
        BY <1>15, <1>17, <2>2
      <4> QED BY <1>1, <1>2, <2>2, <4>1, <4>2
    <3> QED BY <3>1, <3>2
  <2>5. CASE p # r
    <3>1. p \in top .. r - 1 /\ Base + p \in DOMAIN stream
      BY <1>14, <2>1, <2>5
    <3>2. p \in Places(m) => p = bottom
      BY <1>20 DEF Places
    <3>3. p \in bottom .. r - 1
      BY <1>1, <1>2, <1>13, <3>1, <3>2
    <3>4. p \in Addr /\ p >= w - r /\ p \in bottom .. w - 1
      BY <1>1, <1>2, <1>12, <3>3 DEF Addr
    <3>5. mem'[p].tag = "fresh"
      BY <1>2, <1>3, <2>3, <2>5, <3>4, MovedCells
    <3>6. ASSUME NEW q \in Places(m) PROVE Key(q)' <= Key(p)'
      <4>1. Key(p)' = 2 * (Base + p) + 1
        BY <1>1, <1>2, <1>12, <1>17, <2>1, <2>5, <3>1
      <4>2. Key(q)' = IF q = r THEN 2 * (Base + r) ELSE 2 * (Base + q) + 1
        BY <1>15, <1>17, <2>2
      <4> QED BY <1>1, <1>2, <2>2, <3>3, <4>1, <4>2
    <3> QED BY <3>5, <3>6
  <2> QED BY <2>4, <2>5
<1>21. Grows(m, r)
  <2>1. \A p \in Heads(r)' : p \in Heads(m) \/ (mem'[p].tag \in {"fresh", "wrap"} /\ \A q \in Places(m) : Key(q)' <= Key(p)')
    BY <1>20
  <2> QED BY <1>15, <1>18, <1>19, <2>1 DEF Grows
<1>22. Syncing(r)' /\ Seeking(r)' /\ Holding(r)'
  <2>1. held \in [Consumer -> Seq(Addr)]
    BY DEF IInv, TypeOK
  <2> QED BY <1>9, <1>10, <1>21, <2>1, Carry
<1>23. \A p \in top .. w - 1 : M[p].cell = Base + p
  BY <1>1, <1>2, <1>6 DEF RingAt
<1>24. \A p \in bottom .. r - 1 : mem'[p] = M[p] /\ p \in bottom .. w - 1 /\ p \in top .. w - 1 /\ p \in Nat /\ p \in top .. r - 1 /\ p # 0
  <2>1. \A p \in bottom .. r - 1 : p \in Addr /\ p >= w - r /\ p # r /\ p \in bottom .. w - 1 /\ p \in top .. w - 1 /\ p \in Nat /\ p \in top .. r - 1 /\ p # 0
    BY <1>1, <1>2, <1>12 DEF Addr
  <2>2. \A q \in Addr : q >= w - r /\ q # r => Moved(M, r, w)[q] = M[q]
    <3>1. w - r <= r /\ Heap \in Nat
      BY <1>1, <1>2
    <3> QED BY <1>2, <1>3, <3>1, MovedCells
  <2> QED BY <2>1, <2>2
<1>25. ASSUME NEW j \in DOMAIN stream, Base + bottom <= j, j < Base + r
       PROVE  \E p \in Heads(r)' : mem'[p].tag = "fresh" /\ mem'[p].cell = j
  <2>1. j \in Nat
    BY <1>2, BlockFacts
  <2>2. \E p : p = j - Base
    OBVIOUS
  <2>3. PICK p : p = j - Base
    BY <2>2
  <2>4. p \in bottom .. r - 1 /\ Base + p = j
    BY <1>1, <1>2, <1>25, <2>1, <2>3
  <2>5. p \in Places(r)'
    BY <1>14, <1>24, <2>4
  <2>6. p \in Heads(r)'
    BY <1>9, <1>24, <2>4, <2>5, KeysPrimed
  <2> QED BY <1>3, <1>23, <1>24, <2>4, <2>6
<1>26. ASSUME NEW p \in Heads(r)', p \notin Heads(m)
       PROVE  \/ mem'[p].tag = "wrap"
              \/ /\ mem'[p].tag = "fresh" /\ mem'[p].cell \in DOMAIN stream
                 /\ Base + bottom <= mem'[p].cell /\ mem'[p].cell < Base + r
  <2>1. p \in Places(r)' /\ p # 0
    <3>1. p \in Places(r)'
      BY DEF Places
    <3> QED BY <1>9, <3>1, KeysPrimed
  <2>2. CASE p = r
    <3>1. w - r <= r /\ Heap \in Nat
      BY <1>1, <1>2
    <3>2. mem'[p].tag = "wrap"
      BY <1>2, <1>3, <3>1, <2>2, MovedCells DEF Mark
    <3> QED BY <3>2
  <2>3. CASE p # r
    <3>1. p \in top .. r - 1 /\ Base + p \in DOMAIN stream
      BY <1>14, <2>1, <2>3
    <3>2. p \in Places(m) => p = bottom
      BY <1>26 DEF Places
    <3>3. p \in bottom .. r - 1
      BY <1>1, <1>2, <1>13, <3>1, <3>2
    <3>4. mem'[p].tag = "fresh" /\ mem'[p].cell = Base + p
      BY <1>3, <1>23, <1>24, <3>3
    <3> QED BY <1>1, <1>2, <3>1, <3>3, <3>4
  <2> QED BY <2>2, <2>3
<1>27. Arrives(m, r, Base + r)
  <2>1. \A p \in Heads(r)' : \/ p \in Heads(m) \/ mem'[p].tag = "wrap"
                             \/ /\ mem'[p].tag = "fresh" /\ mem'[p].cell \in DOMAIN stream
                                /\ Base + bottom <= mem'[p].cell /\ mem'[p].cell < Base + r
    BY <1>26
  <2> QED BY <1>18, <1>25, <2>1 DEF Arrives
<1>28. mem'[0].cell = Base + r
  <2>1. 0 \in 0 .. w - r - 1 /\ r + 0 = r /\ w - r <= r /\ Heap \in Nat /\ r \in top .. w - 1
    BY <1>1, <1>2
  <2>2. Moved(M, r, w)[0] = M[r]
    BY <1>2, <1>3, <2>1, MovedCells
  <2> QED BY <1>23, <2>1, <2>2
<1> QED BY <1>2, <1>8, <1>9, <1>22, <1>27, <1>28 DEF Parts

-----------------------------------------------------------------------------
(* What the interrupt does with the block that is not yet there to its end. *)

\* The block at which the interrupt stops looking is one, not there to its end or the end of the stream.
LEMMA ReadyBlock ==
  ASSUME IInv, NEW m \in Addr, Parts(m), drive.on, ~end, NEW w, w = drive.buffer + Sector, NEW M, M = Filled(w),
         NEW r, r = Unfinished(M, w)[Heap][bottom]
  PROVE  /\ r \in bottom .. w - 1 /\ Base + r \in DOMAIN stream
         /\ Size(M, r) \in Nat /\ Size(M, r) >= 1 /\ 3 * Size(M, r) + 9 * Sector <= Heap + 11
         /\ Type(M, r) # "end" => w <= r + Size(M, r)
<1>1. /\ top \in Nat /\ bottom \in Nat /\ write_ptr \in Nat /\ Base \in Int
      /\ bottom <= write_ptr /\ drive.buffer = write_ptr /\ write_ptr + Sector <= Heap
      /\ Base + bottom \in DOMAIN stream /\ stream[Base + bottom].type # "end"
      /\ Heap \in Nat /\ Sector \in Nat /\ Sector >= 2
  BY ReadyNumbers
<1>2. w \in Nat /\ w <= Heap /\ bottom < w /\ Played
  BY <1>1, StreamFacts DEF IInv
<1>3. \A x \in bottom .. w - 1 : M[x].cell = Base + x
  <2>1. RingAt(M, top, bottom, w, Base, m)
    BY FillFacts
  <2>2. \/ top <= bottom /\ \A x \in top .. w - 1 : M[x].cell = Base + x
        \/ \A x \in 0 .. w - 1 : M[x].cell = Base + x
    BY <2>1 DEF RingAt
  <2> QED BY <1>1, <1>2, <2>2
<1>4. /\ r \in bottom .. w - 1 /\ Base + r \in DOMAIN stream
      /\ Type(M, r) = stream[Base + r].type /\ Size(M, r) = stream[Base + r].size
      /\ Type(M, r) # "end" => r + Size(M, r) >= w
  <2>1. \E base : base = Base
    OBVIOUS
  <2>2. PICK base : base = Base
    BY <2>1
  <2>3. \E b : b = bottom
    OBVIOUS
  <2>4. PICK b : b = bottom
    BY <2>3
  <2>5. /\ Come(M, b, w, base)
        /\ base \in Int /\ b \in Nat /\ b < w /\ base + b \in DOMAIN stream /\ stream[base + b].type # "end"
        /\ r = Unfinished(M, w)[Heap][b]
    BY <1>1, <1>2, <1>3, <2>2, <2>4 DEF Come
  <2>6. /\ r \in b .. w - 1 /\ base + r \in DOMAIN stream
        /\ Type(M, r) = stream[base + r].type /\ Size(M, r) = stream[base + r].size
        /\ Type(M, r) # "end" => r + Size(M, r) >= w
    BY <1>2, <2>5, UnfinishedEnds
  <2> QED BY <2>2, <2>4, <2>6
<1>5. /\ stream[Base + r].size \in Nat /\ stream[Base + r].size >= 1
      /\ 3 * stream[Base + r].size + 9 * Sector <= Heap + 11
  BY <1>2, <1>4, BlockFacts
<1>6. Type(M, r) # "end" => w <= r + Size(M, r)
  <2>1. r \in Nat
    BY <1>1, <1>2, <1>4
  <2> QED BY <1>2, <1>4, <1>5, <2>1
<1> QED BY <1>4, <1>5, <1>6

\* The block that is moved ends before fs_stream_top, in a ring that does not go round.
LEMMA MoveNumbers ==
  ASSUME NEW e \in Nat, NEW t \in Nat, NEW r \in Nat, NEW w \in Nat, NEW size \in Nat,
         Heap \in Nat, Sector \in Nat, Sector >= 2, 3 * size + 9 * Sector <= Heap + 11,
         Heap - Sector < e, r < w, w <= r + size, t < Heap, t <= r \/ w <= t, r < Heap,
         ~(e >= r + size /\ e >= w + Sector), Ahead(r, t) >= Ahead(r, size)
  PROVE  t <= r /\ w - r <= t /\ size < r
<1>1. size < r
  OBVIOUS
<1>2. Ahead(r, size) = size - r + Heap
  BY <1>1 DEF Ahead
<1>3. CASE t > r
  <2>1. Ahead(r, t) = t - r
    BY <1>3 DEF Ahead
  <2> QED BY <1>1, <1>2, <1>3, <2>1
<1>4. CASE t = r
  <2>1. Ahead(r, t) = 0
    BY <1>4 DEF Ahead
  <2> QED BY <1>1, <1>2, <1>4, <2>1
<1>5. CASE t < r
  <2>1. Ahead(r, t) = t - r + Heap
    BY <1>5 DEF Ahead
  <2> QED BY <1>1, <1>2, <1>5, <2>1
<1> QED BY <1>3, <1>4, <1>5

\* Room for another sector before the end of the heap.
LEMMA RoomNumbers ==
  ASSUME NEW e \in Nat, NEW size \in Nat, NEW w \in Nat, Heap \in Nat, Sector \in Nat, Sector >= 2,
         3 * size + 9 * Sector <= Heap + 11, size >= 1, Heap - Sector < e, w <= size
  PROVE  w + Sector <= e
OBVIOUS

-----------------------------------------------------------------------------
(* The ring is filled to its last cell by nothing but a block that is moved. *)

\* fs_stream_heap_end is whole sectors away after one more has come.
LEMMA Aligned ==
  ASSUME NEW e \in Int, NEW w \in Int, Sector \in Nat, \E k \in Int : e = w + k * Sector
  PROVE  \E k \in Int : e = w + Sector + k * Sector
<1>1. PICK k \in Int : e = w + k * Sector
  OBVIOUS
<1>2. k - 1 \in Int /\ k * Sector = Sector + (k - 1) * Sector
  OBVIOUS
<1>3. k * Sector \in Int /\ (k - 1) * Sector \in Int
  OBVIOUS
<1>4. e = w + Sector + (k - 1) * Sector
  BY <1>1, <1>2, <1>3
<1> QED BY <1>2, <1>4

\* Less than a sector away, it is behind what was read.
LEMMA AlignedNear ==
  ASSUME NEW e \in Int, NEW w \in Int, Sector \in Nat, Sector >= 1, \E k \in Int : e = w + k * Sector, e < w + Sector
  PROVE  e <= w
<1>1. PICK k \in Int : e = w + k * Sector
  OBVIOUS
<1>2. CASE k <= 0
  <2>1. k * Sector <= 0 /\ k * Sector \in Int
    BY <1>2
  <2> QED BY <1>1, <2>1
<1>3. CASE k >= 1
  <2>1. k * Sector >= Sector /\ k * Sector \in Int
    BY <1>3
  <2> QED BY <1>1, <2>1
<1> QED BY <1>2, <1>3

\* It is set whole sectors away.
LEMMA AlignedAfter ==
  ASSUME NEW w \in Nat, Heap \in Nat, w <= Heap, Sector \in Nat, Sector >= 1
  PROVE  \E k \in Int : EndAfter(w) = w + k * Sector
<1>1. \E n \in Nat : n = Heap - w
  OBVIOUS
<1>2. PICK n \in Nat : n = Heap - w
  BY <1>1
<1>3. n \div Sector \in Int /\ n % Sector \in Int /\ n = Sector * (n \div Sector) + (n % Sector)
  OBVIOUS
<1>4. PICK k, r : k = n \div Sector /\ r = n % Sector
  OBVIOUS
<1>5. k \in Int /\ r \in Int /\ n = k * Sector + r /\ k * Sector \in Int
  BY <1>3, <1>4
<1>6. EndAfter(w) = Heap - r
  BY <1>2, <1>4 DEF EndAfter
<1>7. EndAfter(w) = w + k * Sector
  BY <1>2, <1>5, <1>6
<1> QED BY <1>5, <1>7

\* A step that leaves fs_stream_top, the block at the start of the heap and the drive alone.
LEMMA SameFilling ==
  ASSUME Filling, UNCHANGED <<top, bottom, write_ptr, heap_end, sector, stream>>, mem'[0].cell = mem[0].cell,
         drive'.on => drive.on
  PROVE  Filling'
<1>1. Fed' <=> Fed
  BY DEF Fed
<1>2. JustFits' <=> JustFits
  <2>1. Size(mem, 0)' = Size(mem, 0)
    BY DEF Size
  <2> QED BY <2>1 DEF JustFits
<1>3. (\E k \in Int : heap_end = write_ptr + k * Sector)'
  BY DEF Filling
<1> QED BY <1>1, <1>2, <1>3 DEF Filling

\* An empty ring.
LEMMA EmptyFilling ==
  ASSUME top = 0, bottom = 0, write_ptr = 0, heap_end = Heap, sector = 0
  PROVE  Filling
<1>1. Heap \in Nat /\ Sector \in Nat /\ Sector >= 1 /\ Heap % Sector = 0
  BY RingAssumption
<1>2. Heap \div Sector \in Int /\ Heap = Sector * (Heap \div Sector) + (Heap % Sector)
  BY <1>1
<1>3. PICK k : k = Heap \div Sector
  OBVIOUS
<1>4. k \in Int /\ Heap = 0 + k * Sector
  BY <1>1, <1>2, <1>3
<1>5. \E k1 \in Int : heap_end = write_ptr + k1 * Sector
  BY <1>4
<1> QED BY <1>5 DEF Filling, Fed

\* The same, to be said of the next state,
LEMMA EmptyFillingAll == top = 0 /\ bottom = 0 /\ write_ptr = 0 /\ heap_end = Heap /\ sector = 0 => Filling
BY EmptyFilling

\* said of it.
LEMMA EmptyFillingPrimed == (top = 0 /\ bottom = 0 /\ write_ptr = 0 /\ heap_end = Heap /\ sector = 0 => Filling)'
BY EmptyFillingAll, PTL

\* A block that is moved up to fs_stream_top is there to its end.
LEMMA FitNumbers ==
  ASSUME NEW t \in Nat, NEW r \in Nat, NEW w \in Nat, NEW size \in Nat,
         Heap \in Nat, Sector \in Nat, Sector >= 2, 3 * size + 9 * Sector <= Heap + 11, size >= 1,
         r < Heap, t <= r, w <= r + size, size < r, Ahead(r, t) >= Ahead(r, size), w - r = t
  PROVE  size = w - r
<1>1. Ahead(r, size) = size - r + Heap
  BY DEF Ahead
<1>2. CASE t = r
  <2>1. Ahead(r, t) = 0
    BY <1>2 DEF Ahead
  <2> QED BY <1>1, <1>2, <2>1
<1>3. CASE t < r
  <2>1. Ahead(r, t) = t - r + Heap
    BY <1>3 DEF Ahead
  <2> QED BY <1>1, <1>3, <2>1
<1> QED BY <1>2, <1>3

-----------------------------------------------------------------------------
(* The step of the interrupt. *)

\* What every branch of StreamReadyCallback does, and what it leaves to show.
LEMMA ReadyRest ==
  ASSUME IInv, drive.on, NEW p, Parts(p)', p \in Addr,
         sector' = sector + 1, mem' \in [Addr -> Cells], \A q \in Addr : mem'[q].tag = "wrap" => mem'[q].cell = None,
         UNCHANGED <<top, stop, task_state, userVars, stream, starts>>, bottom' \in Addr, write_ptr' \in 0 .. Heap,
         heap_end' \in 0 .. Heap, unread' \in Addr \cup {None}, read' \in BOOLEAN, end' \in BOOLEAN,
         drive' \in [on : BOOLEAN, buffer : 0 .. Heap], Reading', stop => end'
  PROVE  IInv'
<1>1. TypeOK'
  <2>1. drive'.on \in BOOLEAN /\ sector' \in Nat
    BY DEF IInv, TypeOK
  <2> QED BY <2>1 DEF IInv, TypeOK, Cells, userVars
<1>2. Typed'
  BY DEF IInv, Typed, userVars
<1>3. Fed'
  BY FedNext DEF IInv, TypeOK
<1>4. Opening'
  BY <1>3 DEF Opening
<1>5. Stopping'
  BY DEF IInv, Stopping, userVars
<1> QED BY <1>1, <1>2, <1>4, <1>5 DEF IInv

\* The types after the step.
LEMMA ReadyTypes ==
  ASSUME IInv, drive.on, sector' = sector + 1, mem' \in [Addr -> Cells],
         \A q \in Addr : mem'[q].tag = "wrap" => mem'[q].cell = None,
         UNCHANGED <<top, stop, task_state, userVars, stream, starts>>, bottom' \in Addr, write_ptr' \in 0 .. Heap,
         heap_end' \in 0 .. Heap, unread' \in Addr \cup {None}, read' \in BOOLEAN, end' \in BOOLEAN,
         drive' \in [on : BOOLEAN, buffer : 0 .. Heap]
  PROVE  TypeOK' /\ Typed'
<1>1. TypeOK'
  <2>1. drive'.on \in BOOLEAN /\ sector' \in Nat
    BY DEF IInv, TypeOK
  <2> QED BY <2>1 DEF IInv, TypeOK, Cells, userVars
<1>2. Typed'
  BY DEF IInv, Typed, userVars
<1> QED BY <1>1, <1>2

\* The types of what is asked of the drive.
LEMMA DriveNext ==
  ASSUME Typed, NEW w \in 0 .. Heap
  PROVE  /\ [drive EXCEPT !.on = FALSE] \in [on : BOOLEAN, buffer : 0 .. Heap]
         /\ [drive EXCEPT !.on = FALSE].on = FALSE
         /\ [drive EXCEPT !.buffer = w] \in [on : BOOLEAN, buffer : 0 .. Heap]
         /\ [drive EXCEPT !.buffer = w].buffer = w /\ [drive EXCEPT !.buffer = w].on = drive.on
BY DEF Typed

\* The read goes on where more than a sector is free.
LEMMA GoOnFacts ==
  ASSUME Typed, read \in BOOLEAN, NEW w \in 0 .. Heap, GoOn(w)
  PROVE  /\ read' \in BOOLEAN /\ drive' \in [on : BOOLEAN, buffer : 0 .. Heap]
         /\ drive'.on => drive'.buffer = w /\ read' = read /\ Ahead(w, top) > Sector
<1>1. CASE Ahead(w, top) > Sector
  BY <1>1, DriveNext DEF GoOn
<1>2. CASE ~(Ahead(w, top) > Sector)
  <2>1. read' = FALSE /\ drive' = [drive EXCEPT !.on = FALSE]
    BY <1>2 DEF GoOn, Finish
  <2> QED BY <2>1, DriveNext
<1> QED BY <1>1, <1>2

\* Blocks have come.
Came(m) ==
  /\ Parts(m) /\ (Fed => Order(m)) /\ (~Fed => Heads(m) = {} /\ Base + bottom = 0)
  /\ Base + bottom \in DOMAIN stream
  /\ \E n, R : Order(n)' /\ R \in DOMAIN stream /\ Base + bottom <= R /\ mem'[bottom'].cell = R /\ Arrives(m, n, R)

\* The block that the ring now ends with, where it is not moved.
LEMMA CameHere ==
  ASSUME IInv, NEW m \in Addr, Parts(m), drive.on, NEW w, w = drive.buffer + Sector, NEW M, M = Filled(w),
         NEW r \in bottom .. w - 1, Base + r \in DOMAIN stream,
         mem' = M, bottom' = r, Order(m)', Arrives(m, m, Base + r)
  PROVE  Came(m)
<1>1. /\ top \in Nat /\ bottom \in Nat /\ write_ptr \in Nat /\ Base \in Int
      /\ Base + bottom \in DOMAIN stream /\ drive.buffer = write_ptr /\ Sector \in Nat
      /\ ~Fed => top = 0 /\ bottom = 0 /\ write_ptr = 0 /\ Base = 0
  BY ReadyNumbers
<1>2. RingAt(M, top, bottom, w, Base, m)
  BY FillFacts
<1>3. M[r].cell = Base + r
  <2>1. \/ top <= bottom /\ \A x \in top .. w - 1 : M[x].cell = Base + x
        \/ \A x \in 0 .. w - 1 : M[x].cell = Base + x
    BY <1>2 DEF RingAt
  <2> QED BY <1>1, <2>1
<1>4. \E R : R = Base + r
  OBVIOUS
<1>5. PICK R : R = Base + r
  BY <1>4
<1>6. Order(m)' /\ R \in DOMAIN stream /\ Base + bottom <= R /\ mem'[bottom'].cell = R /\ Arrives(m, m, R)
  BY <1>1, <1>3, <1>5
<1>7. Fed => Order(m)
  BY StreamFacts DEF IInv, Parts, Order
<1>8. ~Fed => Heads(m) = {} /\ Base + bottom = 0
  BY <1>1, NoRing DEF IInv, Heads
<1> QED BY <1>1, <1>6, <1>7, <1>8 DEF Came

\* And where it is moved.
LEMMA CameMoved ==
  ASSUME IInv, NEW m \in Addr, Parts(m), drive.on, NEW r \in Nat, bottom <= r, Base + r \in DOMAIN stream,
         bottom' = 0, Order(r)', Arrives(m, r, Base + r), mem'[0].cell = Base + r
  PROVE  Came(m)
<1>1. /\ bottom \in Nat /\ Base \in Int /\ Base + bottom \in DOMAIN stream
      /\ ~Fed => top = 0 /\ bottom = 0 /\ write_ptr = 0 /\ Base = 0
  BY ReadyNumbers
<1>4. \E R : R = Base + r
  OBVIOUS
<1>5. PICK R : R = Base + r
  BY <1>4
<1>6. Order(r)' /\ R \in DOMAIN stream /\ Base + bottom <= R /\ mem'[bottom'].cell = R /\ Arrives(m, r, R)
  BY <1>1, <1>5
<1>7. Fed => Order(m)
  BY StreamFacts DEF IInv, Parts, Order
<1>8. ~Fed => Heads(m) = {} /\ Base + bottom = 0
  BY <1>1, NoRing DEF IInv, Heads
<1> QED BY <1>1, <1>6, <1>7, <1>8 DEF Came

\* What the interrupt does once the sector is in M, with r the last block to begin and its size.
Comes(w, M, r, size) ==
  \/ /\ stop \/ end
     /\ mem' = M /\ write_ptr' = w
     /\ Finish
     /\ UNCHANGED <<bottom, heap_end, unread, end>>
  \/ /\ ~stop /\ ~end /\ Type(M, r) = "end"
     /\ mem' = M /\ write_ptr' = w /\ bottom' = r /\ end' = TRUE
     /\ Finish
     /\ UNCHANGED <<heap_end, unread>>
  \/ /\ ~stop /\ ~end /\ Type(M, r) # "end" /\ heap_end >= r + size /\ heap_end >= w + Sector
     /\ mem' = M /\ write_ptr' = w /\ bottom' = r
     /\ GoOn(w)
     /\ UNCHANGED <<heap_end, unread, end>>
  \/ /\ ~stop /\ ~end /\ Type(M, r) # "end" /\ ~(heap_end >= r + size /\ heap_end >= w + Sector) /\ ~Fits(r, size)
     /\ mem' = M /\ write_ptr' = w /\ bottom' = r /\ unread' = r
     /\ Finish
     /\ UNCHANGED <<heap_end, end>>
  \/ /\ ~stop /\ ~end /\ Type(M, r) # "end" /\ ~(heap_end >= r + size /\ heap_end >= w + Sector) /\ Fits(r, size)
     /\ mem' = Moved(M, r, w) /\ write_ptr' = w - r /\ bottom' = 0
     /\ heap_end' = EndAfter(w - r)
     /\ GoOn(w - r)
     /\ UNCHANGED <<unread, end>>

\* The interrupt.
LEMMA ReadyStep == ASSUME IInv, Filling, StreamReadyCallback PROVE IInv' /\ Filling' /\ \E m : Came(m)
<1> DEFINE W == drive.buffer + Sector
<1>1. drive.on /\ sector' = sector + 1 /\ UNCHANGED <<top, stop, task_state, userVars, stream, starts>>
  BY DEF StreamReadyCallback
<1>2. PICK m \in Addr : Parts(m)
  BY DEF IInv
<1>3. \E w, M, r, size : w = W /\ M = Filled(w) /\ r = Unfinished(M, w)[Heap][bottom] /\ size = Size(M, r)
  OBVIOUS
<1>4. PICK w, M, r, size : w = W /\ M = Filled(w) /\ r = Unfinished(M, w)[Heap][bottom] /\ size = Size(M, r)
  BY <1>3
<1>5. /\ top \in Nat /\ bottom \in Nat /\ write_ptr \in Nat /\ heap_end \in Nat /\ Count \in Nat /\ Base \in Int
      /\ m \in Nat /\ m < Heap /\ top < Heap /\ bottom < Heap /\ bottom <= write_ptr
      /\ drive.buffer = write_ptr /\ write_ptr + Sector <= Heap
      /\ write_ptr + Sector <= IF top <= bottom THEN heap_end ELSE top
      /\ Heap - Sector < heap_end /\ heap_end <= Heap /\ unread = None /\ read
      /\ Base + bottom \in DOMAIN stream
      /\ Heap \in Nat /\ Sector \in Nat /\ Sector >= 2
  BY <1>1, <1>2, ReadyNumbers
<1>6. w = write_ptr + Sector /\ w \in 0 .. Heap /\ w \in Nat /\ heap_end \in 0 .. Heap /\ bottom \in Addr /\ bottom \in bottom .. w - 1
  BY <1>4, <1>5 DEF Addr
<1>7. /\ M \in [Addr -> Cells] /\ \A q \in Addr : M[q].tag = "wrap" => M[q].cell = None
  BY <1>1, <1>2, <1>4, FillFacts
<1>8. ~end => /\ r \in bottom .. w - 1 /\ Base + r \in DOMAIN stream
              /\ size \in Nat /\ size >= 1 /\ 3 * size + 9 * Sector <= Heap + 11
              /\ Type(M, r) # "end" => w <= r + size
  BY <1>1, <1>2, <1>4, ReadyBlock
<1>9. ~end => r \in Nat /\ r \in Addr /\ r < w
  BY <1>5, <1>6, <1>8 DEF Addr
<1>10. Typed /\ read \in BOOLEAN /\ end \in BOOLEAN /\ None \in Addr \cup {None} /\ (stop => end)
  BY DEF IInv, TypeOK, Stopping
<1>11. Fed'
  BY <1>1, FedNext DEF IInv, TypeOK
<1>12. Comes(w, M, r, size)
  <2>1. Comes(W, Filled(W), Unfinished(Filled(W), W)[Heap][bottom], Size(Filled(W), Unfinished(Filled(W), W)[Heap][bottom]))
    BY DEF StreamReadyCallback, Filled, Comes
  <2> HIDE DEF Comes, W
  <2> QED BY <1>4, <2>1
<1>18. \E k \in Int : heap_end = w + k * Sector
  <2>1. \E k \in Int : heap_end = write_ptr + k * Sector
    BY DEF Filling
  <2> QED BY <1>5, <1>6, <2>1, Aligned
<1>19. w # top /\ (bottom < top => w < top)
  BY <1>1, <1>5, <1>6 DEF Filling
<1>20. ASSUME write_ptr' = w, heap_end' = heap_end, drive'.on /\ bottom' < top => w + Sector < top PROVE Filling'
  <2>1. (\E k \in Int : heap_end = write_ptr + k * Sector)'
    BY <1>18, <1>20
  <2> QED BY <1>1, <1>19, <1>20, <2>1 DEF Filling
<1>13. CASE (stop \/ end) /\ mem' = M /\ write_ptr' = w /\ Finish /\ UNCHANGED <<bottom, heap_end, unread, end>>
  <2>1. read' = FALSE /\ drive' \in [on : BOOLEAN, buffer : 0 .. Heap] /\ drive'.on = FALSE
    BY <1>6, <1>10, <1>13, DriveNext DEF Finish
  <2>2. TypeOK' /\ Typed'
    BY <1>1, <1>5, <1>6, <1>7, <1>10, <1>13, <2>1, ReadyTypes
  <2>0. Base + bottom \in DOMAIN stream /\ bottom' = bottom /\ mem' = Filled(w) /\ mem' = M /\ bottom \in bottom .. w - 1
    BY <1>4, <1>5, <1>6, <1>13
  <2>3. Parts(m)' /\ Order(m)' /\ Arrives(m, m, Base + bottom)
    BY <1>1, <1>2, <1>4, <1>5, <1>6, <1>13, <2>2, GrowHere DEF userVars
  <2>4. Reading'
    BY <1>1, <1>5, <1>10, <1>13, <2>1 DEF Reading
  <2>5. Came(m)
    BY <1>1, <1>2, <1>4, <2>0, <2>3, CameHere
  <2>6. Filling'
    BY <1>13, <1>20, <2>1
  <2> QED BY <1>1, <1>2, <1>5, <1>6, <1>7, <1>10, <1>13, <2>1, <2>3, <2>4, <2>5, <2>6, ReadyRest
<1>14. CASE /\ ~stop /\ ~end /\ Type(M, r) = "end"
            /\ mem' = M /\ write_ptr' = w /\ bottom' = r /\ end' = TRUE
            /\ Finish
            /\ UNCHANGED <<heap_end, unread>>
  <2>1. read' = FALSE /\ drive' \in [on : BOOLEAN, buffer : 0 .. Heap] /\ drive'.on = FALSE
    BY <1>6, <1>10, <1>14, DriveNext DEF Finish
  <2>2. TypeOK' /\ Typed'
    BY <1>1, <1>5, <1>6, <1>7, <1>9, <1>10, <1>14, <2>1, ReadyTypes
  <2>3. Parts(m)' /\ Order(m)' /\ Arrives(m, m, Base + r)
    BY <1>1, <1>2, <1>4, <1>8, <1>14, <2>2, GrowHere DEF userVars
  <2>4. Reading'
    BY <1>1, <1>5, <1>14, <2>1 DEF Reading
  <2>5. Came(m)
    BY <1>1, <1>2, <1>4, <1>8, <1>14, <2>3, CameHere
  <2>6. Filling'
    BY <1>14, <1>20, <2>1
  <2> QED BY <1>1, <1>2, <1>5, <1>6, <1>7, <1>9, <1>10, <1>14, <2>1, <2>3, <2>4, <2>5, <2>6, ReadyRest
<1>15. CASE /\ ~stop /\ ~end /\ Type(M, r) # "end" /\ heap_end >= r + size /\ heap_end >= w + Sector
            /\ mem' = M /\ write_ptr' = w /\ bottom' = r
            /\ GoOn(w)
            /\ UNCHANGED <<heap_end, unread, end>>
  <2>1. /\ read' \in BOOLEAN /\ drive' \in [on : BOOLEAN, buffer : 0 .. Heap]
        /\ drive'.on => drive'.buffer = w /\ read' = read /\ Ahead(w, top) > Sector
    BY <1>6, <1>10, <1>15, GoOnFacts
  <2>2. TypeOK' /\ Typed'
    BY <1>1, <1>5, <1>6, <1>7, <1>9, <1>10, <1>15, <2>1, ReadyTypes
  <2>3. Parts(m)' /\ Order(m)' /\ Arrives(m, m, Base + r)
    BY <1>1, <1>2, <1>4, <1>8, <1>15, <2>2, GrowHere DEF userVars
  <2>8. drive'.on /\ r < top => w + Sector < top
    <3>1. r < top => w <= top
      BY <1>5, <1>6, <1>8, <1>9, <1>15
    <3>2. w <= top => Ahead(w, top) = top - w
      BY DEF Ahead
    <3> QED BY <1>5, <1>6, <1>9, <1>15, <2>1, <3>1, <3>2
  <2>9. Filling'
    BY <1>15, <1>20, <2>8
  <2>4. drive'.on => w + Sector <= IF top <= r THEN heap_end ELSE top
    BY <1>5, <1>6, <1>9, <1>15, <2>8
  <2>5. Type(mem, bottom)' = Type(M, r)
    BY <1>1, <1>15 DEF Type
  <2>6. Reading'
    BY <1>1, <1>5, <1>6, <1>15, <2>1, <2>4, <2>5 DEF Reading
  <2>7. Came(m)
    BY <1>1, <1>2, <1>4, <1>8, <1>15, <2>3, CameHere
  <2> QED BY <1>1, <1>2, <1>5, <1>6, <1>7, <1>9, <1>10, <1>15, <2>1, <2>3, <2>6, <2>7, <2>9, ReadyRest
<1>16. CASE /\ ~stop /\ ~end /\ Type(M, r) # "end" /\ ~(heap_end >= r + size /\ heap_end >= w + Sector) /\ ~Fits(r, size)
            /\ mem' = M /\ write_ptr' = w /\ bottom' = r /\ unread' = r
            /\ Finish
            /\ UNCHANGED <<heap_end, end>>
  <2>1. read' = FALSE /\ drive' \in [on : BOOLEAN, buffer : 0 .. Heap] /\ drive'.on = FALSE
    BY <1>6, <1>10, <1>16, DriveNext DEF Finish
  <2>2. TypeOK' /\ Typed'
    BY <1>1, <1>5, <1>6, <1>7, <1>9, <1>10, <1>16, <2>1, ReadyTypes
  <2>3. Parts(m)' /\ Order(m)' /\ Arrives(m, m, Base + r)
    BY <1>1, <1>2, <1>4, <1>8, <1>16, <2>2, GrowHere DEF userVars
  <2>4. Type(mem, bottom)' = Type(M, r) /\ Size(mem, bottom)' = size
    BY <1>1, <1>4, <1>16 DEF Type, Size
  <2>5. w <= r + size /\ (heap_end < r + size \/ heap_end < w + Sector) /\ r # None
    BY <1>5, <1>6, <1>8, <1>9, <1>16 DEF None
  <2>6. Reading'
    BY <1>1, <1>5, <1>6, <1>11, <1>16, <2>1, <2>4, <2>5 DEF Reading
  <2>7. Came(m)
    BY <1>1, <1>2, <1>4, <1>8, <1>16, <2>3, CameHere
  <2>8. Filling'
    BY <1>16, <1>20, <2>1
  <2> QED BY <1>1, <1>2, <1>5, <1>6, <1>7, <1>9, <1>10, <1>16, <2>1, <2>3, <2>6, <2>7, <2>8, ReadyRest
<1>17. CASE /\ ~stop /\ ~end /\ Type(M, r) # "end" /\ ~(heap_end >= r + size /\ heap_end >= w + Sector) /\ Fits(r, size)
            /\ mem' = Moved(M, r, w) /\ write_ptr' = w - r /\ bottom' = 0
            /\ heap_end' = EndAfter(w - r)
            /\ GoOn(w - r)
            /\ UNCHANGED <<unread, end>>
  <2>1. top <= r /\ w - r <= top /\ size < r
    <3>1. top <= r \/ w <= top
      BY <1>5, <1>6, <1>8, <1>9, <1>17
    <3>2. r < Heap
      BY <1>5, <1>6, <1>9, <1>17
    <3> QED BY <1>5, <1>6, <1>8, <1>9, <1>17, <3>1, <3>2, MoveNumbers DEF Fits
  <2>2. Straight
    BY <1>5, <1>6, <1>8, <1>9, <1>17, <2>1 DEF Straight
  <2>3. w - r \in 0 .. Heap /\ w - r \in Nat /\ w - r >= 1 /\ w - r <= r /\ w - r <= size
    BY <1>5, <1>6, <1>8, <1>9, <1>17, <2>1
  <2>4. EndAfter(w - r) \in Nat /\ Heap - Sector < EndAfter(w - r) /\ EndAfter(w - r) <= Heap
    BY <2>3, EndAfterFacts
  <2>5. /\ read' \in BOOLEAN /\ drive' \in [on : BOOLEAN, buffer : 0 .. Heap]
        /\ drive'.on => drive'.buffer = w - r /\ read' = read /\ Ahead(w - r, top) > Sector
    BY <1>10, <1>17, <2>3, GoOnFacts
  <2>6. /\ mem' \in [Addr -> Cells] /\ \A q \in Addr : mem'[q].tag = "wrap" => mem'[q].cell = None
    BY <1>5, <1>6, <1>7, <1>9, <1>17, <2>3, MovedCells
  <2>7. bottom' \in Addr /\ heap_end' \in 0 .. Heap
    BY <1>5, <1>17, <2>4 DEF Addr
  <2>8. TypeOK' /\ Typed'
    BY <1>1, <1>5, <1>10, <1>17, <2>3, <2>5, <2>6, <2>7, ReadyTypes
  <2>9. Parts(r)' /\ Order(r)' /\ Arrives(m, r, Base + r) /\ mem'[0].cell = Base + r
    BY <1>1, <1>2, <1>4, <1>8, <1>17, <2>1, <2>2, <2>8, GrowMoved DEF userVars
  <2>10. Type(mem, bottom)' # "end"
    <3>1. 0 \in 0 .. w - r - 1 /\ r + 0 = r
      BY <1>9, <1>17, <2>3
    <3>2. Moved(M, r, w)[0] = M[r]
      BY <1>5, <1>6, <1>7, <1>9, <1>17, <2>3, <3>1, MovedCells
    <3>3. Type(mem, bottom)' = Type(M, r)
      BY <1>1, <1>17, <3>2 DEF Type
    <3> QED BY <1>17, <3>3
  <2>11. w - r + Sector <= EndAfter(w - r)
    BY <1>5, <1>8, <1>17, <2>3, <2>4, RoomNumbers
  <2>12. drive'.on => w - r + Sector <= top
    <3>1. Ahead(w - r, top) = top - (w - r)
      BY <2>1 DEF Ahead
    <3> QED BY <1>5, <2>3, <2>5, <3>1
  <2>13. top > 0
    BY <1>5, <2>1, <2>3
  <2>14. Reading'
    BY <1>1, <1>5, <1>17, <2>4, <2>5, <2>10, <2>11, <2>12, <2>13 DEF Reading
  <2>15. Came(m)
    <3>1. r \in Nat /\ bottom <= r /\ Base + r \in DOMAIN stream /\ bottom' = 0
      BY <1>5, <1>8, <1>9, <1>17
    <3> QED BY <1>1, <1>2, <2>9, <3>1, CameMoved
  <2>16. Filling'
    <3>1. (\E k \in Int : heap_end = write_ptr + k * Sector)'
      <4>1. PICK d : d = w - r
        OBVIOUS
      <4>2. d \in Nat /\ d <= Heap /\ Heap \in Nat /\ Sector \in Nat /\ Sector >= 1
        BY <1>5, <2>3, <4>1
      <4>3. \E k \in Int : EndAfter(d) = d + k * Sector
        BY <4>2, AlignedAfter
      <4> QED BY <1>17, <4>1, <4>3
    <3>2. drive'.on => w - r + Sector < top
      <4>1. Ahead(w - r, top) = top - (w - r)
        BY <2>1 DEF Ahead
      <4> QED BY <1>5, <2>3, <2>5, <4>1
    <3>3. ASSUME w - r = top PROVE JustFits'
      <4>1. r \in Nat /\ r < Heap /\ r < w
        BY <1>5, <1>6, <1>9, <1>17
      <4>2. size = w - r
        BY <1>5, <1>6, <1>8, <1>17, <2>1, <3>3, <4>1, FitNumbers DEF Fits
      <4>3. 0 \in 0 .. w - r - 1 /\ r + 0 = r
        BY <2>3, <4>1
      <4>4. Moved(M, r, w)[0] = M[r]
        BY <1>5, <1>6, <1>7, <2>3, <4>1, <4>3, MovedCells
      <4>5. Size(mem, 0)' = size
        BY <1>1, <1>4, <1>17, <4>4 DEF Size
      <4> QED BY <1>17, <4>2, <4>5 DEF JustFits
    <3> QED BY <1>1, <1>17, <3>1, <3>2, <3>3 DEF Filling
  <2> QED BY <1>1, <1>5, <1>9, <1>10, <1>17, <2>3, <2>5, <2>6, <2>7, <2>9, <2>14, <2>15, <2>16, ReadyRest
<1> QED BY <1>12, <1>13, <1>14, <1>15, <1>16, <1>17 DEF Comes

-----------------------------------------------------------------------------
(* FS_StreamSync moves fs_stream_top. *)

\* The ring from a place of it on.
LEMMA AfterTop ==
  ASSUME NEW m, Order(m), NEW t \in Places(m)
  PROVE  /\ RingAt(mem, t, bottom, write_ptr, Base, m)
         /\ t \in Nat /\ t < Heap /\ t \in Addr
         /\ t <= bottom \/ (write_ptr <= t /\ (t = write_ptr => top = write_ptr))
         /\ t <= bottom => \A p : p \in Places(m) /\ Key(t) <= Key(p) <=> p \in t .. bottom /\ Base + p \in DOMAIN stream
         /\ ~(t <= bottom) =>
              /\ ~Straight
              /\ \A p : p \in Places(m) /\ Key(t) <= Key(p) <=> \/ p = m
                                                                \/ p \in t .. m - 1 /\ Base - m + p \in DOMAIN stream
                                                                \/ p \in 0 .. bottom /\ Base + p \in DOMAIN stream
<1>1. /\ Heap \in Nat /\ m \in Nat /\ m < Heap
      /\ top \in Nat /\ bottom \in Nat /\ write_ptr \in Nat /\ Count \in Nat /\ Base \in Int
      /\ bottom < write_ptr /\ Base + bottom \in DOMAIN stream
      /\ ~Straight => bottom < top /\ write_ptr <= top /\ top <= m
      /\ Fed
  BY RingNumbers DEF Order
<1>2. t \in Nat /\ t < Heap /\ t \in Addr
  BY PlaceFacts
<1>3. RingAt(mem, top, bottom, write_ptr, Base, m)
  BY <1>1, RingIs DEF Order
<1>4. \A p \in Places(m) : /\ p \in Nat
                           /\ Wrapped(m, p) => Key(p) = 2 * Base
                           /\ ~Wrapped(m, p) => Key(p) = 2 * Spot(m, p) + 1
  BY PlaceFacts
<1>5. CASE Straight
  <2>1. \A p : p \in Places(m) <=> p \in top .. bottom /\ Base + p \in DOMAIN stream
    BY <1>5, PlacesAre
  <2>2. \A p \in Places(m) : Key(p) = 2 * (Base + p) + 1
    BY <1>4, <1>5 DEF Wrapped, Spot
  <2>3. t \in top .. bottom /\ Base + t \in DOMAIN stream
    BY <2>1
  <2>4. RingAt(mem, t, bottom, write_ptr, Base, m)
    BY <1>1, <1>2, <1>3, <1>5, <2>3 DEF RingAt, Straight
  <2>5. \A p : p \in Places(m) /\ Key(t) <= Key(p) <=> p \in t .. bottom /\ Base + p \in DOMAIN stream
    BY <1>1, <1>2, <1>4, <2>1, <2>2, <2>3
  <2> QED BY <1>1, <1>2, <2>3, <2>4, <2>5
<1>6. CASE ~Straight
  <2>1. \A p : p \in Places(m) <=> \/ p = m
                                   \/ p \in top .. m - 1 /\ Base - m + p \in DOMAIN stream
                                   \/ p \in 0 .. bottom /\ Base + p \in DOMAIN stream
    BY <1>6, PlacesAre
  <2>2. \A p \in Places(m) : Key(p) = IF p = m THEN 2 * Base ELSE IF p < top THEN 2 * (Base + p) + 1 ELSE 2 * (Base - m + p) + 1
    BY <1>4, <1>6 DEF Wrapped, Spot
  <2>3. /\ mem[m] = Mark /\ (\A x \in 0 .. write_ptr - 1 : mem[x].cell = Base + x)
        /\ (\A x \in top .. m - 1 : mem[x].cell = Base - m + x) /\ Base \in DOMAIN stream
        /\ \A p \in bottom .. write_ptr - 1 : mem[p].tag = "fresh"
    BY <1>1, <1>3, <1>6 DEF RingAt, Straight
  <2>4. CASE t <= bottom
    <3>1. Base + t \in DOMAIN stream
      BY <1>1, <1>2, <1>6, <2>1, <2>4
    <3>2. RingAt(mem, t, bottom, write_ptr, Base, m)
      BY <1>1, <1>2, <2>3, <2>4, <3>1 DEF RingAt
    <3>3. Key(t) = 2 * (Base + t) + 1
      BY <1>1, <1>2, <1>6, <2>2, <2>4
    <3>4. \A p : p \in Places(m) /\ Key(t) <= Key(p) <=> p \in t .. bottom /\ Base + p \in DOMAIN stream
      BY <1>1, <1>2, <1>4, <1>6, <2>1, <2>2, <2>4, <3>3
    <3> QED BY <1>2, <2>4, <3>2, <3>4
  <2>5. CASE ~(t <= bottom)
    <3>1. t = m \/ (t \in top .. m - 1 /\ Base - m + t \in DOMAIN stream)
      BY <1>1, <1>2, <2>1, <2>5
    <3>2. t \in top .. m
      BY <1>1, <1>6, <3>1
    <3>3. RingAt(mem, t, bottom, write_ptr, Base, m)
      BY <1>1, <1>2, <1>6, <2>3, <2>5, <3>1, <3>2 DEF RingAt
    <3>4. Key(t) = IF t = m THEN 2 * Base ELSE 2 * (Base - m + t) + 1
      BY <1>1, <1>6, <2>2, <3>1
    <3>5. \A p : p \in Places(m) /\ Key(t) <= Key(p) <=> \/ p = m
                                                         \/ p \in t .. m - 1 /\ Base - m + p \in DOMAIN stream
                                                         \/ p \in 0 .. bottom /\ Base + p \in DOMAIN stream
      <4> SUFFICES ASSUME NEW p
                   PROVE  p \in Places(m) /\ Key(t) <= Key(p) <=> \/ p = m
                                                                  \/ p \in t .. m - 1 /\ Base - m + p \in DOMAIN stream
                                                                  \/ p \in 0 .. bottom /\ Base + p \in DOMAIN stream
        OBVIOUS
      <4>1. CASE p = m
        <5>1. p \in Places(m) /\ Key(p) = 2 * Base
          BY <2>1, <2>2, <4>1
        <5> QED BY <1>1, <3>2, <3>4, <4>1, <5>1
      <4>2. CASE p # m /\ p \in top .. m - 1
        <5>1. p \in Places(m) => Key(p) = 2 * (Base - m + p) + 1
          BY <1>1, <2>2, <4>2
        <5>2. p \notin 0 .. bottom
          BY <1>1, <1>6, <4>2
        <5> QED BY <1>1, <1>2, <2>1, <3>2, <3>4, <4>2, <5>1, <5>2
      <4>3. CASE p # m /\ p \in 0 .. bottom
        <5>1. p \in Places(m) => Key(p) = 2 * (Base + p) + 1
          BY <1>1, <1>6, <2>2, <4>3
        <5> QED BY <1>1, <1>2, <1>6, <2>1, <3>2, <3>4, <4>3, <5>1
      <4>4. CASE p # m /\ p \notin top .. m - 1 /\ p \notin 0 .. bottom
        <5>1. p \notin t .. m - 1
          BY <1>1, <3>2, <4>4
        <5> QED BY <2>1, <4>4, <5>1
      <4> QED BY <4>1, <4>2, <4>3, <4>4
    <3>6. write_ptr <= t /\ (t = write_ptr => top = write_ptr)
      BY <1>1, <1>2, <1>6, <3>2
    <3> QED BY <1>2, <1>6, <2>5, <3>3, <3>5, <3>6
  <2> QED BY <2>4, <2>5
<1> QED BY <1>5, <1>6

\* Nothing that is held has gone.
LEMMA HoldingDrop ==
  ASSUME NEW m, Holding(m), NEW n, stream' = stream, held' = held, held \in [Consumer -> Seq(Addr)],
         \A p \in Heads(n)' : (p \in Heads(m) /\ mem'[p] = mem[p]) \/ mem'[p].tag = "wrap",
         \A p \in Heads(m) : mem[p].tag = "busy" => p \in Heads(n)' /\ mem'[p] = mem[p]
  PROVE  Holding(n)'
<1>1. \A p : mem'[p] = mem[p] => Type(mem', p) = Type(mem, p)
  BY DEF Type
<1>2. ASSUME NEW c \in Consumer, NEW i \in 1 .. Len(held[c])
      PROVE  /\ held[c][i] \in Heads(n)' /\ Type(mem', held[c][i]) = c /\ mem'[held[c][i]].tag = "busy"
             /\ \A j \in 1 .. i - 1 : mem'[held[c][j]].cell < mem'[held[c][i]].cell
             /\ \A q \in Heads(n)' : Type(mem', q) = c /\ mem'[q].tag = "fresh" => mem'[held[c][i]].cell < mem'[q].cell
  <2>1. \E h, p : h = held[c] /\ p = held[c][i]
    OBVIOUS
  <2>2. PICK h, p : h = held[c] /\ p = held[c][i]
    BY <2>1
  <2>3. \A j \in 1 .. i : h[j] \in Heads(m) /\ mem[h[j]].tag = "busy"
    <3>1. \A j \in 1 .. i : j \in 1 .. Len(held[c])
      <4>1. Len(held[c]) \in Nat
        BY LenProperties
      <4> QED BY <4>1
    <3>2. \A j \in 1 .. Len(held[c]) : held[c][j] \in Heads(m) /\ mem[held[c][j]].tag = "busy"
      BY DEF Holding
    <3> QED BY <2>2, <3>1, <3>2
  <2>4. /\ p \in Heads(m) /\ Type(mem, p) = c /\ mem[p].tag = "busy"
        /\ \A j \in 1 .. i - 1 : mem[h[j]].cell < mem[p].cell
        /\ \A q \in Heads(m) : Type(mem, q) = c /\ mem[q].tag = "fresh" => mem[p].cell < mem[q].cell
    <3>1. /\ held[c][i] \in Heads(m) /\ Type(mem, held[c][i]) = c /\ mem[held[c][i]].tag = "busy"
          /\ \A j \in 1 .. i - 1 : mem[held[c][j]].cell < mem[held[c][i]].cell
          /\ \A q \in Heads(m) : Type(mem, q) = c /\ mem[q].tag = "fresh" => mem[held[c][i]].cell < mem[q].cell
      BY DEF Holding
    <3> QED BY <2>2, <3>1
  <2>5. p \in Heads(n)' /\ mem'[p] = mem[p] /\ Type(mem', p) = c
    BY <1>1, <2>4
  <2>6. \A j \in 1 .. i - 1 : mem'[h[j]].cell < mem'[p].cell
    BY <2>3, <2>4, <2>5
  <2>7. \A q \in Heads(n)' : Type(mem', q) = c /\ mem'[q].tag = "fresh" => mem'[p].cell < mem'[q].cell
    BY <1>1, <2>4, <2>5
  <2> QED BY <2>2, <2>4, <2>5, <2>6, <2>7
<1>3. ASSUME NEW p \in Heads(n)', mem'[p].tag = "busy" PROVE \E c \in Consumer : p \in Range(held[c])
  <2>1. p \in Heads(m) /\ mem[p].tag = "busy"
    BY <1>3
  <2> QED BY <2>1 DEF Holding
<1>4. HeldBy(Heads(n)', mem', held')
  BY <1>2, <1>3 DEF HeldBy
<1> QED BY <1>4, HoldingNext

\* What is known when FS_StreamSync has found the first block in use.
LEMMA EndNumbers ==
  ASSUME IInv, SyncEnd, NEW m \in Addr, Parts(m), NEW t, t = sync.ptr
  PROVE  /\ Order(m) /\ Played /\ t \in Places(m) /\ t \in Addr /\ t \in Nat /\ t < Heap /\ ~stop /\ Fed
         /\ \A p \in Heads(m) : Key(p) < Key(t) => mem[p].tag \notin {"fresh", "busy"}
         /\ Heap \in Nat /\ Sector \in Nat /\ Sector >= 2 /\ m \in Nat
         /\ top \in Nat /\ bottom \in Nat /\ write_ptr \in Nat /\ heap_end \in Nat /\ Count \in Nat /\ Base \in Int
         /\ Base = Count - write_ptr /\ bottom < write_ptr /\ write_ptr <= Heap /\ bottom < Heap
         /\ Heap - Sector < heap_end /\ heap_end <= Heap
         /\ ~sync.read => ~drive.on /\ ~end /\ ~read
<1>1. sync.pc = "end" /\ Played /\ sync.ptr \in Addr
  BY StreamFacts DEF SyncEnd, IInv, Typed
<1>2. /\ Fed /\ sync.ptr \in Places(m)
      /\ ~sync.read => ~drive.on /\ ~end /\ ~read
      /\ \A p \in Heads(m) : Key(p) < Key(sync.ptr) => mem[p].tag \in {"clear", "wrap"}
  BY <1>1 DEF Parts, Syncing
<1>3. Order(m)
  BY <1>1, <1>2 DEF IInv, Parts, Order
<1>4. \E s : s = sync.ptr
  OBVIOUS
<1>5. PICK s : s = sync.ptr
  BY <1>4
<1>6. \A p \in Heads(m) : Key(p) < Key(s) => mem[p].tag \notin {"fresh", "busy"}
  BY <1>2, <1>5
<1>7. ~stop
  BY <1>1 DEF IInv, Stopping
<1>8. t \in Nat /\ t < Heap
  BY <1>2, <1>3, PlaceFacts
<1>9. /\ Heap \in Nat /\ m \in Nat
      /\ top \in Nat /\ bottom \in Nat /\ write_ptr \in Nat /\ Count \in Nat /\ Base \in Int
      /\ Base = Count - write_ptr /\ bottom < write_ptr /\ write_ptr <= Heap /\ bottom < Heap
  BY <1>3, RingNumbers
<1>10. heap_end \in Nat /\ Heap - Sector < heap_end /\ heap_end <= Heap /\ Sector \in Nat /\ Sector >= 2
  BY <1>1, <1>9, HeapFacts DEF IInv, TypeOK, Reading
<1> QED BY <1>1, <1>2, <1>3, <1>5, <1>6, <1>7, <1>8, <1>9, <1>10

\* The step, but for the ring and for where the disk may write.
LEMMA EndRest ==
  ASSUME IInv, SyncEnd, sync' = Idle, NEW m \in Addr, Parts(m), NEW n, n \in Addr, Ring(n)', Seeking(n)', Holding(n)',
         TypeOK', Reading',
         \A p \in Addr : mem'[p].tag = "wrap" => mem'[p].cell = None, drive' \in [on : BOOLEAN, buffer : 0 .. Heap]
  PROVE  IInv'
<1>1. ~stop /\ Fed
  BY EndNumbers
<1>2. sync' = Idle /\ UNCHANGED <<sector, stop, end, task_state, walk, held, stream, starts>>
  BY DEF SyncEnd
<1>3. Fed' /\ ~stop' /\ sync'.pc = "idle"
  BY <1>1, <1>2 DEF Fed, Idle
<1>4. Idle \in [pc : {"idle", "walk", "end"}, ptr : Addr, lim : Addr, read : BOOLEAN]
  <2>1. 0 \in Addr
    BY HeapFacts, StreamFacts DEF IInv, Addr
  <2> QED BY <2>1 DEF Idle
<1>5. Typed'
  BY <1>2, <1>4 DEF IInv, Typed
<1>6. Opening' /\ Stopping' /\ Syncing(n)'
  BY <1>3 DEF Opening, Stopping, Syncing
<1> QED BY <1>5, <1>6 DEF IInv, Parts

\* Where the ring is not undone, the sound task stands on nothing that is freed.
LEMMA NotOvertaken ==
  ASSUME IInv, SyncEnd, sync' = Idle, NEW m \in Addr, Parts(m), Walking
  PROVE  Key(sync.ptr) <= Key(walk.ptr)
<1>1. /\ Order(m) /\ Heads(m) \subseteq Places(m) /\ sync.ptr \in Places(m) /\ walk.ptr \in Places(m)
  BY EndNumbers DEF Parts, Seeking, Places
<1>2. ~Overtakes
  BY DEF SyncEnd, Idle, Lost
<1>3. /\ Live = Heads(m) /\ \A p \in Places(m) : Key(p) \in Nat
      /\ bottom \notin Heads(m) /\ \A p \in Heads(m) : Key(p) < Key(bottom)
  BY <1>1, TrailFacts, PlaceFacts, KeyOrder
<1>4. CASE walk.ptr = bottom
  BY <1>1, <1>3, <1>4 DEF Places
<1>5. CASE walk.ptr # bottom /\ sync.ptr = bottom
  <2>1. Before(bottom) = Live
    BY <1>1, <1>3, BeforeBottom
  <2> QED BY <1>1, <1>2, <1>3, <1>5, <2>1 DEF Overtakes, Places
<1>6. CASE walk.ptr # bottom /\ sync.ptr # bottom
  <2>1. PICK s : s = sync.ptr
    OBVIOUS
  <2>2. s \in Heads(m) /\ walk.ptr \in Heads(m)
    BY <1>1, <1>6, <2>1 DEF Places
  <2>3. Before(s) = {p \in Heads(m) : Key(p) < Key(s)}
    BY <1>1, <2>2, BeforeFacts
  <2>4. ~(Key(walk.ptr) < Key(s))
    BY <1>2, <2>1, <2>2, <2>3 DEF Overtakes
  <2> QED BY <1>1, <1>3, <2>1, <2>4
<1> QED BY <1>4, <1>5, <1>6

\* What is in use stays.
Keeps(m, n) ==
  /\ \A p \in Heads(n)' : (p \in Heads(m) /\ mem'[p] = mem[p]) \/ mem'[p].tag = "wrap"
  /\ \A p \in Heads(m) : mem[p].tag \in {"fresh", "busy"} => p \in Heads(n)' /\ mem'[p] = mem[p]
  /\ mem'[bottom'].cell = mem[bottom].cell

\* Where fs_stream_top alone moves, the ring loses what nobody uses.
LEMMA TopMoves ==
  ASSUME IInv, SyncEnd, sync' = Idle, NEW m \in Addr, Parts(m), UNCHANGED <<mem, bottom, write_ptr>>, TypeOK',
         drive' \in [on : BOOLEAN, buffer : 0 .. Heap]
  PROVE  Ring(m)' /\ Seeking(m)' /\ Holding(m)' /\ Order(m)' /\ Keeps(m, m)
<1>1. \E t : t = sync.ptr
  OBVIOUS
<1>2. PICK t : t = sync.ptr
  BY <1>1
<1>3. /\ Order(m) /\ Played /\ t \in Places(m) /\ t \in Addr /\ t \in Nat /\ t < Heap /\ Fed
      /\ \A p \in Heads(m) : Key(p) < Key(t) => mem[p].tag \notin {"fresh", "busy"}
      /\ Heap \in Nat /\ m \in Nat
      /\ bottom \in Nat /\ write_ptr \in Nat /\ Count \in Nat /\ Base \in Int
  BY <1>2, EndNumbers
<1>4. sync' = Idle /\ UNCHANGED <<sector, stop, end, task_state, walk, held, stream, starts>> /\ top' = t
  BY <1>2 DEF SyncEnd
<1>5. Base' = Base /\ Count' = Count /\ Fed'
  BY <1>3, <1>4 DEF Base, Count, Fed
<1>6. /\ RingAt(mem, t, bottom, write_ptr, Base, m)
      /\ t <= bottom => \A p : p \in Places(m) /\ Key(t) <= Key(p) <=> p \in t .. bottom /\ Base + p \in DOMAIN stream
      /\ ~(t <= bottom) =>
           \A p : p \in Places(m) /\ Key(t) <= Key(p) <=> \/ p = m
                                                          \/ p \in t .. m - 1 /\ Base - m + p \in DOMAIN stream
                                                          \/ p \in 0 .. bottom /\ Base + p \in DOMAIN stream
  BY <1>3, AfterTop
<1>7. Ring(m)'
  <2>1. RingAt(mem', top', bottom', write_ptr', Base', m)
    BY <1>4, <1>5, <1>6
  <2>2. top' \in Nat /\ bottom' \in Nat /\ write_ptr' \in Nat /\ Count' \in Nat
    BY <1>3, <1>4, <1>5
  <2> QED BY <1>3, <1>4, <1>5, <2>1, <2>2, RingNext
<1>8. Typed'
  <2>1. Idle \in [pc : {"idle", "walk", "end"}, ptr : Addr, lim : Addr, read : BOOLEAN]
    <3>1. 0 \in Addr
      BY <1>3 DEF Addr
    <3> QED BY <3>1 DEF Idle
  <2> QED BY <1>4, <2>1 DEF IInv, Typed
<1>9. Order(m)'
  BY <1>3, <1>4, <1>5, <1>7, <1>8, OrderNext
<1>10. \A p : p \in Places(m)' <=> p \in Places(m) /\ Key(t) <= Key(p)
  <2>1. Straight' <=> t <= bottom
    BY <1>4 DEF Straight
  <2>2. /\ t <= bottom => \A p : p \in Places(m)' <=> p \in t .. bottom /\ Base + p \in DOMAIN stream
        /\ ~(t <= bottom) =>
             \A p : p \in Places(m)' <=> \/ p = m
                                         \/ p \in t .. m - 1 /\ Base - m + p \in DOMAIN stream
                                         \/ p \in 0 .. bottom /\ Base + p \in DOMAIN stream
    BY <1>4, <1>5, <1>9, <2>1, PlacesPrimed
  <2> QED BY <1>6, <2>2
<1>11. \A p \in Places(m)' : p \in Heads(m)' <=> p # bottom
  BY <1>9, KeysPrimed
<1>12. \A p \in Places(m) : p \in Heads(m) <=> p # bottom
  BY <1>3, KeysAll
<1>13. \A p \in Heads(m)' : p \in Heads(m) /\ mem'[p] = mem[p]
  BY <1>10, <1>11, <1>12 DEF Places
<1>14. ASSUME NEW p \in Heads(m), mem[p].tag \in {"fresh", "busy"} PROVE p \in Heads(m)' /\ mem'[p] = mem[p]
  <2>1. p \in Places(m) /\ ~(Key(p) < Key(t))
    BY <1>3, <1>14 DEF Places
  <2>2. Key(p) \in Nat /\ Key(t) \in Nat
    BY <1>3, <2>1, PlaceFacts
  <2>3. p \in Places(m)'
    BY <1>10, <2>1, <2>2
  <2> QED BY <1>11, <1>12, <2>1, <2>3
<1>15. Holding(m)'
  <2>1. Holding(m) /\ held \in [Consumer -> Seq(Addr)]
    BY DEF Parts, IInv, TypeOK
  <2> QED BY <1>4, <1>13, <1>14, <2>1, HoldingDrop
<1>16. Keeps(m, m)
  BY <1>13, <1>14 DEF Keeps
<1>17. Seeking(m)'
  <2>1. CASE ~Walking
    BY <1>4, <2>1 DEF Seeking, Walking
  <2>2. CASE Walking
    <3>1. PICK s, l : s = walk.ptr /\ l = walk.lim
      OBVIOUS
    <3>2. /\ s \in Places(m) /\ l \in Places(m) /\ Key(s) <= Key(l)
          /\ \A p \in Heads(m) : Key(p) < Key(s) /\ Type(mem, p) = "sound" => mem[p].tag # "fresh"
      BY <2>2, <3>1 DEF Parts, Seeking
    <3>3. Key(t) <= Key(s)
      BY <1>2, <2>2, <3>1, NotOvertaken
    <3>4. Key(t) \in Nat /\ Key(s) \in Nat /\ Key(l) \in Nat
      BY <1>3, <3>2, PlaceFacts
    <3>5. s \in Places(m)' /\ l \in Places(m)'
      BY <1>10, <3>2, <3>3, <3>4
    <3>6. \A p : Key(p)' = Key(p) /\ Type(mem, p)' = Type(mem, p)
      BY <1>4 DEF Key, Type
    <3>7. \A p \in Heads(m)' : Key(p)' < Key(s)' /\ Type(mem, p)' = "sound" => mem'[p].tag # "fresh"
      BY <1>13, <3>2, <3>6
    <3> QED BY <1>4, <3>1, <3>2, <3>5, <3>6, <3>7 DEF Seeking
  <2> QED BY <2>1, <2>2
<1> QED BY <1>7, <1>9, <1>15, <1>16, <1>17

\* The block that could not be moved when it was read is moved now.
LEMMA UnreadNumbers ==
  ASSUME NEW e \in Nat, NEW t \in Nat, NEW b \in Nat, NEW w \in Nat, NEW size \in Nat, size >= 1,
         Heap \in Nat, Sector \in Nat, Sector >= 2, 3 * size + 9 * Sector <= Heap + 11,
         TwoThirds \in Nat, size + 3 * (Sector - 1) <= Heap - TwoThirds,
         Heap - Sector < e, b < w, w <= b + size, t < Heap, t <= b \/ w <= t, b < Heap,
         e < b + size \/ e < w + Sector, e < w + Sector => e <= w, Ahead(b, t) >= Ahead(b, size), Ahead(t, w) < TwoThirds
  PROVE  t <= b /\ w - b <= t /\ w - b + Sector < t
<1>1. t <= b /\ w - b <= t
  <2>1. ~(e >= b + size /\ e >= w + Sector)
    OBVIOUS
  <2> QED BY <2>1, MoveNumbers
<1>2. w - t < TwoThirds
  <2>1. Ahead(t, w) = w - t
    BY <1>1 DEF Ahead
  <2> QED BY <2>1
<1>3. CASE e < b + size
  BY <1>1, <1>2, <1>3
<1>4. CASE e < w + Sector
  BY <1>1, <1>2, <1>4
<1> QED BY <1>1, <1>3, <1>4

\* The keys of what is left from a place before fs_stream_bottom on.
LEMMA HereKeys ==
  ASSUME NEW m, Order(m), NEW t \in Places(m), t <= bottom
  PROVE  \A p \in Places(m) : p \in t .. bottom => Key(p) = 2 * (Base + p) + 1
<1>1. top \in Nat /\ bottom \in Nat /\ m \in Nat /\ Base \in Int /\ (~Straight => bottom < top /\ top <= m)
  BY RingNumbers
<1> SUFFICES ASSUME NEW p \in Places(m), p \in t .. bottom PROVE Key(p) = 2 * (Base + p) + 1
  OBVIOUS
<1>2. p \in Nat /\ t \in Nat /\ p <= bottom
  BY <1>1, PlaceFacts
<1>3. ~Wrapped(m, p) /\ Spot(m, p) = Base + p
  BY <1>1, <1>2 DEF Wrapped, Spot
<1> QED BY <1>3, PlaceFacts

\* The keys once the last block has been moved.
LEMMA MovedKeys ==
  ASSUME NEW b, Order(b)', ~Straight', bottom' = 0, NEW t \in Nat, top' = t, t > 0, b \in Nat, Base \in Int,
         Base' = Base + b
  PROVE  \A p \in Places(b)' : Key(p)' = IF p = b THEN 2 * (Base + b) ELSE IF p < t THEN 2 * (Base + b + p) + 1 ELSE 2 * (Base + p) + 1
<1> SUFFICES ASSUME NEW p \in Places(b)'
             PROVE  Key(p)' = IF p = b THEN 2 * (Base + b) ELSE IF p < t THEN 2 * (Base + b + p) + 1 ELSE 2 * (Base + p) + 1
  OBVIOUS
<1>1. /\ p \in Nat
      /\ Wrapped(b, p)' => Key(p)' = 2 * Base'
      /\ ~Wrapped(b, p)' => Key(p)' = 2 * (IF top' <= bottom' \/ p < top' THEN Base' + p ELSE Base' - b + p) + 1
  BY KeysPrimed
<1>2. Wrapped(b, p)' <=> p = b
  BY DEF Wrapped
<1>3. PICK B, k : B = Base' /\ k = Key(p)'
  OBVIOUS
<1>4. /\ p = b => k = 2 * B
      /\ p # b => k = 2 * (IF t <= 0 \/ p < t THEN B + p ELSE B - b + p) + 1
  BY <1>1, <1>2, <1>3
<1>5. B = Base + b
  BY <1>3
<1>6. k = IF p = b THEN 2 * (Base + b) ELSE IF p < t THEN 2 * (Base + b + p) + 1 ELSE 2 * (Base + p) + 1
  BY <1>1, <1>4, <1>5
<1> QED BY <1>3, <1>6

\* The ring and what is held after FS_StreamSync has moved the last block.
LEMMA EndMoved ==
  ASSUME IInv, SyncEnd, sync' = Idle, NEW m \in Addr, Parts(m), unread # None, NEW t, t = sync.ptr, NEW b, b = bottom,
         NEW w, w = write_ptr, b \in Nat, w \in Nat, t <= b, w - b <= t,
         mem' = Moved(mem, b, w), write_ptr' = w - b, bottom' = 0, top' = t, Typed', TypeOK'
  PROVE  b \in Addr /\ Ring(b)' /\ Seeking(b)' /\ Holding(b)' /\ Order(b)' /\ Keeps(m, b)
<1>1. /\ Order(m) /\ Played /\ t \in Places(m) /\ t \in Addr /\ t \in Nat /\ t < Heap /\ Fed
      /\ \A p \in Heads(m) : Key(p) < Key(t) => mem[p].tag \notin {"fresh", "busy"}
      /\ Heap \in Nat /\ Sector \in Nat /\ Sector >= 2
      /\ Count \in Nat /\ Base \in Int /\ Base = Count - w /\ b < w /\ w <= Heap /\ b < Heap
  BY EndNumbers
<1>2. UNCHANGED <<sector, held, stream>>
  BY DEF SyncEnd
<1>3. mem \in [Addr -> Cells] /\ b \in Addr /\ w - b \in Nat /\ w - b >= 1 /\ t > 0
  BY <1>1 DEF IInv, TypeOK, Cells, Addr
<1>4. Base' = Base + b /\ Count' = Count /\ Fed'
  <2>1. Count' = Count /\ Fed'
    BY <1>1, <1>2 DEF Count, Fed
  <2>2. Base' = Count' - write_ptr'
    BY DEF Base
  <2> QED BY <1>1, <2>1, <2>2
<1>5. /\ RingAt(mem, t, b, w, Base, m)
      /\ \A p : p \in Places(m) /\ Key(t) <= Key(p) <=> p \in t .. b /\ Base + p \in DOMAIN stream
  BY <1>1, AfterTop
<1>6. Ring(b)'
  <2>1. RingAt(mem', top', bottom', write_ptr', Base', b)
    BY <1>1, <1>3, <1>4, <1>5, MovedRing
  <2>2. top' \in Nat /\ bottom' \in Nat /\ write_ptr' \in Nat /\ Count' \in Nat
    BY <1>1, <1>3, <1>4
  <2> QED BY <1>2, <1>4, <2>1, <2>2, RingNext
<1>7. Order(b)'
  BY <1>1, <1>2, <1>3, <1>4, <1>6, OrderNext
<1>8. ~Straight'
  BY <1>1, <1>3 DEF Straight
<1>9. \A p : p \in Places(b)' <=> \/ p = b
                                  \/ p \in t .. b - 1 /\ Base + p \in DOMAIN stream
                                  \/ p = 0 /\ Base + b \in DOMAIN stream
  <2>1. \A p : p \in Places(b)' <=> \/ p = b
                                    \/ p \in top' .. b - 1 /\ Base' - b + p \in DOMAIN stream'
                                    \/ p \in 0 .. bottom' /\ Base' + p \in DOMAIN stream'
    BY <1>7, <1>8, PlacesPrimed
  <2>2. \E u, v : u = Base' - b /\ v = Base'
    OBVIOUS
  <2>3. PICK u, v : u = Base' - b /\ v = Base'
    BY <2>2
  <2>4. top' .. b - 1 = t .. b - 1 /\ 0 .. bottom' = 0 .. 0 /\ DOMAIN stream' = DOMAIN stream
    BY <1>2
  <2>5. \A p : p \in Places(b)' <=> \/ p = b
                                    \/ p \in t .. b - 1 /\ u + p \in DOMAIN stream
                                    \/ p \in 0 .. 0 /\ v + p \in DOMAIN stream
    BY <2>1, <2>3, <2>4
  <2>6. u = Base /\ v = Base + b /\ v + 0 = Base + b
    BY <1>1, <1>4, <2>3
  <2>7. \A p : p \in 0 .. 0 <=> p = 0
    OBVIOUS
  <2> QED BY <2>5, <2>6, <2>7
<1>10. \A p \in Places(b)' : p \in Heads(b)' <=> p # 0
  BY <1>7, KeysPrimed
<1>11. \A p \in Places(m) : p \in Heads(m) <=> p # b
  BY <1>1, KeysAll
<1>12. \A q \in Addr : q >= w - b /\ q # b => mem'[q] = mem[q]
  <2>1. \A q \in Addr : q >= w - b /\ q # b => Moved(mem, b, w)[q] = mem[q]
    BY <1>1, <1>3, MovedCells
  <2> QED BY <2>1
<1>13. mem'[b].tag = "wrap"
  <2>1. Moved(mem, b, w)[b] = Mark
    BY <1>1, <1>3, MovedCells
  <2> QED BY <2>1 DEF Mark
<1>14. ASSUME NEW p \in Heads(b)' PROVE (p \in Heads(m) /\ mem'[p] = mem[p]) \/ mem'[p].tag = "wrap"
  <2>1. p \in Places(b)' /\ p # 0
    <3>1. p \in Places(b)'
      BY DEF Places
    <3> QED BY <1>10, <3>1
  <2>2. CASE p = b
    BY <1>13, <2>2
  <2>3. CASE p # b
    <3>1. p \in t .. b - 1 /\ Base + p \in DOMAIN stream
      BY <1>9, <2>1, <2>3
    <3>2. p \in t .. b /\ p \in Addr /\ p >= w - b
      BY <1>1, <3>1 DEF Addr
    <3> QED BY <1>5, <1>11, <1>12, <2>3, <3>1, <3>2
  <2> QED BY <2>2, <2>3
<1>15. ASSUME NEW p \in Heads(m), mem[p].tag \in {"fresh", "busy"} PROVE p \in Heads(b)' /\ mem'[p] = mem[p]
  <2>1. p \in Places(m) /\ ~(Key(p) < Key(t))
    BY <1>1, <1>15 DEF Places
  <2>2. Key(p) \in Nat /\ Key(t) \in Nat
    BY <1>1, <2>1, PlaceFacts
  <2>3. p \in t .. b /\ Base + p \in DOMAIN stream /\ p # b
    BY <1>5, <1>11, <2>1, <2>2
  <2>4. p \in t .. b - 1 /\ p # 0 /\ p \in Addr /\ p >= w - b
    BY <1>1, <1>3, <2>3 DEF Addr
  <2> QED BY <1>9, <1>10, <1>12, <2>3, <2>4
<1>16. Holding(b)'
  <2>1. Holding(m) /\ held \in [Consumer -> Seq(Addr)]
    BY DEF Parts, IInv, TypeOK
  <2> QED BY <1>2, <1>14, <1>15, <2>1, HoldingDrop
<1>17. Keeps(m, b)
  <2>1. mem'[0].cell = mem[b].cell
    <3>1. 0 \in 0 .. w - b - 1 /\ b + 0 = b
      BY <1>1, <1>3
    <3>2. Moved(mem, b, w)[0] = mem[b]
      <4>1. w - b <= b
        BY <1>1
      <4>2. \A q \in 0 .. w - b - 1 : Moved(mem, b, w)[q] = mem[b + q]
        BY <1>1, <1>3, <4>1, MovedCells
      <4> QED BY <3>1, <4>2
    <3> QED BY <3>2
  <2> QED BY <1>14, <1>15, <2>1 DEF Keeps
<1>18. Seeking(b)'
  <2>1. CASE ~Walking
    <3>1. walk' = walk
      BY DEF SyncEnd
    <3> QED BY <2>1, <3>1 DEF Seeking, Walking
  <2>2. CASE Walking
    <3>1. PICK s, l : s = walk.ptr /\ l = walk.lim
      OBVIOUS
    <3>2. /\ s \in Places(m) /\ l \in Places(m) /\ Key(s) <= Key(l)
          /\ \A p \in Heads(m) : Key(p) < Key(s) /\ Type(mem, p) = "sound" => mem[p].tag # "fresh"
      BY <2>2, <3>1 DEF Parts, Seeking
    <3>3. Key(t) <= Key(s)
      BY <2>2, <3>1, NotOvertaken
    <3>4. \A p \in Places(m) : Key(p) \in Nat
      BY <1>1, PlaceFacts
    <3>5. s \in t .. b /\ l \in t .. b /\ Base + s \in DOMAIN stream /\ Base + l \in DOMAIN stream
      BY <1>1, <1>5, <3>2, <3>3, <3>4
    <3>6. \A p \in Places(m) : p \in t .. b => Key(p) = 2 * (Base + p) + 1
      BY <1>1, <1>3, HereKeys
    <3>7. s <= l /\ s \in Nat /\ l \in Nat
      BY <1>1, <3>2, <3>5, <3>6
    <3>8. s \in Places(b)' /\ l \in Places(b)'
      BY <1>1, <1>9, <3>5, <3>7
    <3>9. \A p \in Places(b)' : Key(p)' = IF p = b THEN 2 * (Base + b) ELSE IF p < t THEN 2 * (Base + b + p) + 1 ELSE 2 * (Base + p) + 1
      BY <1>1, <1>3, <1>4, <1>7, <1>8, MovedKeys
    <3>10. Key(s)' <= Key(l)'
      BY <1>1, <3>5, <3>7, <3>8, <3>9
    <3>11. ASSUME NEW p \in Heads(b)', Key(p)' < Key(s)', Type(mem, p)' = "sound" PROVE mem'[p].tag # "fresh"
      <4>1. CASE mem'[p].tag = "wrap"
        BY <4>1
      <4>2. CASE mem'[p].tag # "wrap"
        <5>1. p \in Heads(m) /\ mem'[p] = mem[p] /\ Type(mem, p) = "sound"
          BY <1>2, <1>14, <3>11, <4>2 DEF Type
        <5>2. p \in Places(b)' /\ p # b /\ p # 0
          <6>1. p \in Places(b)'
            BY DEF Places
          <6> QED BY <1>10, <1>13, <4>2, <6>1
        <5>3. p \in t .. b - 1 /\ p \in Places(m)
          BY <1>9, <5>1, <5>2 DEF Places
        <5>4. p \in Nat /\ p \in t .. b /\ ~(p < t)
          BY <1>1, <5>3
        <5>5. Key(p)' = 2 * (Base + p) + 1 /\ Key(p) = 2 * (Base + p) + 1 /\ Key(s) = 2 * (Base + s) + 1
          BY <3>2, <3>5, <3>6, <3>9, <5>2, <5>3, <5>4
        <5>6. Key(s)' = IF s = b THEN 2 * (Base + b) ELSE 2 * (Base + s) + 1
          BY <1>1, <3>5, <3>7, <3>8, <3>9
        <5>7. Key(p) < Key(s)
          BY <1>1, <3>7, <3>11, <5>4, <5>5, <5>6
        <5> QED BY <3>2, <5>1, <5>7
      <4> QED BY <4>1, <4>2
    <3>12. walk' = walk
      BY DEF SyncEnd
    <3> QED BY <3>1, <3>8, <3>10, <3>11, <3>12 DEF Seeking
  <2> QED BY <2>1, <2>2
<1> QED BY <1>3, <1>6, <1>7, <1>16, <1>17, <1>18

\* The types after the step.
LEMMA EndTypes ==
  ASSUME IInv, SyncEnd, sync' = Idle, mem' \in [Addr -> Cells], bottom' \in Addr, write_ptr' \in 0 .. Heap, heap_end' \in 0 .. Heap,
         unread' \in Addr \cup {None}, read' \in BOOLEAN, drive' \in [on : BOOLEAN, buffer : 0 .. Heap],
         \A p \in Addr : mem'[p].tag = "wrap" => mem'[p].cell = None
  PROVE  TypeOK' /\ Typed'
<1>1. /\ sync' = Idle /\ UNCHANGED <<sector, stop, end, task_state, walk, held, stream, starts>>
      /\ top' = sync.ptr /\ sync.ptr \in Addr
  BY DEF SyncEnd, IInv, Typed
<1>2. Idle \in [pc : {"idle", "walk", "end"}, ptr : Addr, lim : Addr, read : BOOLEAN]
  <2>1. 0 \in Addr
    BY HeapFacts, StreamFacts DEF IInv, Addr
  <2> QED BY <2>1 DEF Idle
<1>3. TypeOK'
  <2>1. drive'.on \in BOOLEAN
    OBVIOUS
  <2> QED BY <1>1, <2>1 DEF IInv, TypeOK, Cells
<1>4. Typed'
  BY <1>1, <1>2 DEF IInv, Typed
<1> QED BY <1>3, <1>4

\* FS_StreamSync, after its walk: it frees what it passed, and reads on.
LEMMA SyncEndStep ==
  ASSUME IInv, Filling, SyncEnd, sync' = Idle
  PROVE  IInv' /\ Filling' /\ \E m, n : Order(m) /\ Order(n)' /\ Keeps(m, n)
<1>1. PICK m \in Addr : Parts(m)
  BY DEF IInv
<1>2. \E t, b, w, size : t = sync.ptr /\ b = bottom /\ w = write_ptr /\ size = Size(mem, bottom)
  OBVIOUS
<1>3. PICK t, b, w, size : t = sync.ptr /\ b = bottom /\ w = write_ptr /\ size = Size(mem, bottom)
  BY <1>2
<1>4. /\ Order(m) /\ Played /\ t \in Places(m) /\ t \in Addr /\ t \in Nat /\ t < Heap /\ ~stop /\ Fed
      /\ Heap \in Nat /\ Sector \in Nat /\ Sector >= 2 /\ m \in Nat
      /\ top \in Nat /\ b \in Nat /\ w \in Nat /\ heap_end \in Nat /\ Count \in Nat /\ Base \in Int
      /\ b < w /\ w <= Heap /\ b < Heap
      /\ Heap - Sector < heap_end /\ heap_end <= Heap
      /\ ~sync.read => ~drive.on /\ ~end /\ ~read
  BY <1>1, <1>3, EndNumbers
<1>5. t <= b \/ (w <= t /\ (t = w => top = w))
  BY <1>3, <1>4, AfterTop
<1>6. ~(t <= b) => ~(top <= b) /\ top <= t
  <2>1. ~(t <= b) => ~Straight
    BY <1>3, <1>4, AfterTop
  <2>2. \A p : ~Straight => (p \in Places(m) <=> \/ p = m
                                                 \/ p \in top .. m - 1 /\ Base - m + p \in DOMAIN stream
                                                 \/ p \in 0 .. bottom /\ Base + p \in DOMAIN stream)
    BY <1>4, PlacesAre
  <2>3. ~Straight => top <= m
    BY <1>4, RingNumbers
  <2> QED BY <1>3, <1>4, <2>1, <2>2, <2>3 DEF Straight
<1>7. /\ drive.on => /\ drive.buffer = w /\ read /\ unread = None
                     /\ stop \/ ~end
                     /\ w + Sector <= IF top <= b THEN heap_end ELSE top
      /\ ~end => Type(mem, bottom) # "end"
      /\ ~end /\ unread = None => w + Sector <= heap_end
      /\ unread # None =>
           /\ unread = b /\ Type(mem, bottom) # "end"
           /\ w <= b + size
           /\ heap_end < b + size \/ heap_end < w + Sector
  BY <1>3, <1>4 DEF IInv, Reading
<1>8. /\ mem \in [Addr -> Cells] /\ \A p \in Addr : mem[p].tag = "wrap" => mem[p].cell = None
      /\ bottom \in Addr /\ write_ptr \in 0 .. Heap /\ heap_end \in 0 .. Heap /\ unread \in Addr \cup {None}
      /\ read \in BOOLEAN /\ drive \in [on : BOOLEAN, buffer : 0 .. Heap] /\ Typed
  BY DEF IInv, TypeOK, Typed, Cells
<1>9. sync' = Idle /\ UNCHANGED <<sector, stop, end, task_state, walk, held, stream, starts>> /\ top' = t
  BY <1>3 DEF SyncEnd
<1>10. Fed'
  BY <1>4, <1>9 DEF Fed
<1>11. CASE UNCHANGED <<mem, bottom, write_ptr, heap_end, unread, read, drive>>
  <2>1. TypeOK' /\ Typed'
    BY <1>8, <1>11, EndTypes
  <2>2. Ring(m)' /\ Seeking(m)' /\ Holding(m)' /\ Order(m)' /\ Keeps(m, m)
    BY <1>1, <1>3, <1>8, <1>9, <1>11, <2>1, TopMoves
  <2>3. drive'.on => w + Sector <= IF t <= b THEN heap_end ELSE t
    BY <1>4, <1>6, <1>7, <1>11
  <2>4. Type(mem, bottom)' = Type(mem, bottom) /\ Size(mem, bottom)' = size
    BY <1>3, <1>9, <1>11 DEF Type, Size
  <2>5. Reading'
    BY <1>3, <1>4, <1>7, <1>9, <1>10, <1>11, <2>3, <2>4 DEF Reading
  <2>6. Filling'
    <3>1. (\E k \in Int : heap_end = write_ptr + k * Sector)'
      BY <1>11 DEF Filling
    <3>2. drive'.on /\ b < t => w + Sector < t
      <4>1. b < t => b < top /\ top <= t
        BY <1>4, <1>6
      <4>2. drive'.on /\ b < top => w + Sector < top
        BY <1>3, <1>11 DEF Filling
      <4> QED BY <1>4, <4>1, <4>2
    <3>3. ASSUME w = t PROVE JustFits'
      <4>1. top = w
        BY <1>4, <1>5, <3>3
      <4>2. JustFits
        BY <1>3, <1>4, <4>1 DEF Filling
      <4>3. Size(mem, 0)' = Size(mem, 0)
        BY <1>9, <1>11 DEF Size
      <4> QED BY <1>11, <4>2, <4>3 DEF JustFits
    <3> QED BY <1>3, <1>9, <1>11, <3>1, <3>2, <3>3 DEF Filling
  <2> QED BY <1>1, <1>4, <1>8, <1>11, <2>1, <2>2, <2>5, <2>6, EndRest
<1>12. CASE ~sync.read /\ Ahead(t, w) < (Heap * 2) \div 3 /\ unread = None /\ Request(w)
            /\ UNCHANGED <<mem, bottom, write_ptr, heap_end, unread>>
  <2>1. read' = TRUE /\ drive' = [on |-> TRUE, buffer |-> w] /\ drive' \in [on : BOOLEAN, buffer : 0 .. Heap]
    BY <1>3, <1>8, <1>12 DEF Request
  <2>2. TypeOK' /\ Typed'
    BY <1>8, <1>12, <2>1, EndTypes
  <2>3. Ring(m)' /\ Seeking(m)' /\ Holding(m)' /\ Order(m)' /\ Keeps(m, m)
    BY <1>1, <1>3, <1>9, <1>12, <2>1, <2>2, TopMoves
  <2>4. (w + Sector <= IF t <= b THEN heap_end ELSE t) /\ t # w /\ (b < t => w + Sector < t)
    <3>1. ~end /\ w + Sector <= heap_end
      BY <1>4, <1>7, <1>12
    <3>2. ASSUME ~(t <= b) PROVE w < t /\ w + Sector < t
      <4>1. w < t
        <5>1. ~(ReadsOver)
          BY DEF SyncEnd, Idle, Lost
        <5>2. t # w
          <6>1. t = w => top = w
            BY <1>5, <3>2
          <6>2. write_ptr = top => JustFits
            BY <1>4 DEF Filling
          <6> QED BY <1>3, <1>12, <5>1, <6>1, <6>2 DEF ReadsOver
        <5> QED BY <1>4, <1>5, <3>2, <5>2
      <4>2. Ahead(t, w) = w - t + Heap
        BY <1>4, <4>1 DEF Ahead
      <4>3. TwoThirds \in Nat /\ 3 * TwoThirds <= 2 * Heap /\ 9 * Sector <= Heap + 8
        BY <1>4, HeapFacts
      <4>4. w - t + Heap < TwoThirds
        BY <1>12, <4>2 DEF TwoThirds
      <4> QED BY <1>4, <4>1, <4>3, <4>4
    <3> QED BY <1>4, <3>1, <3>2
  <2>5. Type(mem, bottom)' = Type(mem, bottom)
    BY <1>9, <1>12 DEF Type
  <2>6. Reading'
    BY <1>3, <1>4, <1>7, <1>9, <1>12, <2>1, <2>4, <2>5 DEF Reading
  <2>7. Filling'
    <3>1. (\E k \in Int : heap_end = write_ptr + k * Sector)'
      BY <1>12 DEF Filling
    <3> QED BY <1>3, <1>9, <1>12, <2>4, <3>1 DEF Filling
  <2> QED BY <1>1, <1>4, <1>8, <1>12, <2>1, <2>2, <2>3, <2>6, <2>7, EndRest
<1>13. CASE ~sync.read /\ Ahead(t, w) < (Heap * 2) \div 3 /\ unread # None /\ Ahead(unread, t) >= Ahead(unread, Size(mem, unread))
            /\ mem' = Moved(mem, unread, w) /\ write_ptr' = w - unread /\ unread' = None
            /\ heap_end' = EndAfter(w - unread) /\ bottom' = 0 /\ Request(w - unread)
  <2>1. /\ unread = b /\ Type(mem, bottom) # "end" /\ w <= b + size /\ (heap_end < b + size \/ heap_end < w + Sector)
        /\ Ahead(b, t) >= Ahead(b, size)
    BY <1>3, <1>7, <1>13
  <2>2. /\ size \in Nat /\ size >= 1 /\ 3 * size + 9 * Sector <= Heap + 11 /\ size + 3 * (Sector - 1) <= Heap - TwoThirds
    <3>1. mem[bottom].cell \in DOMAIN stream
      <4>1. bottom \in Places(m)
        BY DEF Places
      <4>2. ~Wrapped(m, bottom)
        BY <1>4, <4>1, PlaceFacts
      <4> QED BY <1>4, <4>1, <4>2, PlaceFacts
    <3>2. size = stream[mem[bottom].cell].size
      BY <1>3, <3>1 DEF Size
    <3> QED BY <1>4, <3>1, <3>2, BlockFacts
  <2>3. t <= b /\ w - b <= t /\ w - b + Sector < t
    <3>1. TwoThirds \in Nat /\ Ahead(t, w) < TwoThirds
      BY <1>4, <1>13, HeapFacts DEF TwoThirds
    <3>2. heap_end < w + Sector => heap_end <= w
      <4>1. \E k \in Int : heap_end = w + k * Sector
        BY <1>3 DEF Filling
      <4> QED BY <1>4, <4>1, AlignedNear
    <3> QED BY <1>4, <1>5, <2>1, <2>2, <3>1, <3>2, UnreadNumbers
  <2>4. w - b \in 0 .. Heap /\ w - b \in Nat /\ w - b >= 1 /\ w - b <= b /\ w - b <= size /\ t > 0
    BY <1>4, <2>1, <2>2, <2>3
  <2>5. read' = TRUE /\ drive' = [on |-> TRUE, buffer |-> w - b] /\ drive' \in [on : BOOLEAN, buffer : 0 .. Heap]
    BY <1>13, <2>1, <2>4 DEF Request
  <2>6. EndAfter(w - b) \in Nat /\ Heap - Sector < EndAfter(w - b) /\ EndAfter(w - b) <= Heap
    BY <2>4, EndAfterFacts
  <2>7. mem' = Moved(mem, b, w) /\ write_ptr' = w - b /\ unread' = None /\ heap_end' = EndAfter(w - b) /\ bottom' = 0
    BY <1>13, <2>1
  <2>8. mem' \in [Addr -> Cells] /\ \A p \in Addr : mem'[p].tag = "wrap" => mem'[p].cell = None
    BY <1>4, <1>8, <2>4, <2>7, MovedCells
  <2>9. bottom' \in Addr /\ heap_end' \in 0 .. Heap /\ unread' \in Addr \cup {None}
    BY <1>4, <2>6, <2>7 DEF Addr
  <2>10. TypeOK' /\ Typed'
    BY <2>4, <2>5, <2>7, <2>8, <2>9, EndTypes
  <2>11. b \in Addr /\ Ring(b)' /\ Seeking(b)' /\ Holding(b)' /\ Order(b)' /\ Keeps(m, b)
    BY <1>1, <1>3, <1>4, <1>9, <1>13, <2>3, <2>7, <2>10, EndMoved
  <2>12. Type(mem, bottom)' # "end"
    <3>1. 0 \in 0 .. w - b - 1 /\ b + 0 = b
      BY <1>4, <2>4
    <3>2. Moved(mem, b, w)[0] = mem[b]
      BY <1>4, <1>8, <2>4, <3>1, MovedCells
    <3>3. Type(mem, bottom)' = Type(mem, bottom)
      BY <1>3, <1>9, <2>7, <3>2 DEF Type
    <3> QED BY <2>1, <3>3
  <2>13. w - b + Sector <= EndAfter(w - b)
    BY <1>4, <2>2, <2>4, <2>6, RoomNumbers
  <2>14. Reading'
    BY <1>4, <1>9, <1>13, <2>3, <2>4, <2>5, <2>6, <2>7, <2>12, <2>13 DEF Reading
  <2>15. Filling'
    <3>1. (\E k \in Int : heap_end = write_ptr + k * Sector)'
      <4>1. PICK d : d = w - b
        OBVIOUS
      <4>2. d \in Nat /\ d <= Heap /\ Heap \in Nat /\ Sector \in Nat /\ Sector >= 1
        BY <1>4, <2>4, <4>1
      <4>3. \E k \in Int : EndAfter(d) = d + k * Sector
        BY <4>2, AlignedAfter
      <4> QED BY <2>7, <4>1, <4>3
    <3>2. w - b # t
      BY <1>4, <2>3, <2>4
    <3> QED BY <1>9, <2>3, <2>7, <3>1, <3>2 DEF Filling
  <2> QED BY <1>1, <1>4, <2>5, <2>8, <2>10, <2>11, <2>14, <2>15, EndRest
<1>14. \/ UNCHANGED <<mem, bottom, write_ptr, heap_end, unread, read, drive>>
       \/ /\ ~sync.read /\ Ahead(t, w) < (Heap * 2) \div 3 /\ unread = None /\ Request(w)
          /\ UNCHANGED <<mem, bottom, write_ptr, heap_end, unread>>
       \/ /\ ~sync.read /\ Ahead(t, w) < (Heap * 2) \div 3 /\ unread # None /\ Ahead(unread, t) >= Ahead(unread, Size(mem, unread))
          /\ mem' = Moved(mem, unread, w) /\ write_ptr' = w - unread /\ unread' = None
          /\ heap_end' = EndAfter(w - unread) /\ bottom' = 0 /\ Request(w - unread)
  BY <1>3 DEF SyncEnd, StartRead
<1> QED BY <1>11, <1>12, <1>13, <1>14

\* And where it undoes the ring, its variables still have their types.
LEMMA SyncEndTypes ==
  ASSUME IInv, SyncEnd
  PROVE  TypeOK'
<1>1. PICK m \in Addr : Parts(m)
  BY DEF IInv
<1>2. /\ Played /\ ~stop /\ Fed /\ Order(m)
      /\ Heap \in Nat /\ Sector \in Nat /\ Sector >= 2
      /\ bottom \in Nat /\ write_ptr \in Nat /\ heap_end \in Nat
      /\ bottom < write_ptr /\ write_ptr <= Heap /\ bottom < Heap
      /\ Heap - Sector < heap_end /\ heap_end <= Heap
  BY <1>1, EndNumbers
<1>3. /\ mem \in [Addr -> Cells] /\ \A p \in Addr : mem[p].tag = "wrap" => mem[p].cell = None
      /\ bottom \in Addr /\ write_ptr \in 0 .. Heap /\ heap_end \in 0 .. Heap /\ unread \in Addr \cup {None}
      /\ read \in BOOLEAN /\ drive \in [on : BOOLEAN, buffer : 0 .. Heap] /\ Typed /\ sync.ptr \in Addr
  BY DEF IInv, TypeOK, Typed, Cells
<1>4. UNCHANGED <<sector, stop, end, task_state, walk, held, stream, starts>> /\ top' = sync.ptr
  BY DEF SyncEnd
<1>5. ASSUME mem' \in [Addr -> Cells], bottom' \in Addr, write_ptr' \in 0 .. Heap, heap_end' \in 0 .. Heap,
             unread' \in Addr \cup {None}, read' \in BOOLEAN, drive'.on \in BOOLEAN
      PROVE  TypeOK'
  BY <1>3, <1>4, <1>5 DEF IInv, TypeOK, Cells
<1>6. CASE UNCHANGED <<mem, bottom, write_ptr, heap_end, unread, read, drive>>
  BY <1>3, <1>5, <1>6
<1>7. CASE Request(write_ptr) /\ UNCHANGED <<mem, bottom, write_ptr, heap_end, unread>>
  BY <1>3, <1>5, <1>7 DEF Request
<1>8. CASE /\ unread # None
           /\ mem' = Moved(mem, unread, write_ptr)
           /\ write_ptr' = write_ptr - unread /\ unread' = None
           /\ heap_end' = EndAfter(write_ptr - unread) /\ bottom' = 0 /\ Request(write_ptr - unread)
  <2>1. PICK b, w : b = bottom /\ w = write_ptr
    OBVIOUS
  <2>2. unread = b /\ w <= b + Size(mem, bottom)
    BY <1>2, <1>8, <2>1 DEF IInv, Reading
  <2>3. w - b <= b
    <3>1. mem[bottom].cell \in DOMAIN stream
      <4>1. bottom \in Places(m)
        BY DEF Places
      <4>2. ~Wrapped(m, bottom)
        BY <1>2, <4>1, PlaceFacts
      <4> QED BY <1>2, <4>1, <4>2, PlaceFacts
    <3>2. Size(mem, bottom) = stream[mem[bottom].cell].size
      BY <3>1 DEF Size
    <3>3. PICK size : size = Size(mem, bottom)
      OBVIOUS
    <3>4. size \in Nat /\ size >= 1 /\ 3 * size + 9 * Sector <= Heap + 11
      BY <1>2, <3>1, <3>2, <3>3, BlockFacts
    <3>5. heap_end < b + size \/ heap_end < w + Sector
      BY <1>2, <1>8, <2>1, <2>2, <3>3 DEF IInv, Reading
    <3> QED BY <1>2, <2>1, <2>2, <3>3, <3>4, <3>5
  <2>4. w - b \in 0 .. Heap /\ w - b \in Nat /\ w - b <= Heap
    BY <1>2, <2>1
  <2>5. Moved(mem, b, w) \in [Addr -> Cells]
    BY <1>2, <1>3, <2>1, <2>3, MovedCells
  <2>6. EndAfter(w - b) \in 0 .. Heap
    <3>1. EndAfter(w - b) \in Nat /\ EndAfter(w - b) <= Heap
      BY <2>4, EndAfterFacts
    <3> QED BY <1>2, <3>1
  <2>7. mem' = Moved(mem, b, w) /\ write_ptr' = w - b /\ unread' = None /\ heap_end' = EndAfter(w - b) /\ bottom' = 0
        /\ read' = TRUE /\ drive'.on = TRUE
    BY <1>8, <2>1, <2>2 DEF Request
  <2>8. 0 \in Addr
    BY <1>2 DEF Addr
  <2> QED BY <1>5, <2>4, <2>5, <2>6, <2>7, <2>8
<1>9. \/ UNCHANGED <<mem, bottom, write_ptr, heap_end, unread, read, drive>>
      \/ Request(write_ptr) /\ UNCHANGED <<mem, bottom, write_ptr, heap_end, unread>>
      \/ /\ unread # None
         /\ mem' = Moved(mem, unread, write_ptr)
         /\ write_ptr' = write_ptr - unread /\ unread' = None
         /\ heap_end' = EndAfter(write_ptr - unread) /\ bottom' = 0 /\ Request(write_ptr - unread)
  BY DEF SyncEnd, StartRead
<1> QED BY <1>6, <1>7, <1>8, <1>9

-----------------------------------------------------------------------------
(* The ring as a queue of blocks. *)

Fresh == IF Fed THEN Tagged("fresh") ELSE {}
Marked(H, M, t) == {M[p].cell : p \in {q \in H : M[q].tag = t}}

\* The blocks of a mark, of the headers in use.
LEMMA TaggedAll == \A m, t : Order(m) => Tagged(t) = Marked(Heads(m), mem, t)
<1> SUFFICES ASSUME NEW m, NEW t, Order(m) PROVE Tagged(t) = Marked(Heads(m), mem, t)
  OBVIOUS
<1>1. Live = Heads(m)
  BY TrailFacts
<1> QED BY <1>1 DEF Tagged, Marked

\* The same of the next state.
LEMMA TaggedPrimed == (\A m, t : Order(m) => Tagged(t) = Marked(Heads(m), mem, t))'
BY TaggedAll, PTL

\* The blocks of a mark after a step.
LEMMA TaggedNext ==
  ASSUME NEW n, Order(n)', NEW t
  PROVE  Tagged(t)' = Marked(Heads(n)', mem', t)
<1>1. Marked(Heads(n), mem, t)' = Marked(Heads(n)', mem', t)
  BY DEF Marked
<1> QED BY <1>1, TaggedPrimed

\* Each header in use is that of another block.
LEMMA HeadCells ==
  ASSUME NEW m, Order(m), NEW p \in Heads(m), mem[p].tag # "wrap"
  PROVE  /\ mem[p].cell \in DOMAIN stream /\ mem[p].cell \in Nat /\ Type(mem, p) = stream[mem[p].cell].type
         /\ \A q \in Heads(m) : mem[q].tag # "wrap" /\ mem[q].cell = mem[p].cell => q = p
<1>1. \A q \in Heads(m) : mem[q].tag # "wrap" => /\ mem[q].cell \in DOMAIN stream /\ mem[q].cell \in Nat
                                                /\ Key(q) = 2 * mem[q].cell + 1 /\ q \in Places(m)
  <2>1. ASSUME NEW q \in Heads(m), mem[q].tag # "wrap"
        PROVE  /\ mem[q].cell \in DOMAIN stream /\ mem[q].cell \in Nat
               /\ Key(q) = 2 * mem[q].cell + 1 /\ q \in Places(m)
    <3>1. q \in Places(m)
      BY DEF Places
    <3> QED BY <2>1, <3>1, PlaceFacts
  <2> QED BY <2>1
<1>2. \A q \in Heads(m) : mem[q].tag # "wrap" /\ mem[q].cell = mem[p].cell => q = p
  BY <1>1, KeyOrder
<1> QED BY <1>1, <1>2 DEF Type

\* The queue of a ring before the first sector.
LEMMA NotFed ==
  ASSUME IInv, ~Fed
  PROVE  Fresh = {} /\ \A t : Tagged(t) = {}
<1>1. Live = {}
  BY NoRing DEF IInv
<1> QED BY <1>1 DEF Fresh, Tagged

\* To be said of the next state:
LEMMA NotFedAll == IInv /\ ~Fed => Fresh = {} /\ \A t : Tagged(t) = {}
BY NotFed

\* said of it.
LEMMA NotFedPrimed == (IInv /\ ~Fed => Fresh = {} /\ \A t : Tagged(t) = {})'
BY NotFedAll, PTL

\* A step that keeps what is in use changes nothing of the queue.
LEMMA KeepsSame ==
  ASSUME NEW m, NEW n, Order(m), Order(n)', Keeps(m, n), stream' = stream
  PROVE  Coming' = Coming /\ Fresh' = Fresh /\ Tagged("busy")' = Tagged("busy")
<1>1. Fed /\ Fed'
  BY DEF Order
<1>2. Coming' = Coming
  BY <1>1 DEF Coming, Keeps
<1>3. ASSUME NEW t \in {"fresh", "busy"} PROVE Tagged(t)' = Tagged(t)
  <2>1. Marked(Heads(n)', mem', t) = Marked(Heads(m), mem, t)
    BY DEF Marked, Keeps
  <2> QED BY <2>1, TaggedAll, TaggedNext
<1> QED BY <1>1, <1>2, <1>3 DEF Fresh

\* The interrupt's: blocks arrive, or none is there to its end yet.
LEMMA ArrivesNext ==
  ASSUME IInv, NEW m, (Fed => Order(m)), (~Fed => Heads(m) = {} /\ Base + bottom = 0), NEW n, Order(n)', stream' = stream, NEW R \in DOMAIN stream,
         Base + bottom \in DOMAIN stream, Base + bottom <= R, mem'[bottom'].cell = R, Arrives(m, n, R)
  PROVE  Fifo!Arrive \/ (Coming' = Coming /\ Fresh' = Fresh /\ Tagged("busy")' = Tagged("busy"))
<1>1. Played /\ Fed' /\ R \in Nat /\ Base + bottom \in Nat /\ DOMAIN stream \subseteq Nat
  BY StreamFacts, BlockFacts DEF Order, IInv
<1>2. \E B : B = Base + bottom
  OBVIOUS
<1>3. PICK B : B = Base + bottom
  BY <1>2
<1>4. Coming = {i \in DOMAIN stream : stream[i].type # "end" /\ i >= B}
  <2>1. CASE Fed
    <3>1. mem[bottom].cell = B
      <4>1. bottom \in Places(m)
        BY DEF Places
      <4>2. ~Wrapped(m, bottom)
        BY <2>1, <4>1, PlaceFacts
      <4>3. mem[bottom].cell = Spot(m, bottom)
        BY <2>1, <4>1, <4>2, PlaceFacts
      <4>4. Straight \/ bottom < top
        BY <2>1, RingNumbers
      <4> QED BY <1>3, <4>3, <4>4 DEF Spot
    <3> QED BY <2>1, <3>1 DEF Coming
  <2>2. CASE ~Fed
    <3>1. \A i \in DOMAIN stream : i >= B
      BY <1>1, <1>3, <2>2
    <3> QED BY <2>2, <3>1 DEF Coming
  <2> QED BY <2>1, <2>2
<1>5. Coming' = {i \in DOMAIN stream : stream[i].type # "end" /\ i >= R}
  BY <1>1 DEF Coming
<1> DEFINE new == {i \in DOMAIN stream : B <= i /\ i < R}
<1>6. \A i \in new : stream[i].type # "end"
  BY <1>1, BlockBefore
<1>7. Tagged("busy")' = Tagged("busy")
  <2>1. Tagged("busy")' = Marked(Heads(n)', mem', "busy")
    BY TaggedNext
  <2>2. Marked(Heads(n)', mem', "busy") = Marked(Heads(m), mem, "busy")
    BY DEF Marked, Arrives
  <2>3. Tagged("busy") = Marked(Heads(m), mem, "busy")
    <3>1. CASE Fed
      BY <3>1, TaggedAll
    <3>2. CASE ~Fed
      BY <3>2, NotFed DEF Marked
    <3> QED BY <3>1, <3>2
  <2> QED BY <2>1, <2>2, <2>3
<1>8. Fresh' = Fresh \cup new
  <2>1. Fresh' = Marked(Heads(n)', mem', "fresh")
    BY <1>1, TaggedNext DEF Fresh
  <2>2. Fresh = Marked(Heads(m), mem, "fresh")
    <3>1. CASE Fed
      BY <3>1, TaggedAll DEF Fresh
    <3>2. CASE ~Fed
      BY <3>2, NotFed DEF Marked
    <3> QED BY <3>1, <3>2
  <2>3. ASSUME NEW i \in Marked(Heads(n)', mem', "fresh") PROVE i \in Marked(Heads(m), mem, "fresh") \cup new
    <3>1. PICK p \in Heads(n)' : mem'[p].tag = "fresh" /\ i = mem'[p].cell
      BY DEF Marked
    <3>2. CASE p \in Heads(m)
      BY <3>1, <3>2 DEF Marked, Arrives
    <3>3. CASE p \notin Heads(m)
      BY <1>3, <3>1, <3>3 DEF Arrives
    <3> QED BY <3>2, <3>3
  <2>4. ASSUME NEW i \in new PROVE i \in Marked(Heads(n)', mem', "fresh")
    <3>1. i \in DOMAIN stream /\ Base + bottom <= i /\ i < R
      BY <1>3
    <3>2. PICK p \in Heads(n)' : mem'[p].tag = "fresh" /\ mem'[p].cell = i
      BY <3>1 DEF Arrives
    <3> QED BY <3>2 DEF Marked
  <2>5. ASSUME NEW i \in Marked(Heads(m), mem, "fresh") PROVE i \in Marked(Heads(n)', mem', "fresh")
    BY DEF Marked, Arrives
  <2> HIDE DEF new
  <2>6. Marked(Heads(n)', mem', "fresh") = Marked(Heads(m), mem, "fresh") \cup new
    BY <2>3, <2>4, <2>5
  <2> QED BY <2>1, <2>2, <2>6
<1>9. CASE new = {}
  <2>1. Coming' = Coming
    BY <1>1, <1>3, <1>4, <1>5, <1>9
  <2> HIDE DEF new
  <2>2. Fresh' = Fresh
    BY <1>8, <1>9
  <2> QED BY <1>7, <2>1, <2>2
<1>10. CASE new # {}
  <2>1. new \subseteq 0 .. R
    BY <1>1
  <2>2. \E i \in new : \A j \in new : j <= i
    <3> HIDE DEF new
    <3> QED BY <1>1, <1>10, <2>1, Greatest
  <2>3. PICK i \in new : \A j \in new : j <= i
    BY <2>2
  <2>4. i \in Coming
    BY <1>1, <1>3, <1>4, <1>6
  <2>5. {j \in Coming : j <= i} = new
    BY <1>1, <1>3, <1>4, <1>6, <2>3
  <2>6. Coming' = Coming \ new
    BY <1>1, <1>3, <1>4, <1>5
  <2> HIDE DEF new
  <2>7. Fifo!Arrive
    BY <1>7, <1>8, <2>4, <2>5, <2>6 DEF Fifo!Arrive, Fresh
  <2> QED BY <2>7
<1> QED BY <1>9, <1>10

-----------------------------------------------------------------------------
(* What a user does to the queue. *)

\* Where the cells stay, what has not come is the same.
LEMMA ComingSame ==
  ASSUME IInv, IInv', SameCells, Fed, NEW m \in Addr, Order(m), Parts(m)
  PROVE  Coming' = Coming /\ Order(m)' /\ Fed' /\ Heads(m)' = Heads(m) /\ Heads(m) \subseteq Addr
<1>1. Ring(m)' /\ Fed' /\ Heads(m)' = Heads(m) /\ Heads(m) \subseteq Addr
  BY SamePlaces
<1>2. mem'[bottom].cell = mem[bottom].cell /\ bottom' = bottom /\ stream' = stream
  BY DEF SameCells, IInv, TypeOK
<1>3. Order(m)'
  BY <1>1, <1>2, OrderNext DEF IInv, Order
<1>4. Coming' = Coming
  BY <1>1, <1>2 DEF Coming
<1> QED BY <1>1, <1>3, <1>4

\* A user takes the oldest block of its type.
LEMMA TakeFacts ==
  ASSUME IInv, IInv', NEW c \in Consumer, NEW m, NEW p, Marks(m, c, p, "fresh", "busy")
  PROVE  Fifo!Take(c)
<1>0. /\ SameCells /\ m \in Addr /\ Order(m) /\ Parts(m)
      /\ p \in Heads(m) /\ Type(mem, p) = c /\ mem[p].tag = "fresh"
      /\ \A q \in Addr : mem'[q].cell = mem[q].cell /\ mem'[q].tag = IF q = p THEN "busy" ELSE mem[q].tag
      /\ \A q \in Heads(m) : Type(mem, q) = c /\ mem[q].tag = "fresh" /\ q # p => mem[p].cell < mem[q].cell
  BY DEF Marks
<1>1. Fed /\ stream' = stream
  BY <1>0 DEF Order, SameCells
<1>2. Coming' = Coming /\ Order(m)' /\ Fed' /\ Heads(m)' = Heads(m) /\ Heads(m) \subseteq Addr
  BY <1>0, <1>1, ComingSame
<1>3. /\ Tagged("fresh") = Marked(Heads(m), mem, "fresh") /\ Tagged("busy") = Marked(Heads(m), mem, "busy")
      /\ Tagged("fresh")' = Marked(Heads(m), mem', "fresh") /\ Tagged("busy")' = Marked(Heads(m), mem', "busy")
  BY <1>0, <1>2, TaggedAll, TaggedNext
<1> DEFINE F == Marked(Heads(m), mem, "fresh")
           B == Marked(Heads(m), mem, "busy")
<1>4. \A q \in Heads(m) : mem[q].tag # "wrap" =>
        /\ mem[q].cell \in DOMAIN stream /\ mem[q].cell \in Nat /\ Type(mem, q) = stream[mem[q].cell].type
        /\ mem[q].cell = mem[p].cell => q = p
  BY <1>0, HeadCells
<1>5. Marked(Heads(m), mem', "fresh") = F \ {mem[p].cell}
  <2>1. ASSUME NEW i \in Marked(Heads(m), mem', "fresh") PROVE i \in F \ {mem[p].cell}
    <3>1. PICK q \in Heads(m) : mem'[q].tag = "fresh" /\ i = mem'[q].cell
      BY <1>0 DEF Marked
    <3>2. q # p /\ mem[q].tag = "fresh" /\ i = mem[q].cell
      BY <1>0, <1>2, <3>1
    <3> QED BY <1>0, <1>4, <3>2 DEF Marked
  <2>2. ASSUME NEW i \in F \ {mem[p].cell} PROVE i \in Marked(Heads(m), mem', "fresh")
    <3>1. PICK q \in Heads(m) : mem[q].tag = "fresh" /\ i = mem[q].cell
      BY <1>0 DEF Marked
    <3>2. q # p /\ mem'[q].tag = "fresh" /\ i = mem'[q].cell
      BY <1>0, <1>2, <2>2, <3>1
    <3> QED BY <1>0, <3>2 DEF Marked
  <2> HIDE DEF F
  <2> QED BY <1>0, <2>1, <2>2
<1>6. Marked(Heads(m), mem', "busy") = B \cup {mem[p].cell}
  <2>1. ASSUME NEW i \in Marked(Heads(m), mem', "busy") PROVE i \in B \cup {mem[p].cell}
    <3>1. PICK q \in Heads(m) : mem'[q].tag = "busy" /\ i = mem'[q].cell
      BY <1>0 DEF Marked
    <3>2. i = mem[q].cell /\ (q # p => mem[q].tag = "busy")
      BY <1>0, <1>2, <3>1
    <3> QED BY <1>0, <3>2 DEF Marked
  <2>2. ASSUME NEW i \in B \cup {mem[p].cell} PROVE i \in Marked(Heads(m), mem', "busy")
    <3>1. CASE i = mem[p].cell
      BY <1>0, <1>2, <3>1 DEF Marked
    <3>2. CASE i \in B
      <4>1. PICK q \in Heads(m) : mem[q].tag = "busy" /\ i = mem[q].cell
        BY <1>0, <3>2 DEF Marked
      <4>2. mem'[q].tag = "busy" /\ i = mem'[q].cell
        BY <1>0, <1>2, <4>1
      <4> QED BY <1>0, <4>2 DEF Marked
    <3> QED BY <1>0, <2>2, <3>1, <3>2
  <2> HIDE DEF B
  <2> QED BY <1>0, <2>1, <2>2
<1>7. mem[p].cell \in {i \in F : stream[i].type = c} /\ \A j \in {i \in F : stream[i].type = c} : mem[p].cell <= j
  <2>1. mem[p].cell \in F /\ stream[mem[p].cell].type = c /\ mem[p].cell \in Nat
    BY <1>0, <1>4 DEF Marked
  <2>2. ASSUME NEW j \in F, stream[j].type = c PROVE mem[p].cell <= j
    <3>1. PICK q \in Heads(m) : mem[q].tag = "fresh" /\ j = mem[q].cell
      BY <1>0 DEF Marked
    <3>2. Type(mem, q) = c /\ j \in Nat
      BY <1>0, <1>4, <2>2, <3>1
    <3> QED BY <1>0, <2>1, <3>1, <3>2
  <2> QED BY <1>0, <2>1, <2>2
<1> HIDE DEF F, B
<1>8. Fresh = F /\ Fresh' = F \ {mem[p].cell} /\ Tagged("busy") = B /\ Tagged("busy")' = B \cup {mem[p].cell}
  BY <1>0, <1>1, <1>2, <1>3, <1>5, <1>6 DEF Fresh, F, B
<1> QED BY <1>0, <1>1, <1>2, <1>7, <1>8 DEF Fifo!Take, Fifo!Oldest, Fifo!Of, Fresh

\* A user gives the oldest of its blocks back.
LEMMA ClearFacts ==
  ASSUME IInv, IInv', NEW c \in Consumer, NEW m, NEW p, Marks(m, c, p, "busy", "clear")
  PROVE  Fifo!Clear(c)
<1>0. /\ SameCells /\ m \in Addr /\ Order(m) /\ Parts(m)
      /\ p \in Heads(m) /\ Type(mem, p) = c /\ mem[p].tag = "busy"
      /\ \A q \in Addr : mem'[q].cell = mem[q].cell /\ mem'[q].tag = IF q = p THEN "clear" ELSE mem[q].tag
      /\ \A q \in Heads(m) : Type(mem, q) = c /\ mem[q].tag = "busy" /\ q # p => mem[p].cell < mem[q].cell
  BY DEF Marks
<1>1. Fed /\ stream' = stream
  BY <1>0 DEF Order, SameCells
<1>2. Coming' = Coming /\ Order(m)' /\ Fed' /\ Heads(m)' = Heads(m) /\ Heads(m) \subseteq Addr
  BY <1>0, <1>1, ComingSame
<1>3. /\ Tagged("fresh") = Marked(Heads(m), mem, "fresh") /\ Tagged("busy") = Marked(Heads(m), mem, "busy")
      /\ Tagged("fresh")' = Marked(Heads(m), mem', "fresh") /\ Tagged("busy")' = Marked(Heads(m), mem', "busy")
  BY <1>0, <1>2, TaggedAll, TaggedNext
<1> DEFINE F == Marked(Heads(m), mem, "fresh")
           B == Marked(Heads(m), mem, "busy")
<1>4. \A q \in Heads(m) : mem[q].tag # "wrap" =>
        /\ mem[q].cell \in DOMAIN stream /\ mem[q].cell \in Nat /\ Type(mem, q) = stream[mem[q].cell].type
        /\ mem[q].cell = mem[p].cell => q = p
  BY <1>0, HeadCells
<1>5. Marked(Heads(m), mem', "busy") = B \ {mem[p].cell}
  <2>1. ASSUME NEW i \in Marked(Heads(m), mem', "busy") PROVE i \in B \ {mem[p].cell}
    <3>1. PICK q \in Heads(m) : mem'[q].tag = "busy" /\ i = mem'[q].cell
      BY <1>0 DEF Marked
    <3>2. q # p /\ mem[q].tag = "busy" /\ i = mem[q].cell
      BY <1>0, <1>2, <3>1
    <3> QED BY <1>0, <1>4, <3>2 DEF Marked
  <2>2. ASSUME NEW i \in B \ {mem[p].cell} PROVE i \in Marked(Heads(m), mem', "busy")
    <3>1. PICK q \in Heads(m) : mem[q].tag = "busy" /\ i = mem[q].cell
      BY <1>0 DEF Marked
    <3>2. q # p /\ mem'[q].tag = "busy" /\ i = mem'[q].cell
      BY <1>0, <1>2, <2>2, <3>1
    <3> QED BY <1>0, <3>2 DEF Marked
  <2> HIDE DEF B
  <2> QED BY <1>0, <2>1, <2>2
<1>6. Marked(Heads(m), mem', "fresh") = F
  <2>1. \A q \in Heads(m) : (mem'[q].tag = "fresh" <=> mem[q].tag = "fresh") /\ mem'[q].cell = mem[q].cell
    BY <1>0, <1>2
  <2> QED BY <1>0, <2>1 DEF Marked
<1>7. mem[p].cell \in {i \in B : stream[i].type = c} /\ \A j \in {i \in B : stream[i].type = c} : mem[p].cell <= j
  <2>1. mem[p].cell \in B /\ stream[mem[p].cell].type = c /\ mem[p].cell \in Nat
    BY <1>0, <1>4 DEF Marked
  <2>2. ASSUME NEW j \in B, stream[j].type = c PROVE mem[p].cell <= j
    <3>1. PICK q \in Heads(m) : mem[q].tag = "busy" /\ j = mem[q].cell
      BY <1>0 DEF Marked
    <3>2. Type(mem, q) = c /\ j \in Nat
      BY <1>0, <1>4, <2>2, <3>1
    <3> QED BY <1>0, <2>1, <3>1, <3>2
  <2> QED BY <1>0, <2>1, <2>2
<1> HIDE DEF F, B
<1>8. Fresh = F /\ Fresh' = F /\ Tagged("busy") = B /\ Tagged("busy")' = B \ {mem[p].cell}
  BY <1>0, <1>1, <1>2, <1>3, <1>5, <1>6 DEF Fresh, F, B
<1> QED BY <1>0, <1>1, <1>2, <1>7, <1>8 DEF Fifo!Clear, Fifo!Oldest, Fifo!Of, Fresh

Same == stream' = stream /\ Coming' = Coming /\ Fresh' = Fresh /\ Tagged("busy")' = Tagged("busy")

\* A step that leaves the ring alone changes nothing of the queue.
LEMMA RingSame ==
  ASSUME IInv, IInv', UNCHANGED <<mem, top, bottom, write_ptr, sector, stream>>
  PROVE  Same
<1>1. PICK m \in Addr : Parts(m) /\ (Fed => Order(m))
  BY PartsFacts
<1>2. CASE Fed
  <2>1. SameCells
    BY DEF SameCells
  <2>2. Coming' = Coming /\ Order(m)' /\ Fed' /\ Heads(m)' = Heads(m)
    BY <1>1, <1>2, <2>1, ComingSame
  <2>3. ASSUME NEW t \in {"fresh", "busy"} PROVE Tagged(t)' = Tagged(t)
    BY <1>1, <1>2, <2>2, TaggedAll, TaggedNext
  <2> QED BY <1>2, <2>2, <2>3 DEF Same, Fresh
<1>3. CASE ~Fed
  <2>1. ~Fed'
    BY <1>3 DEF Fed
  <2>2. Fresh = {} /\ Tagged("busy") = {}
    BY <1>3, NotFed
  <2>3. Fresh' = {} /\ Tagged("busy")' = {}
    BY <2>1, NotFedPrimed
  <2>4. Coming' = Coming
    BY <1>3, <2>1 DEF Coming
  <2> QED BY <2>2, <2>3, <2>4 DEF Same
<1> QED BY <1>2, <1>3

\* FS_StreamClearType drops the fresh sound in front of a block of the game.
LEMMA SkipFacts ==
  ASSUME IInv, IInv', NEW m, NEW h, Drops(m, h)
  PROVE  Fifo!Skip("sound", "game")
<1>0. /\ SameCells /\ m \in Addr /\ Order(m) /\ Parts(m)
      /\ h \in Heads(m) /\ Type(mem, h) = "game" /\ mem[h].tag = "busy"
      /\ \A q \in Heads(m) : Type(mem, q) = "sound" => mem[q].tag # "busy"
      /\ \A q \in Addr : mem'[q].cell = mem[q].cell
      /\ \A q \in Heads(m) : mem'[q].tag = IF Type(mem, q) = "sound" /\ Key(q) < Key(h) THEN "clear" ELSE mem[q].tag
  BY DEF Drops
<1>1. Fed /\ stream' = stream
  BY <1>0 DEF Order, SameCells
<1>2. Coming' = Coming /\ Order(m)' /\ Fed' /\ Heads(m)' = Heads(m) /\ Heads(m) \subseteq Addr
  BY <1>0, <1>1, ComingSame
<1>3. /\ Tagged("fresh") = Marked(Heads(m), mem, "fresh") /\ Tagged("busy") = Marked(Heads(m), mem, "busy")
      /\ Tagged("fresh")' = Marked(Heads(m), mem', "fresh") /\ Tagged("busy")' = Marked(Heads(m), mem', "busy")
  BY <1>0, <1>2, TaggedAll, TaggedNext
<1> DEFINE F == Marked(Heads(m), mem, "fresh")
           B == Marked(Heads(m), mem, "busy")
<1>4. \A q \in Heads(m) : mem[q].tag # "wrap" =>
        /\ mem[q].cell \in DOMAIN stream /\ mem[q].cell \in Nat /\ Type(mem, q) = stream[mem[q].cell].type
        /\ q # h => (Key(q) < Key(h) <=> mem[q].cell < mem[h].cell)
  <2>1. \A q \in Heads(m) : mem[q].tag # "wrap" =>
        /\ mem[q].cell \in DOMAIN stream /\ mem[q].cell \in Nat /\ Type(mem, q) = stream[mem[q].cell].type
    BY <1>0, HeadCells
  <2>2. \A q \in Heads(m) : mem[q].tag # "wrap" => (Key(q) < Key(h) <=> mem[q].cell < mem[h].cell)
    BY <1>0, KeyCells
  <2> QED BY <2>1, <2>2
<1>5. ASSUME NEW q \in Heads(m)
      PROVE  /\ mem'[q].tag = "busy" <=> mem[q].tag = "busy"
             /\ mem'[q].cell = mem[q].cell
             /\ mem'[q].tag = "fresh" <=> mem[q].tag = "fresh" /\ (stream[mem[q].cell].type = "sound" => mem[q].cell > mem[h].cell)
  <2>1. mem'[q].cell = mem[q].cell
    BY <1>0, <1>2
  <2>2. mem'[q].tag = IF Type(mem, q) = "sound" /\ Key(q) < Key(h) THEN "clear" ELSE mem[q].tag
    BY <1>0
  <2>3. mem'[q].tag = "busy" <=> mem[q].tag = "busy"
    BY <1>0, <2>2
  <2>4. mem[q].tag = "fresh" /\ Type(mem, q) = "sound" => q # h /\ (Key(q) < Key(h) <=> ~(mem[q].cell > mem[h].cell))
    <3>1. SUFFICES ASSUME mem[q].tag = "fresh", Type(mem, q) = "sound"
                   PROVE  q # h /\ (Key(q) < Key(h) <=> ~(mem[q].cell > mem[h].cell))
      OBVIOUS
    <3>2. q # h /\ mem[q].tag # "wrap" /\ mem[h].tag # "wrap"
      BY <1>0, <3>1
    <3>3. mem[q].cell # mem[h].cell /\ mem[q].cell \in Nat /\ mem[h].cell \in Nat
      BY <1>0, <1>4, <3>2, HeadCells
    <3> QED BY <1>4, <3>2, <3>3
  <2>5. mem[q].tag = "fresh" => Type(mem, q) = stream[mem[q].cell].type
    BY <1>4
  <2> QED BY <2>1, <2>2, <2>3, <2>4, <2>5
<1>6. Marked(Heads(m), mem', "busy") = B
  BY <1>5 DEF Marked
<1>7. Marked(Heads(m), mem', "fresh") = {i \in F : stream[i].type = "sound" => i > mem[h].cell}
  BY <1>5 DEF Marked
<1>8. mem[h].cell \in B /\ stream[mem[h].cell].type = "game"
  BY <1>0, <1>4 DEF Marked
<1>9. \A i \in B : stream[i].type # "sound"
  <2>1. ASSUME NEW i \in B PROVE stream[i].type # "sound"
    <3>1. PICK q \in Heads(m) : mem[q].tag = "busy" /\ i = mem[q].cell
      BY DEF Marked
    <3> QED BY <1>0, <1>4, <3>1
  <2> QED BY <2>1
<1> HIDE DEF F, B
<1>10. Fresh = F /\ Fresh' = {i \in F : stream[i].type = "sound" => i > mem[h].cell} /\ Tagged("busy") = B /\ Tagged("busy")' = B
  BY <1>1, <1>2, <1>3, <1>6, <1>7 DEF Fresh, F, B
<1>11. {i \in F : stream[i].type = "sound" => i > mem[h].cell} = {i \in F : i \in {j \in F : stream[j].type = "sound"} => i > mem[h].cell}
  OBVIOUS
<1> QED BY <1>1, <1>2, <1>8, <1>9, <1>10, <1>11 DEF Fifo!Skip, Fifo!Of, Fresh

-----------------------------------------------------------------------------
(* The whole. *)

\* Before the first sector.
LEMMA InitFacts == ASSUME Init PROVE IInv
<1>1. /\ mem = [p \in Addr |-> Blank]
      /\ top = 0 /\ bottom = 0 /\ write_ptr = 0 /\ heap_end = Heap /\ unread = None
      /\ read = TRUE /\ sector = 0 /\ stop = FALSE /\ end = FALSE /\ task_state = -1
      /\ drive = [on |-> TRUE, buffer |-> 0]
      /\ sync = Idle /\ walk = AtRest /\ held = [c \in Consumer |-> << >>]
      /\ stream = Streams[1] /\ starts = 1
  BY DEF Init
<1>2. Len(Streams) \in Nat /\ Len(Streams) >= 1
  BY RingAssumption, LenProperties, EmptySeq
<1>3. Heap \in Nat /\ Heap >= 1 /\ Sector \in Nat
  BY RingAssumption
<1>4. 0 \in Addr /\ {0, Heap} \subseteq 0 .. Heap
  BY <1>3 DEF Addr
<1>5. \A p \in Addr : mem[p] = Blank
  BY <1>1
<1>6. Typed
  <2>1. Idle \in [pc : {"idle", "walk", "end"}, ptr : Addr, lim : Addr, read : BOOLEAN]
    BY <1>4 DEF Idle
  <2>2. AtRest \in [ptr : Addr \cup {None}, lim : Addr]
    BY <1>4 DEF AtRest
  <2>3. drive \in [on : BOOLEAN, buffer : 0 .. Heap]
    BY <1>1, <1>4
  <2>4. \A p \in Addr : mem[p].tag = "wrap" => mem[p].cell = None
    BY <1>5 DEF Blank
  <2>5. starts \in 1 .. Len(Streams) /\ stream = Streams[starts]
    BY <1>1, <1>2
  <2> QED BY <1>1, <2>1, <2>2, <2>3, <2>4, <2>5 DEF Typed
<1>7. TypeOK
  <2>1. Blank \in [cell : Nat \cup {None}, tag : {"blank", "fresh", "busy", "clear", "wrap"}]
    BY DEF Blank
  <2>2. mem \in [Addr -> [cell : Nat \cup {None}, tag : {"blank", "fresh", "busy", "clear", "wrap"}]]
    BY <1>1, <2>1
  <2>3. << >> \in Seq(Addr)
    OBVIOUS
  <2>4. held \in [Consumer -> Seq(Addr)]
    BY <1>1, <2>3
  <2> QED BY <1>1, <1>4, <2>2, <2>4 DEF TypeOK
<1>8. ~Fed /\ ~Walking /\ sync.pc = "idle" /\ \A c \in Consumer : held[c] = << >>
  BY <1>1 DEF Fed, Walking, AtRest, Idle
<1>9. Opening
  BY <1>1, <1>8 DEF Opening
<1>10. Reading
  <2>1. Played
    BY <1>6, StreamFacts
  <2>2. Sector >= 2 /\ Sector <= Heap
    BY <2>1, HeapFacts
  <2>3. Heap - Sector < heap_end /\ heap_end <= Heap /\ write_ptr + Sector <= heap_end
    BY <1>1, <1>3, <2>2
  <2>4. drive.on /\ drive.buffer = 0
    BY <1>1
  <2> QED BY <1>1, <1>8, <2>3, <2>4 DEF Reading
<1>11. Stopping
  BY <1>1 DEF Stopping
<1>12. Parts(0)
  BY <1>6, <1>7, <1>8, <1>9, NoRing DEF Parts
<1> QED BY <1>4, <1>6, <1>7, <1>9, <1>10, <1>11, <1>12 DEF IInv

\* A new stream: a queue to which nothing has come.
LEMMA ReopenFacts ==
  ASSUME IInv, IInv', FS_StreamTaskStart
  PROVE  Fifo!Reopen
<1>1. /\ starts' = starts + 1 /\ stream' = Streams[starts'] /\ sector' = 0
      /\ sync.pc = "idle" /\ ~Walking /\ \A c \in Consumer : held[c] = << >>
  BY DEF FS_StreamTaskStart
<1>2. stream' \in Range(Streams)
  <2>1. starts' \in 1 .. Len(Streams)
    BY DEF IInv, Typed
  <2>2. starts' \in DOMAIN Streams
    BY <2>1, RingAssumption
  <2> QED BY <1>1, <2>2 DEF Range
<1>3. ~Fed'
  BY <1>1 DEF Fed
<1>4. Fresh' = {} /\ Tagged("busy")' = {}
  BY <1>3, NotFedPrimed
<1>5. Coming' = {i \in DOMAIN stream' : stream'[i].type # "end"}
  BY <1>3 DEF Coming
<1>6. Tagged("busy") = {}
  <2>1. CASE Fed
    <3>1. PICK m \in Addr : Order(m) /\ Parts(m)
      BY <2>1, OrderFacts
    <3>2. ASSUME NEW p \in Heads(m), mem[p].tag = "busy" PROVE FALSE
      <4>1. PICK c \in Consumer : p \in Range(held[c])
        BY <3>1, <3>2 DEF Parts, Holding
      <4> QED BY <1>1, <4>1 DEF Range
    <3>3. Marked(Heads(m), mem, "busy") = {}
      BY <3>2 DEF Marked
    <3> QED BY <3>1, <3>3, TaggedAll
  <2>2. CASE ~Fed
    BY <2>2, NotFed
  <2> QED BY <2>1, <2>2
<1> QED BY <1>2, <1>4, <1>5, <1>6 DEF Fifo!Reopen, Fifo!BlocksOf, Fresh

\* The invariant is that of a ring that is not undone.
LEMMA NotLost == ASSUME IInv PROVE sync # Lost
BY DEF IInv, Typed, Lost, Idle

\* A step that only marks headers.
LEMMA MarkFilling ==
  ASSUME IInv, Filling, SameCells, UNCHANGED <<heap_end, drive>>
  PROVE  Filling'
<1>1. 0 \in Addr
  BY HeapFacts, StreamFacts DEF IInv, Addr
<1>2. mem'[0].cell = mem[0].cell /\ UNCHANGED <<top, bottom, write_ptr, sector, stream>>
  BY <1>1 DEF SameCells
<1> QED BY <1>2, SameFilling

\* What a step that does not undo the ring does to the invariant and to the queue.
LEMMA StepFacts ==
  ASSUME IInv, Filling, Next, sync' # Lost
  PROVE  IInv' /\ Filling' /\ (Fifo!Step \/ Same)
<1>1. CASE StreamReadyCallback
  <2>1. IInv' /\ Filling' /\ \E m : Came(m)
    BY <1>1, ReadyStep
  <2>2. PICK m : Came(m)
    BY <2>1
  <2>3. /\ Fed => Order(m)
        /\ ~Fed => Heads(m) = {} /\ Base + bottom = 0
        /\ Base + bottom \in DOMAIN stream
        /\ \E n, R : Order(n)' /\ R \in DOMAIN stream /\ Base + bottom <= R /\ mem'[bottom'].cell = R /\ Arrives(m, n, R)
    BY <2>2 DEF Came
  <2>4. PICK n, R : Order(n)' /\ R \in DOMAIN stream /\ Base + bottom <= R /\ mem'[bottom'].cell = R /\ Arrives(m, n, R)
    BY <2>3
  <2>5. stream' = stream
    BY <1>1 DEF StreamReadyCallback
  <2>6. Fifo!Arrive \/ Same
    BY <2>3, <2>4, <2>5, ArrivesNext DEF Same
  <2> QED BY <2>1, <2>6 DEF Fifo!Step
<1>2. CASE FS_StreamTaskStart
  <2>1. IInv'
    BY <1>2, TaskStartStep
  <2>2. Filling'
    BY <1>2, EmptyFillingPrimed DEF FS_StreamTaskStart
  <2> QED BY <1>2, <2>1, <2>2, ReopenFacts DEF Fifo!Step
<1>3. CASE FS_StreamStop
  <2>1. IInv'
    BY <1>3, StopStep
  <2>2. drive'.on => drive.on
    BY <1>3 DEF FS_StreamStop, IInv, Typed
  <2>3. Filling'
    BY <1>3, <2>2, SameFilling DEF FS_StreamStop, ringVars
  <2> QED BY <1>3, <2>1, <2>3, RingSame DEF FS_StreamStop, ringVars
<1>4. CASE SyncBegin
  <2>1. IInv'
    BY <1>4, SyncBeginStep
  <2>2. Filling'
    BY <1>4, SameFilling DEF SyncBegin, ringVars
  <2> QED BY <1>4, <2>1, <2>2, RingSame DEF SyncBegin, ringVars
<1>5. CASE SyncWalk
  <2>1. IInv'
    BY <1>5, SyncWalkStep
  <2>2. Filling'
    BY <1>5, SameFilling DEF SyncWalk, ringVars, flagVars
  <2> QED BY <1>5, <2>1, <2>2, RingSame DEF SyncWalk, ringVars, flagVars
<1>6. CASE SyncEnd
  <2>0. sync' = Idle
    BY <1>6 DEF SyncEnd
  <2>1. IInv' /\ Filling' /\ \E m, n : Order(m) /\ Order(n)' /\ Keeps(m, n)
    BY <1>6, <2>0, SyncEndStep
  <2>2. PICK m, n : Order(m) /\ Order(n)' /\ Keeps(m, n)
    BY <2>1
  <2>3. stream' = stream
    BY <1>6 DEF SyncEnd
  <2>4. Same
    BY <2>2, <2>3, KeepsSame DEF Same
  <2> QED BY <2>1, <2>4
<1>7. CASE GetData
  <2>1. IInv' /\ \E m, p : Marks(m, "game", p, "fresh", "busy")
    BY <1>7, GetDataStep
  <2>2. PICK m, p : Marks(m, "game", p, "fresh", "busy")
    BY <2>1
  <2>3. "game" \in Consumer
    BY DEF Consumer
  <2>4. Fifo!Take("game")
    BY <2>1, <2>2, <2>3, TakeFacts
  <2>5. Filling'
    BY <1>7, <2>2, MarkFilling DEF Marks, GetData
  <2> QED BY <2>1, <2>3, <2>4, <2>5 DEF Fifo!Step
<1>8. CASE SoundGetBegin
  <2>1. IInv'
    BY <1>8, SoundGetBeginStep
  <2>2. Filling'
    BY <1>8, SameFilling DEF SoundGetBegin, ringVars, flagVars
  <2> QED BY <1>8, <2>1, <2>2, RingSame DEF SoundGetBegin, ringVars, flagVars
<1>9. CASE SoundGetWalk
  <2>1. IInv' /\ (mem' = mem \/ \E m, p : Marks(m, "sound", p, "fresh", "busy"))
    BY <1>9, SoundGetWalkStep
  <2>2. CASE mem' = mem
    <3>1. Filling'
      BY <1>9, <2>2, SameFilling DEF SoundGetWalk, flagVars
    <3> QED BY <1>9, <2>1, <2>2, <3>1, RingSame DEF SoundGetWalk, flagVars
  <2>3. CASE \E m, p : Marks(m, "sound", p, "fresh", "busy")
    <3>1. PICK m, p : Marks(m, "sound", p, "fresh", "busy")
      BY <2>3
    <3>2. "sound" \in Consumer
      BY DEF Consumer
    <3>3. Fifo!Take("sound")
      BY <2>1, <3>1, <3>2, TakeFacts
    <3>4. Filling'
      BY <1>9, <3>1, MarkFilling DEF Marks, SoundGetWalk
    <3> QED BY <2>1, <3>2, <3>3, <3>4 DEF Fifo!Step
  <2> QED BY <2>1, <2>2, <2>3
<1>10. CASE FS_StreamClearType
  <2>1. IInv' /\ \E m, h : Drops(m, h)
    BY <1>10, ClearTypeStep
  <2>2. PICK m, h : Drops(m, h)
    BY <2>1
  <2>3. Fifo!Skip("sound", "game")
    BY <2>1, <2>2, SkipFacts
  <2>4. "sound" \in Consumer /\ "game" \in Consumer \ {"sound"}
    BY DEF Consumer
  <2>5. Filling'
    BY <1>10, <2>2, MarkFilling DEF Drops, FS_StreamClearType
  <2> QED BY <2>1, <2>3, <2>4, <2>5 DEF Fifo!Step
<1>11. ASSUME NEW c \in Consumer, FS_StreamClear(c) PROVE IInv' /\ Filling' /\ (Fifo!Step \/ Same)
  <2>1. IInv' /\ \E m, p : Marks(m, c, p, "busy", "clear")
    BY <1>11, ClearStep
  <2>2. PICK m, p : Marks(m, c, p, "busy", "clear")
    BY <2>1
  <2>3. Fifo!Clear(c)
    BY <2>1, <2>2, ClearFacts
  <2>4. Filling'
    BY <1>11, <2>2, MarkFilling DEF Marks, FS_StreamClear
  <2> QED BY <2>1, <2>3, <2>4 DEF Fifo!Step
<1> QED BY <1>1, <1>2, <1>3, <1>4, <1>5, <1>6, <1>7, <1>8, <1>9, <1>10, <1>11, NotLost DEF Next

\* Only FS_StreamSync undoes the ring.
LEMMA LostFacts ==
  ASSUME IInv, Next, sync' = Lost
  PROVE  TypeOK'
<1>1. sync # Lost /\ sync.pc # "lost"
  BY DEF IInv, Typed, Lost, Idle
<1>2. Idle.pc = "idle" /\ Lost.pc = "lost"
  BY DEF Idle, Lost
<1>3. SyncEnd
  <2>1. CASE UNCHANGED sync
    BY <1>1, <2>1
  <2>2. CASE SyncBegin
    <3>1. sync' = sync \/ sync' = [pc |-> "walk", ptr |-> top, lim |-> bottom, read |-> read]
      BY <2>2 DEF SyncBegin
    <3> QED BY <1>1, <1>2, <3>1
  <2>3. CASE SyncWalk
    <3>1. sync \in [pc : {"idle", "walk", "end"}, ptr : Addr, lim : Addr, read : BOOLEAN] /\ sync.pc = "walk"
      BY <2>3 DEF SyncWalk, IInv, Typed
    <3>2. PICK lim \in {sync.lim, bottom} :
            \/ sync' = [sync EXCEPT !.pc = "end", !.lim = lim]
            \/ sync' = [sync EXCEPT !.ptr = After(sync.ptr), !.lim = lim]
      BY <2>3 DEF SyncWalk
    <3>3. sync'.pc \in {"walk", "end"}
      BY <3>1, <3>2
    <3> QED BY <1>2, <3>3
  <2>4. CASE SyncEnd
    BY <2>4
  <2> QED BY <1>1, <2>1, <2>2, <2>3, <2>4 DEF Next, StreamReadyCallback, FS_StreamTaskStart, FS_StreamStop, GetData,
             SoundGetBegin, SoundGetWalk, FS_StreamClearType, FS_StreamClear, userVars
<1> QED BY <1>3, SyncEndTypes

\* Once undone, the ring stays as it is.
LEMMA LostStays ==
  ASSUME sync = Lost, [Next]_vars
  PROVE  UNCHANGED vars
<1>1. sync.pc = "lost"
  BY DEF Lost, Idle
<1> QED BY <1>1 DEF Next, StreamReadyCallback, FS_StreamTaskStart, FS_StreamStop, SyncBegin, SyncWalk, SyncEnd, GetData,
           SoundGetBegin, SoundGetWalk, FS_StreamClearType, FS_StreamClear

\* A step that changes nothing.
LEMMA Stutter ==
  ASSUME UNCHANGED vars
  PROVE  /\ TypeOK => TypeOK'
         /\ IInv => IInv' /\ Same
         /\ Filling => Filling'
<1>1. /\ UNCHANGED <<mem, top, bottom, write_ptr, heap_end, unread, read, sector, stop, end, task_state>>
      /\ UNCHANGED <<drive, sync, walk, held, stream, starts>>
  BY DEF vars, ringVars, flagVars, userVars
<1>2. TypeOK => TypeOK'
  BY <1>1 DEF TypeOK
<1>3. ASSUME IInv PROVE IInv' /\ Same
  <2>1. PICK m \in Addr : Parts(m)
    BY <1>3 DEF IInv
  <2>2. SameCells
    BY <1>1 DEF SameCells
  <2>3. TypeOK' /\ Typed' /\ Opening' /\ Stopping'
    BY <1>1, <1>3 DEF IInv, TypeOK, Typed, Opening, Stopping, Fed, Walking
  <2>4. Reading'
    BY <1>1, <1>3, <2>1, <2>2, SameReading
  <2>5. /\ Ring(m)' /\ Heads(m)' = Heads(m) /\ Places(m)' = Places(m)
        /\ \A p \in Addr : Key(p)' = Key(p) /\ Type(mem, p)' = Type(mem, p)
        /\ Heads(m) \subseteq Addr /\ Places(m) \subseteq Addr
    BY <1>3, <2>1, <2>2, SameAll
  <2>6. Seeking(m)' /\ Holding(m)'
    BY <1>1, <2>1, <2>5 DEF Parts, Seeking, Holding, Walking
  <2>7. Syncing(m)'
    BY <1>1, <2>1, <2>5 DEF Parts, Syncing, Walking, Fed
  <2>8. IInv'
    BY <2>1, <2>3, <2>4, <2>5, <2>6, <2>7 DEF IInv, Parts
  <2> QED BY <1>1, <1>3, <2>8, RingSame
<1>4. Filling => Filling'
  BY <1>1, SameFilling
<1> QED BY <1>2, <1>3, <1>4

\* The invariant, by every step, and what the step is to the queue.
LEMMA Steps ==
  Inductive /\ [Next]_vars => Inductive' /\ [Fifo!Next]_<<stream, Coming, Fresh, Tagged("busy"), sync = Lost>>
<1> SUFFICES ASSUME Inductive, [Next]_vars
             PROVE  Inductive' /\ (Fifo!Next \/ UNCHANGED <<stream, Coming, Fresh, Tagged("busy"), sync = Lost>>)
  OBVIOUS
<1>1. TypeOK /\ (sync = Lost \/ (IInv /\ Filling))
  BY DEF Inductive
<1>2. CASE sync = Lost
  <2>1. UNCHANGED vars
    BY <1>2, LostStays
  <2>2. sync' = Lost
    BY <1>2, <2>1 DEF vars, userVars
  <2>3. TypeOK'
    BY <1>1, <2>1, Stutter
  <2>4. Fifo!Next
    BY <2>2 DEF Fifo!Next
  <2> QED BY <2>2, <2>3, <2>4 DEF Inductive
<1>3. CASE sync # Lost /\ sync' = Lost
  <2>1. Next
    BY <1>3 DEF vars, userVars
  <2>2. TypeOK'
    BY <1>1, <1>3, <2>1, LostFacts
  <2>3. Fifo!Next
    BY <1>3 DEF Fifo!Next
  <2> QED BY <1>3, <2>2, <2>3 DEF Inductive
<1>4. CASE sync # Lost /\ sync' # Lost
  <2>1. IInv' /\ Filling' /\ (Fifo!Step \/ Same)
    <3>1. CASE Next
      BY <1>1, <1>4, <3>1, StepFacts
    <3>2. CASE UNCHANGED vars
      BY <1>1, <1>4, <3>2, Stutter
    <3> QED BY <3>1, <3>2
  <2>2. UNCHANGED (sync = Lost)
    BY <1>4
  <2>3. Fifo!Step => Fifo!Next
    BY <2>2 DEF Fifo!Next
  <2>4. Same => UNCHANGED <<stream, Coming, Fresh, Tagged("busy"), sync = Lost>>
    BY <2>2 DEF Same
  <2>5. Inductive'
    BY <2>1 DEF Inductive, IInv
  <2> QED BY <2>1, <2>3, <2>4, <2>5
<1> QED BY <1>2, <1>3, <1>4

\* Whatever the order of the interrupt, FS_StreamSync, the actors of the game and the sound task,
\* the invariant of the ring holds until FS_StreamSync undoes it, and the types after that too.
THEOREM Invariant == Spec => []Inductive
<1>1. Init => Inductive
  <2> SUFFICES ASSUME Init PROVE Inductive
    OBVIOUS
  <2>1. IInv
    BY InitFacts
  <2>2. Filling
    BY EmptyFilling DEF Init
  <2> QED BY <2>1, <2>2 DEF Inductive, IInv
<1>2. Inductive /\ [Next]_vars => Inductive'
  BY Steps
<1> QED BY <1>1, <1>2, PTL DEF Spec

\* RingWhole for every heap, sector and stream: until FS_StreamSync frees what the sound task stands
\* on or reads over a full ring, the headers lead over whole blocks in the order of the disk, and
\* neither a sector, a block that is moved nor a mark hits what is in use.
THEOREM RingStaysWhole == Spec => []RingWhole
<1>1. Inductive => RingWhole
  BY RingWholeFacts DEF Inductive, RingWhole
<1> QED BY <1>1, Invariant, PTL

\* HeldIntact for every heap, sector and stream: until then, what FS_StreamGetData gave a user stays
\* whole in the ring until FS_StreamClear.
THEOREM HeldStaysIntact == Spec => []HeldIntact
<1>1. Inductive => HeldIntact
  BY HeldIntactFacts DEF Inductive, HeldIntact
<1> QED BY <1>1, Invariant, PTL

\* WalksHeaders for every heap, sector and stream: until then, the sound task, preempted between two
\* headers by the whole of FS_StreamSync, finds a header where it goes on.
THEOREM SoundWalksHeaders == Spec => []WalksHeaders
<1>1. Inductive => WalksHeaders
  BY WalksHeadersFacts DEF Inductive, WalksHeaders
<1> QED BY <1>1, Invariant, PTL

\* ReadsIntoFree for every heap, sector and stream: until then, the drive is never asked for a sector
\* that would come over what is in use or past the end of the heap.
THEOREM ReadsStayFree == Spec => []ReadsIntoFree
<1>1. Inductive => ReadsIntoFree
  BY DEF Inductive, ReadsIntoFree, IInv, Reading
<1> QED BY <1>1, Invariant, PTL

\* IsFifo for every heap, sector and stream: until then, each user gets the blocks of its type in the
\* order of the disk, each once and none left out.
THEOREM ImplementsFifo == Spec => IsFifo
<1>1. Init => Fifo!Init
  <2> SUFFICES ASSUME Init PROVE Fifo!Init
    OBVIOUS
  <2>0. sector = 0 /\ stream = Streams[1]
    BY DEF Init
  <2>1. IInv /\ ~Fed /\ stream = Streams[1]
    BY <2>0, InitFacts DEF Fed
  <2>2. Fresh = {} /\ Tagged("busy") = {}
    BY <2>1, NotFed
  <2>3. Coming = {i \in DOMAIN stream : stream[i].type # "end"}
    BY <2>1 DEF Coming
  <2>4. stream \in Range(Streams)
    <3>1. Len(Streams) \in Nat /\ Len(Streams) >= 1 /\ DOMAIN Streams = 1 .. Len(Streams)
      BY RingAssumption, LenProperties, EmptySeq
    <3> QED BY <2>1, <3>1 DEF Range
  <2>5. (sync = Lost) = FALSE
    BY <2>1, NotLost
  <2> QED BY <2>2, <2>3, <2>4, <2>5 DEF Fifo!Init, Fifo!BlocksOf, Fresh
<1>2. Inductive /\ [Next]_vars
        => [Fifo!Next]_<<stream, Coming, IF Fed THEN Tagged("fresh") ELSE {}, Tagged("busy"), sync = Lost>>
  BY Steps DEF Fresh
<1> QED BY <1>1, <1>2, Invariant, PTL DEF Spec, IsFifo, Fifo!Spec
=============================================================================
