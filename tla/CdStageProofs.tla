--------------------------- MODULE CdStageProofs ---------------------------
(***************************************************************************)
(* Proofs about CdStage: for every stage that is in order and apart, the   *)
(* files are given to their loaders whole and in order.                    *)
(***************************************************************************)
EXTENDS CdStageInv, NaturalsInduction, WellFoundedInduction, FiniteSetTheorems, TLAPS

(*------------------------------- the sums --------------------------------*)

\* A set of numbers that is not empty has a least one.
LEMMA Least == ASSUME NEW T, T \subseteq Nat, T # {} PROVE \E m \in T : \A k \in T : m <= k
<1> DEFINE R == OpToRel(<, Nat)
<1>1. IsWellFoundedOn(R, Nat)
  BY NatLessThanWellFounded
<1>2. \A x, y \in Nat : <<x, y>> \in R <=> x < y
  BY DEF OpToRel
<1> HIDE DEF R
<1>3. PICK x \in T : \A y \in T : ~ (<<y, x>> \in R)
  BY <1>1, WFMin
<1>4. ASSUME NEW y \in T PROVE x <= y
  <2>1. x \in Nat /\ y \in Nat /\ ~(y < x)
    BY <1>2, <1>3
  <2> QED BY <2>1
<1> QED BY <1>4

\* A sum that starts at from and goes through sizes.
IsSum(s, from, sizes) ==
  /\ s[1] = from
  /\ \A n \in 1 .. Len(sizes) : s[n + 1] = s[n] + sizes[n]

SumExists(n, from, sizes) ==
  \E s \in [1 .. n + 1 -> Nat] : s[1] = from /\ \A j \in 1 .. n : s[j + 1] = s[j] + sizes[j]

LEMMA SumsExist ==
  ASSUME NEW from \in Nat, NEW sizes \in Seq(Nat)
  PROVE  SumExists(Len(sizes), from, sizes)
<1>1. Len(sizes) \in Nat
  OBVIOUS
<1> DEFINE Bad == {n \in 0 .. Len(sizes) : ~SumExists(n, from, sizes)}
<1>2. SUFFICES ASSUME Bad # {} PROVE FALSE
  BY <1>1
<1>3. PICK n \in Bad : \A m \in Bad : n <= m
  <2> HIDE DEF Bad
  <2>1. Bad \subseteq Nat
    BY DEF Bad
  <2> QED BY <1>2, <2>1, Least
<1>4. n # 0
  <2>1. ASSUME n = 0 PROVE FALSE
    <3> DEFINE s == [j \in 1 .. 1 |-> from]
    <3>1. s \in [1 .. 0 + 1 -> Nat] /\ s[1] = from /\ \A j \in 1 .. 0 : s[j + 1] = s[j] + sizes[j]
      OBVIOUS
    <3> HIDE DEF s
    <3>2. SumExists(0, from, sizes)
      BY <3>1 DEF SumExists
    <3> QED BY <2>1, <3>2
  <2> QED BY <2>1
<1>5. n - 1 \in 0 .. Len(sizes) /\ n \in 1 .. Len(sizes)
  BY <1>1, <1>4
<1>6. SumExists(n - 1, from, sizes)
  <2>1. n - 1 \notin Bad
    BY <1>1, <1>3, <1>5
  <2> QED BY <1>5, <2>1
<1>7. PICK s \in [1 .. n -> Nat] : s[1] = from /\ \A j \in 1 .. n - 1 : s[j + 1] = s[j] + sizes[j]
  <2>1. (n - 1) + 1 = n
    BY <1>5
  <2> QED BY <1>6, <2>1 DEF SumExists
<1> DEFINE t == [j \in 1 .. n + 1 |-> IF j = n + 1 THEN s[n] + sizes[n] ELSE s[j]]
<1>8. t \in [1 .. n + 1 -> Nat]
  BY <1>5
<1>9. t[1] = from /\ \A j \in 1 .. n : t[j + 1] = t[j] + sizes[j]
  BY <1>5, <1>7
<1> HIDE DEF t
<1>10. SumExists(n, from, sizes)
  BY <1>8, <1>9 DEF SumExists
<1> QED BY <1>10

LEMMA SumsFacts ==
  ASSUME NEW from \in Nat, NEW sizes \in Seq(Nat)
  PROVE  /\ Sums(from, sizes)[1] = from
         /\ \A n \in 1 .. Len(sizes) + 1 : Sums(from, sizes)[n] \in Nat
         /\ \A n \in 1 .. Len(sizes) : Sums(from, sizes)[n + 1] = Sums(from, sizes)[n] + sizes[n]
<1> DEFINE D == 1 .. Len(sizes) + 1
           P(s) == s = [n \in D |-> IF n = 1 THEN from ELSE s[n - 1] + sizes[n - 1]]
<1>1. Len(sizes) \in Nat
  OBVIOUS
<1>2. PICK s \in [D -> Nat] : s[1] = from /\ \A j \in 1 .. Len(sizes) : s[j + 1] = s[j] + sizes[j]
  BY SumsExist DEF SumExists
<1>3. P(s)
  <2>1. ASSUME NEW n \in D
        PROVE  s[n] = IF n = 1 THEN from ELSE s[n - 1] + sizes[n - 1]
    <3>1. CASE n = 1
      BY <1>2, <3>1
    <3>2. CASE n # 1
      <4>1. n - 1 \in 1 .. Len(sizes) /\ (n - 1) + 1 = n
        BY <1>1, <3>2
      <4>2. s[(n - 1) + 1] = s[n - 1] + sizes[n - 1]
        BY <1>2, <4>1
      <4> QED BY <3>2, <4>1, <4>2
    <3> QED BY <3>1, <3>2
  <2>2. s = [n \in D |-> s[n]]
    OBVIOUS
  <2> QED BY <2>1, <2>2, Zenon
<1>4. Sums(from, sizes) = CHOOSE f : P(f)
  BY Zenon DEF Sums
<1>5. P(CHOOSE f : P(f))
  <2> HIDE DEF P
  <2> QED BY <1>3, Zenon
<1> DEFINE f == Sums(from, sizes)
<1>6. f = [n \in D |-> IF n = 1 THEN from ELSE f[n - 1] + sizes[n - 1]]
  BY <1>4, <1>5, Zenon
<1> HIDE DEF f
<1>7. f[1] = from
  BY <1>1, <1>6
<1>8. ASSUME NEW n \in 1 .. Len(sizes)
      PROVE  f[n + 1] = f[n] + sizes[n]
  <2>1. n + 1 \in D /\ n + 1 # 1 /\ (n + 1) - 1 = n
    BY <1>1
  <2>2. f[n + 1] = f[(n + 1) - 1] + sizes[(n + 1) - 1]
    BY <1>6, <2>1
  <2> QED BY <2>1, <2>2
<1>9. \A n \in D : f[n] = s[n]
  <2> DEFINE Bad == {n \in D : f[n] # s[n]}
  <2>1. SUFFICES ASSUME Bad # {} PROVE FALSE
    OBVIOUS
  <2>2. PICK n \in Bad : \A m \in Bad : n <= m
    <3> HIDE DEF Bad
    <3>1. Bad \subseteq Nat
      BY <1>1 DEF Bad
    <3> QED BY <2>1, <3>1, Least
  <2>3. n # 1
    BY <1>2, <1>7
  <2>4. n - 1 \in 1 .. Len(sizes) /\ n - 1 \notin Bad
    BY <1>1, <2>2, <2>3
  <2>5. f[n - 1] = s[n - 1] /\ f[(n - 1) + 1] = f[n - 1] + sizes[n - 1]
        /\ s[(n - 1) + 1] = s[n - 1] + sizes[n - 1] /\ (n - 1) + 1 = n
    BY <1>1, <1>2, <1>8, <2>4
  <2> QED BY <2>5
<1> QED BY <1>2, <1>7, <1>8, <1>9 DEF f

\* The sums rise.
LEMMA SumsRise ==
  ASSUME NEW from \in Nat, NEW sizes \in Seq(Nat)
  PROVE  \A j, k \in 1 .. Len(sizes) + 1 : j <= k => Sums(from, sizes)[j] <= Sums(from, sizes)[k]
<1> DEFINE f == Sums(from, sizes)
<1>1. /\ Len(sizes) \in Nat
      /\ \A n \in 1 .. Len(sizes) + 1 : f[n] \in Nat
      /\ \A n \in 1 .. Len(sizes) : f[n + 1] = f[n] + sizes[n] /\ sizes[n] \in Nat
  BY SumsFacts
<1> HIDE DEF f
<1>2. SUFFICES ASSUME NEW j \in 1 .. Len(sizes) + 1
               PROVE  \A k \in 1 .. Len(sizes) + 1 : j <= k => f[j] <= f[k]
  BY DEF f
<1> DEFINE Bad == {k \in 1 .. Len(sizes) + 1 : j <= k /\ ~(f[j] <= f[k])}
<1>3. SUFFICES ASSUME Bad # {} PROVE FALSE
  OBVIOUS
<1>4. PICK k \in Bad : \A m \in Bad : k <= m
  <2> HIDE DEF Bad
  <2>1. Bad \subseteq Nat
    BY <1>1 DEF Bad
  <2> QED BY <1>3, <2>1, Least
<1>5. k # j
  BY <1>1
<1>6. k - 1 \in 1 .. Len(sizes) /\ j <= k - 1 /\ k - 1 \notin Bad
  BY <1>1, <1>4, <1>5
<1>7. f[j] <= f[k - 1] /\ f[(k - 1) + 1] = f[k - 1] + sizes[k - 1] /\ (k - 1) + 1 = k
  BY <1>1, <1>6
<1>8. k \in 1 .. Len(sizes) + 1 /\ ~(f[j] <= f[k])
  OBVIOUS
<1> HIDE DEF Bad
<1> QED BY <1>1, <1>6, <1>7, <1>8

(*------------------------- sections on the disk --------------------------*)

Sections == [mode : {"archive", "cache", "sound"}, files : Seq(Nat \ {0}) \ {<<>>}]

\* The files of a section lie one after the other.
LEMMA OffsetFacts ==
  ASSUME NEW s \in Sections
  PROVE  /\ s.mode \in {"archive", "cache", "sound"}
         /\ Len(s.files) \in Nat \ {0} /\ DOMAIN s.files = 1 .. Len(s.files)
         /\ Offset(s, 1) = 0
         /\ \A k \in 1 .. Len(s.files) + 1 : Offset(s, k) \in Nat
         /\ \A k \in 1 .. Len(s.files) : /\ s.files[k] \in Nat \ {0}
                                       /\ Offset(s, k + 1) = Offset(s, k) + s.files[k]
         /\ \A j, k \in 1 .. Len(s.files) + 1 : j < k => Offset(s, j) < Offset(s, k)
         /\ Size(s) \in Nat \ {0}
<1> DEFINE f == s.files
<1>1. s.mode \in {"archive", "cache", "sound"} /\ f \in Seq(Nat \ {0}) /\ f # <<>>
  BY DEF Sections
<1>2. Len(f) \in Nat \ {0} /\ DOMAIN f = 1 .. Len(f) /\ f \in Seq(Nat)
      /\ \A k \in 1 .. Len(f) : f[k] \in Nat \ {0}
  BY <1>1
<1>3. /\ Offset(s, 1) = 0
      /\ \A k \in 1 .. Len(f) + 1 : Offset(s, k) \in Nat
      /\ \A k \in 1 .. Len(f) : Offset(s, k + 1) = Offset(s, k) + f[k]
      /\ \A j, k \in 1 .. Len(f) + 1 : j <= k => Offset(s, j) <= Offset(s, k)
  BY <1>2, SumsFacts, SumsRise DEF Offset
<1>4. ASSUME NEW j \in 1 .. Len(f) + 1, NEW k \in 1 .. Len(f) + 1, j < k
      PROVE  Offset(s, j) < Offset(s, k)
  <2>1. j \in 1 .. Len(f) /\ j + 1 \in 1 .. Len(f) + 1 /\ j + 1 <= k
    BY <1>2, <1>4
  <2>2. Offset(s, j + 1) = Offset(s, j) + f[j] /\ Offset(s, j + 1) <= Offset(s, k)
    BY <1>3, <2>1
  <2>3. f[j] \in Nat \ {0} /\ Offset(s, j) \in Nat /\ Offset(s, j + 1) \in Nat /\ Offset(s, k) \in Nat
    BY <1>2, <1>3, <2>1
  <2> QED BY <2>2, <2>3
<1>5. Size(s) \in Nat \ {0}
  <2>1. 1 \in 1 .. Len(f) + 1 /\ Len(f) + 1 \in 1 .. Len(f) + 1 /\ 1 < Len(f) + 1
    BY <1>2
  <2> QED BY <1>3, <1>4, <2>1 DEF Size
<1> QED BY <1>1, <1>2, <1>3, <1>4, <1>5

LEMMA DivFacts ==
  ASSUME NEW a \in Int, NEW d \in Nat \ {0}
  PROVE  /\ a \div d \in Int
         /\ \A n \in Int : a \div d <= n <=> a < (n + 1) * d
  OBVIOUS

\* A section is as many sectors as cover it.
LEMMA SectorsFacts ==
  ASSUME NEW s \in Sections
  PROVE  /\ Sectors(s) \in Nat \ {0}
         /\ \A n \in Int : Size(s) <= n * Sector <=> Sectors(s) <= n
<1>1. Size(s) \in Nat \ {0} /\ Sector \in Nat \ {0}
  BY OffsetFacts, StageAssumption
<1> DEFINE size == Size(s)
<1> HIDE DEF size
<1>2. Sectors(s) \in Int /\ \A n \in Int : Sectors(s) <= n <=> size + Sector - 1 < (n + 1) * Sector
  BY <1>1, DivFacts DEF Sectors, size
<1>3. ASSUME NEW n \in Int PROVE size <= n * Sector <=> Sectors(s) <= n
  <2>1. (n + 1) * Sector = n * Sector + Sector /\ n * Sector \in Int
    BY <1>1
  <2> QED BY <1>1, <1>2, <2>1 DEF size
<1>4. Sectors(s) > 0
  <2>1. 0 * Sector = 0 /\ ~(size <= 0)
    BY <1>1 DEF size
  <2>2. ~(Sectors(s) <= 0)
    BY <1>3, <2>1
  <2> QED BY <1>2, <2>2
<1> QED BY <1>2, <1>3, <1>4 DEF size

\* The sections follow the table and one another.
LEMMA FirstFacts ==
  ASSUME NEW l \in Layouts
  PROVE  /\ Len(l) \in Nat /\ DOMAIN l = 1 .. Len(l) /\ \A i \in DOMAIN l : l[i] \in Sections
         /\ First(l, 1) = 2
         /\ \A i \in 1 .. Len(l) + 1 : First(l, i) \in Nat
         /\ \A i \in 1 .. Len(l) : First(l, i + 1) = First(l, i) + Sectors(l[i])
         /\ \A i, j \in 1 .. Len(l) + 1 : i <= j => First(l, i) <= First(l, j)
<1>1. l \in Seq(Sections)
  BY StageAssumption DEF Sections
<1>2. Len(l) \in Nat /\ DOMAIN l = 1 .. Len(l) /\ \A i \in DOMAIN l : l[i] \in Sections
  BY <1>1
<1> DEFINE sizes == [j \in DOMAIN l |-> Sectors(l[j])]
<1>3. \A j \in DOMAIN l : Sectors(l[j]) \in Nat
  BY <1>2, SectorsFacts
<1>4. sizes \in Seq(Nat) /\ Len(sizes) = Len(l) /\ \A j \in DOMAIN l : sizes[j] = Sectors(l[j])
  BY <1>2, <1>3
<1> HIDE DEF sizes
<1>5. /\ Sums(2, sizes)[1] = 2
      /\ \A i \in 1 .. Len(l) + 1 : Sums(2, sizes)[i] \in Nat
      /\ \A i \in 1 .. Len(l) : Sums(2, sizes)[i + 1] = Sums(2, sizes)[i] + sizes[i]
      /\ \A i, j \in 1 .. Len(l) + 1 : i <= j => Sums(2, sizes)[i] <= Sums(2, sizes)[j]
  BY <1>4, SumsFacts, SumsRise
<1>6. \A i : First(l, i) = Sums(2, sizes)[i]
  BY DEF First, sizes
<1> QED BY <1>2, <1>4, <1>5, <1>6

\* What has come of a section.
LEMMA CellsFacts ==
  ASSUME NEW l \in Layouts, NEW i \in DOMAIN l, NEW p \in Nat
  PROVE  /\ Cells(l, i, p) \in Int
         /\ Cells(l, i, p + 1) = Cells(l, i, p) + Sector
         /\ First(l, i) > p + 1 => Cells(l, i, p) < 0
         /\ First(l, i) = p + 1 => Cells(l, i, p) = 0
         /\ First(l, i) <= p + 1 => Cells(l, i, p) >= 0
         /\ Size(l[i]) <= Cells(l, i, p) <=> First(l, i + 1) <= p + 1
         /\ p + 1 < First(l, i + 1) => Cells(l, i, p) + Sector <= Sectors(l[i]) * Sector
<1> DEFINE n == p + 1 - First(l, i)
           m == Sectors(l[i])
<1>1. /\ Sector \in Nat \ {0} /\ First(l, i) \in Nat /\ n \in Int /\ l[i] \in Sections
      /\ First(l, i + 1) = First(l, i) + m /\ Cells(l, i, p) = n * Sector
  <2>1. Len(l) \in Nat /\ i \in 1 .. Len(l) /\ i \in 1 .. Len(l) + 1
    BY FirstFacts
  <2>2. Sector \in Nat \ {0} /\ First(l, i) \in Nat /\ l[i] \in Sections /\ First(l, i + 1) = First(l, i) + m
    BY <2>1, FirstFacts, StageAssumption
  <2> QED BY <2>2 DEF Cells
<1>2. m \in Nat \ {0} /\ (Size(l[i]) <= n * Sector <=> m <= n)
  BY <1>1, SectorsFacts
<1>3. Cells(l, i, p + 1) = (n + 1) * Sector
  BY <1>1 DEF Cells
<1>4. (First(l, i + 1) <= p + 1 <=> m <= n) /\ (p + 1 < First(l, i + 1) <=> n + 1 <= m)
      /\ (First(l, i) > p + 1 <=> n <= -1) /\ (First(l, i) = p + 1 <=> n = 0)
      /\ (First(l, i) <= p + 1 <=> n >= 0)
  BY <1>1, <1>2
<1> HIDE DEF n, m
<1>5. (n + 1) * Sector = n * Sector + Sector /\ n * Sector \in Int
  BY <1>1
<1>6. (n <= -1 => n * Sector < 0) /\ (n = 0 => n * Sector = 0) /\ (n >= 0 => n * Sector >= 0)
  BY <1>1
<1>7. n + 1 <= m => (n + 1) * Sector <= m * Sector
  BY <1>1, <1>2
<1> QED BY <1>1, <1>2, <1>3, <1>4, <1>5, <1>6, <1>7 DEF m

\* A file has come with the sector that has its last cell.
LEMMA ComesFacts ==
  ASSUME NEW l \in Layouts, NEW i \in DOMAIN l, NEW k \in 1 .. Len(l[i].files), NEW p \in Nat
  PROVE  /\ Comes(l, i, k) \in Int
         /\ Comes(l, i, k) <= p <=> Offset(l[i], k + 1) <= Cells(l, i, p)
<1>1. Sector \in Nat \ {0} /\ First(l, i) \in Nat /\ l[i] \in Sections
  <2>1. Len(l) \in Nat /\ i \in 1 .. Len(l) /\ i \in 1 .. Len(l) + 1
    BY FirstFacts
  <2> QED BY <2>1, FirstFacts, StageAssumption
<1> DEFINE o == Offset(l[i], k + 1)
           n == p - First(l, i)
<1>2. o \in Nat /\ n \in Int
  BY <1>1, OffsetFacts
<1> HIDE DEF o, n
<1>3. (o - 1) \div Sector \in Int /\ ((o - 1) \div Sector <= n <=> o - 1 < (n + 1) * Sector)
  <2>1. o - 1 \in Int
    BY <1>2
  <2> QED BY <1>1, <1>2, <2>1, DivFacts
<1>4. Cells(l, i, p) = (n + 1) * Sector /\ (n + 1) * Sector \in Int
  BY <1>1, <1>2 DEF Cells, n
<1>5. Comes(l, i, k) = First(l, i) + (o - 1) \div Sector
  BY DEF Comes, o
<1> DEFINE q == (o - 1) \div Sector
           c == (n + 1) * Sector
<1>6. q \in Int /\ c \in Int /\ (q <= n <=> o - 1 < c) /\ Comes(l, i, k) = First(l, i) + q
      /\ Cells(l, i, p) = c
  BY <1>3, <1>4, <1>5
<1> HIDE DEF q, c
<1>7. Comes(l, i, k) \in Int /\ (Comes(l, i, k) <= p <=> q <= n)
  BY <1>1, <1>6 DEF n
<1> QED BY <1>2, <1>6, <1>7 DEF o

\* A section has its place in the memory.
LEMMA PlaceFacts ==
  ASSUME NEW l \in Layouts, Fits(l), NEW i \in DOMAIN l
  PROVE  /\ l[i].mode = "sound" => Place(l[i]) = Elsewhere
         /\ l[i].mode = "cache" => Place(l[i]) = Conf
         /\ l[i].mode # "sound" => Place(l[i]) \in Nat /\ Place(l[i]) \in 0 .. Memory - 1
         /\ Place(l[i]) + Sectors(l[i]) * Sector <= Memory
         /\ Size(l[i]) <= Sectors(l[i]) * Sector /\ Sectors(l[i]) * Sector \in Int
<1>1. Sector \in Nat \ {0} /\ Conf \in Nat /\ Far \in Nat /\ l[i] \in Sections
  BY FirstFacts, StageAssumption
<1>2. Sectors(l[i]) \in Nat /\ Size(l[i]) <= Sectors(l[i]) * Sector /\ Size(l[i]) \in Nat \ {0}
  BY <1>1, SectorsFacts, OffsetFacts
<1>3. l[i].mode \in {"archive", "cache", "sound"}
  BY <1>1, OffsetFacts
<1>4. /\ l[i].mode = "sound" => Place(l[i]) = Elsewhere
      /\ l[i].mode = "cache" => Place(l[i]) = Conf
      /\ l[i].mode # "sound" => Place(l[i]) \in Nat
  BY <1>1, <1>3 DEF Place
<1>5. Place(l[i]) + Sectors(l[i]) * Sector <= Memory /\ Sectors(l[i]) * Sector \in Int
  BY <1>1, <1>2 DEF Fits
<1>6. l[i].mode # "sound" => Place(l[i]) \in 0 .. Memory - 1
  <2> DEFINE m == Sectors(l[i]) * Sector
  <2>1. /\ Memory \in Nat /\ m \in Int /\ m >= 1 /\ Place(l[i]) + m <= Memory
        /\ l[i].mode # "sound" => Place(l[i]) \in Nat
    BY <1>2, <1>4, <1>5, StageAssumption
  <2> HIDE DEF m
  <2> QED BY <2>1
<1> QED BY <1>2, <1>4, <1>5, <1>6

(*----------------------------- one state ---------------------------------*)

\* What is known of the stage in every state.
LEMMA StageFacts ==
  ASSUME Disk
  PROVE  /\ stage \in Layouts /\ Fits(stage) /\ Len(stage) \in Nat
         /\ DOMAIN stage = 1 .. Len(stage) /\ End = Len(stage) + 1
         /\ \A i \in DOMAIN stage : stage[i] \in Sections
         /\ \A i \in DOMAIN stage : /\ stage[i].mode \in {"archive", "cache", "sound"}
                                    /\ Mode(i) = stage[i].mode
         /\ Mode(End) = "none"
         /\ pos \in Nat /\ now \in 0 .. End
<1>1. stage \in Layouts /\ Fits(stage) /\ pos \in Nat /\ now \in 0 .. End
  BY DEF Disk
<1>2. Len(stage) \in Nat /\ DOMAIN stage = 1 .. Len(stage)
      /\ \A i \in DOMAIN stage : stage[i] \in Sections
  BY <1>1, FirstFacts
<1>3. \A i \in DOMAIN stage : stage[i].mode \in {"archive", "cache", "sound"} /\ i # End
  BY <1>2, OffsetFacts DEF End
<1> QED BY <1>1, <1>2, <1>3 DEF End, Mode

\* How much of a section has come.
LEMMA GotFacts ==
  ASSUME Disk, NEW i \in DOMAIN stage
  PROVE  /\ Got(i) \in Int /\ Size(stage[i]) \in Nat
         /\ i < now => Size(stage[i]) <= Got(i)
         /\ i = now => /\ 0 <= Got(i) /\ Got(i) < Size(stage[i])
                       /\ Got(i) + Sector <= Sectors(stage[i]) * Sector
         /\ i > now => Got(i) <= 0
<1>1. /\ stage \in Layouts /\ Len(stage) \in Nat /\ DOMAIN stage = 1 .. Len(stage)
      /\ End = Len(stage) + 1 /\ pos \in Nat /\ now \in 0 .. End /\ stage[i] \in Sections
  BY StageFacts
<1>2. /\ Got(i) \in Int
      /\ First(stage, i) > pos + 1 => Got(i) < 0
      /\ First(stage, i) = pos + 1 => Got(i) = 0
      /\ First(stage, i) <= pos + 1 => Got(i) >= 0
      /\ Size(stage[i]) <= Got(i) <=> First(stage, i + 1) <= pos + 1
      /\ pos + 1 < First(stage, i + 1) => Got(i) + Sector <= Sectors(stage[i]) * Sector
  BY <1>1, CellsFacts DEF Got
<1>3. Size(stage[i]) \in Nat
  BY <1>1, OffsetFacts
<1>4. /\ i \in 1 .. End /\ i + 1 \in 1 .. End
      /\ \A j \in 1 .. End : First(stage, j) \in Nat
      /\ \A j, k \in 1 .. End : j <= k => First(stage, j) <= First(stage, k)
      /\ First(stage, 1) = 2
  BY <1>1, FirstFacts
<1>5. now \in 1 .. End => First(stage, now) <= pos + 1
  <2>1. CASE now \in 1 .. Len(stage)
    BY <2>1 DEF Disk, Reads
  <2>2. CASE now = End
    BY <1>1, <1>4, <2>2 DEF Disk
  <2> QED BY <1>1, <2>1, <2>2
<1>6. ASSUME i < now PROVE Size(stage[i]) <= Got(i)
  <2>1. now \in 1 .. End /\ i + 1 <= now
    BY <1>1, <1>6
  <2>2. First(stage, i + 1) <= First(stage, now) /\ First(stage, now) <= pos + 1
        /\ First(stage, i + 1) \in Nat /\ First(stage, now) \in Nat
    BY <1>4, <1>5, <2>1
  <2> QED BY <1>1, <1>2, <2>2
<1>7. ASSUME i = now PROVE First(stage, i) <= pos + 1 /\ pos + 1 < First(stage, i + 1)
  BY <1>1, <1>7 DEF Disk, Reads
<1>8. ASSUME i = now
      PROVE  0 <= Got(i) /\ Got(i) < Size(stage[i]) /\ Got(i) + Sector <= Sectors(stage[i]) * Sector
  <2>1. First(stage, i + 1) \in Nat
    BY <1>4
  <2> QED BY <1>1, <1>2, <1>3, <1>7, <1>8, <2>1
<1>9. ASSUME i > now PROVE Got(i) <= 0
  <2>1. CASE now = 0
    <3>1. pos = 0 /\ First(stage, 1) <= First(stage, i) /\ First(stage, i) \in Nat
      BY <1>1, <1>4, <2>1 DEF Disk
    <3> QED BY <1>2, <1>4, <3>1
  <2>2. CASE now # 0
    <3>1. now \in 1 .. Len(stage) /\ now + 1 \in 1 .. End /\ now + 1 <= i
      BY <1>1, <1>9, <2>2
    <3>2. pos + 1 < First(stage, now + 1) /\ First(stage, now + 1) <= First(stage, i)
          /\ First(stage, now + 1) \in Nat /\ First(stage, i) \in Nat
      BY <1>4, <3>1 DEF Disk, Reads
    <3> QED BY <1>1, <1>2, <3>2
  <2> QED BY <2>1, <2>2
<1> QED BY <1>2, <1>3, <1>6, <1>8, <1>9

\* The cells of a file lie in its section, and the section in the memory.
LEMMA FileFacts ==
  ASSUME Disk, NEW f \in Files(stage)
  PROVE  /\ f[1] \in DOMAIN stage /\ f[2] \in 1 .. Len(stage[f[1]].files) /\ f = <<f[1], f[2]>>
         /\ f[2] + 1 \in 1 .. Len(stage[f[1]].files) + 1
         /\ stage[f[1]].mode # "sound" /\ Place(stage[f[1]]) \in Nat
         /\ Offset(stage[f[1]], f[2]) \in Nat /\ Offset(stage[f[1]], f[2] + 1) \in Nat
         /\ stage[f[1]].files[f[2]] \in Nat \ {0}
         /\ Offset(stage[f[1]], f[2] + 1) = Offset(stage[f[1]], f[2]) + stage[f[1]].files[f[2]]
         /\ Offset(stage[f[1]], f[2] + 1) <= Size(stage[f[1]]) /\ Size(stage[f[1]]) \in Nat
         /\ Place(stage[f[1]]) + Size(stage[f[1]]) <= Memory
<1>1. stage \in Layouts /\ Fits(stage) /\ \A i \in DOMAIN stage : stage[i] \in Sections
  BY StageFacts
<1>2. /\ f[1] \in DOMAIN stage /\ f[2] \in 1 .. Len(stage[f[1]].files) /\ f = <<f[1], f[2]>>
      /\ stage[f[1]].mode # "sound"
  BY DEF Files
<1> DEFINE s == stage[f[1]]
<1>3. /\ Len(s.files) \in Nat \ {0}
      /\ \A k \in 1 .. Len(s.files) + 1 : Offset(s, k) \in Nat
      /\ \A k \in 1 .. Len(s.files) : /\ s.files[k] \in Nat \ {0}
                                    /\ Offset(s, k + 1) = Offset(s, k) + s.files[k]
      /\ \A j, k \in 1 .. Len(s.files) + 1 : j < k => Offset(s, j) < Offset(s, k)
      /\ Size(s) \in Nat
  BY <1>1, <1>2, OffsetFacts
<1>4. /\ Place(s) \in Nat /\ Place(s) + Sectors(s) * Sector <= Memory
      /\ Size(s) <= Sectors(s) * Sector /\ Sectors(s) * Sector \in Int
  BY <1>1, <1>2, PlaceFacts
<1>5. Place(s) + Size(s) <= Memory
  BY <1>3, <1>4, StageAssumption
<1>6. f[2] \in 1 .. Len(s.files) + 1 /\ f[2] + 1 \in 1 .. Len(s.files) + 1
  BY <1>2, <1>3
<1>7. Offset(s, f[2] + 1) <= Size(s)
  <2>1. f[2] + 1 = Len(s.files) + 1 \/ f[2] + 1 < Len(s.files) + 1
    BY <1>2, <1>3
  <2>2. Len(s.files) + 1 \in 1 .. Len(s.files) + 1
    BY <1>3
  <2> QED BY <1>3, <1>6, <2>1, <2>2 DEF Size
<1> HIDE DEF s
<1>8. /\ f[1] \in DOMAIN stage /\ f[2] \in 1 .. Len(s.files) /\ f = <<f[1], f[2]>>
      /\ s.mode # "sound"
  BY <1>2 DEF s
<1>9. /\ Offset(s, f[2]) \in Nat /\ Offset(s, f[2] + 1) \in Nat /\ s.files[f[2]] \in Nat \ {0}
      /\ Offset(s, f[2] + 1) = Offset(s, f[2]) + s.files[f[2]]
  BY <1>3, <1>6, <1>8
<1> QED BY <1>3, <1>4, <1>5, <1>6, <1>7, <1>8, <1>9 DEF s

(*------------------------------- the start -------------------------------*)

LEMMA InitHolds == ASSUME Init PROVE IInv
<1>1. stage \in Layouts /\ InOrder(stage) /\ Apart(stage) /\ Fits(stage)
  BY DEF Init
<1>2. /\ Len(stage) \in Nat /\ DOMAIN stage = 1 .. Len(stage) /\ First(stage, 1) = 2
      /\ \A i \in DOMAIN stage : stage[i] \in Sections
  BY <1>1, FirstFacts
<1>3. Memory \in Nat \ {0} /\ Sector \in Nat \ {0}
  BY StageAssumption
<1>4. TypeOK
  BY <1>2, <1>3 DEF Init, TypeOK, End
<1>5. Disk
  BY <1>1, <1>2, <1>3 DEF Init, Disk, End
<1>6. Done = {}
  BY DEF Init, Done
<1>7. InMemory
  <2>1. ASSUME NEW f \in Files(stage),
               NEW c \in Offset(stage[f[1]], f[2]) .. Offset(stage[f[1]], f[2] + 1) - 1
        PROVE  ~(c < Got(f[1]))
    <3>1. Got(f[1]) <= 0 /\ Got(f[1]) \in Int
      <4>1. f[1] \in DOMAIN stage
        BY <1>5, FileFacts
      <4>2. f[1] > now
        BY <1>2, <4>1 DEF Init
      <4> QED BY <1>5, <4>1, <4>2, GotFacts
    <3>2. Offset(stage[f[1]], f[2]) \in Nat
      BY <1>5, FileFacts
    <3> QED BY <3>1, <3>2
  <2>2. DOMAIN mem = 0 .. Memory - 1
    BY DEF Init
  <2> QED BY <1>6, <2>1, <2>2 DEF InMemory
<1>8. Begun
  BY <1>2 DEF Init, Begun, Archives
<1>9. Splits
  BY DEF Init, Splits
<1>10. 1 \in FilesOf(tag) /\ Loaded(1) /\ At(1) /\ Where(1)
  <2>1. 1 \in FilesOf(tag)
    BY <1>2 DEF Init, FilesOf
  <2>2. Loaded(1)
    <3>1. ASSUME NEW f \in Files(stage) PROVE ~Before(f, <<tag, 1>>)
      <4>1. f[1] \in DOMAIN stage
        BY <1>5, FileFacts
      <4> QED BY <1>2, <4>1 DEF Init, Before
    <3>2. loaded = <<>> /\ DOMAIN loaded = {}
      BY DEF Init
    <3> QED BY <3>1, <3>2 DEF Loaded
  <2>3. At(1)
    BY DEF Init, At
  <2>4. Where(1)
    BY DEF Init, Where, Labels
  <2> QED BY <2>1, <2>2, <2>3, <2>4
<1> QED BY <1>4, <1>5, <1>7, <1>8, <1>9, <1>10 DEF IInv

(*------------------------------- the disk --------------------------------*)

\* There is one cache, behind the archives.
LEMMA OrderFacts ==
  ASSUME Disk
  PROVE  \E c \in DOMAIN stage :
           /\ stage[c].mode = "cache"
           /\ \A i \in DOMAIN stage : stage[i].mode = "cache" => i = c
           /\ \A i \in Archives(stage) : i < c
<1> QED BY DEF Disk, InOrder

LEMMA ReadConfigKeeps == ASSUME IInv, ReadConfig PROVE IInv'
<1>1. Disk /\ TypeOK /\ InMemory /\ Begun /\ Splits
  BY DEF IInv
<1>2. PICK k \in FilesOf(tag) : Loaded(k) /\ At(k) /\ Where(k)
  BY DEF IInv
<1>3. /\ stage \in Layouts /\ Fits(stage) /\ Len(stage) \in Nat
      /\ DOMAIN stage = 1 .. Len(stage) /\ End = Len(stage) + 1
      /\ \A i \in DOMAIN stage : stage[i] \in Sections
  BY <1>1, StageFacts
<1>4. PICK c \in DOMAIN stage : stage[c].mode = "cache"
  BY <1>1, OrderFacts
<1>5. /\ pos = 0 /\ now = 0 /\ tag = 0 /\ pc = "away" /\ k = 1
  BY <1>1, <1>2, <1>3 DEF ReadConfig, Disk, Where, FilesOf
<1>6. /\ pos' = 1 /\ now' = 1 /\ tag' = 1 /\ End' = End
      /\ UNCHANGED <<stage, mem, file, mark, current, remaining, pc, reads, limit, loaded, split>>
  BY DEF ReadConfig, End
<1>7. 1 \in DOMAIN stage /\ 1 # End
  BY <1>3, <1>4
<1> DEFINE s == stage[1]
<1>8. /\ buffer' = Place(s) /\ left' = Size(s)
      /\ start2' = IF s.mode = "archive" THEN Place(s) ELSE start2
      /\ end2' = IF s.mode = "sound" THEN end2 ELSE Place(s)
  BY <1>7 DEF ReadConfig, SetupNextFile
<1>9. /\ s.mode = "sound" => Place(s) = Elsewhere
      /\ s.mode # "sound" => Place(s) \in Nat /\ Place(s) \in 0 .. Memory - 1
      /\ Place(s) + Sectors(s) * Sector <= Memory /\ Sectors(s) * Sector \in Int
      /\ Size(s) <= Sectors(s) * Sector /\ Size(s) \in Nat
  BY <1>1, <1>3, <1>7, PlaceFacts, GotFacts
<1>10. First(stage, 1) = 2 /\ First(stage, 2) > 2 /\ First(stage, 2) \in Nat /\ Cells(stage, 1, 1) = 0
  <2>1. First(stage, 1) = 2 /\ First(stage, 1 + 1) = First(stage, 1) + Sectors(s)
    BY <1>3, <1>7, FirstFacts
  <2>2. Sectors(s) \in Nat \ {0}
    BY <1>3, <1>7, SectorsFacts
  <2>3. Cells(stage, 1, 1) = 0
    BY <1>3, <1>7, <2>1, CellsFacts
  <2> QED BY <2>1, <2>2, <2>3
<1> HIDE DEF s
<1>11. TypeOK'
  <2>1. Place(s) \in {Elsewhere} \cup 0 .. Memory /\ start2' \in 0 .. Memory /\ end2' \in 0 .. Memory
    BY <1>1, <1>8, <1>9, StageAssumption DEF TypeOK
  <2> QED BY <1>1, <1>3, <1>6, <1>7, <1>8, <2>1 DEF TypeOK
<1>12. Disk'
  <2>1. stage[1].mode = s.mode
    BY DEF s
  <2>2. Reads(1)'
    BY <1>6, <1>8, <1>9, <1>10, <2>1 DEF Reads, Got, s
  <2>3. now' # End'
    BY <1>3, <1>6, <1>7
  <2> QED BY <1>1, <1>3, <1>6, <1>7, <1>8, <1>9, <2>2, <2>3 DEF Disk
<1>13. Done' = Done /\ Files(stage)' = Files(stage)
  BY <1>6 DEF Done
<1>14. Done = {} /\ loaded = <<>>
  <2>1. ASSUME NEW n \in DOMAIN loaded PROVE FALSE
    <3>1. loaded[n] \in Files(stage) /\ Before(loaded[n], <<tag, k>>)
      BY <1>2 DEF Loaded
    <3>2. loaded[n][1] \in DOMAIN stage
      BY <1>1, <3>1, FileFacts
    <3> QED BY <1>3, <1>5, <3>1, <3>2 DEF Before
  <2>2. loaded \in Seq(Files(stage))
    BY <1>2 DEF Loaded
  <2>3. DOMAIN loaded = {} /\ loaded = <<>>
    BY <2>1, <2>2
  <2> QED BY <2>3 DEF Done
<1>15. InMemory'
  <2>1. ASSUME NEW f \in Files(stage),
               NEW x \in Offset(stage[f[1]], f[2]) .. Offset(stage[f[1]], f[2] + 1) - 1
        PROVE  ~(x < Got(f[1])')
    <3>1. f[1] \in DOMAIN stage /\ Offset(stage[f[1]], f[2]) \in Nat
      BY <1>1, FileFacts
    <3>2. 1 <= f[1] /\ f[1] \in 1 .. Len(stage) + 1 /\ 1 \in 1 .. Len(stage) + 1
      BY <1>3, <3>1
    <3>3. First(stage, f[1]) \in Nat /\ First(stage, f[1]) >= 2
      BY <1>3, <3>2, FirstFacts
    <3>4. Cells(stage, f[1], 1) <= 0 /\ Cells(stage, f[1], 1) \in Int
      <4>1. /\ Cells(stage, f[1], 1) \in Int
            /\ First(stage, f[1]) > 1 + 1 => Cells(stage, f[1], 1) < 0
            /\ First(stage, f[1]) = 1 + 1 => Cells(stage, f[1], 1) = 0
        BY <1>3, <3>1, CellsFacts
      <4> QED BY <3>3, <4>1
    <3> QED BY <1>6, <3>1, <3>4 DEF Got
  <2> QED BY <1>1, <1>6, <1>13, <1>14, <2>1 DEF InMemory
<1>16. Begun'
  BY <1>3, <1>6, <1>8, <1>13 DEF Begun, Archives, s
<1>17. Splits'
  BY <1>1, <1>3, <1>4, <1>5, <1>6 DEF Splits
<1>18. /\ 1 \in FilesOf(tag)' /\ Loaded(1)' /\ At(1)' /\ Where(1)'
  <2>1. 1 \in FilesOf(tag)'
    <3>1. DOMAIN stage[1].files = 1 .. Len(stage[1].files) /\ Len(stage[1].files) \in Nat \ {0}
      BY <1>3, <1>7, OffsetFacts
    <3> QED BY <1>6, <1>7, <3>1 DEF FilesOf
  <2>2. Loaded(1)'
    <3>1. ASSUME NEW f \in Files(stage) PROVE ~Before(f, <<1, 1>>)
      <4>1. f[1] \in DOMAIN stage /\ f[2] \in 1 .. Len(stage[f[1]].files)
        BY <1>1, FileFacts
      <4>2. stage[f[1]] \in Sections
        BY <1>3, <4>1
      <4>3. Len(stage[f[1]].files) \in Nat
        BY <4>2, OffsetFacts
      <4> QED BY <1>3, <4>1, <4>3 DEF Before
    <3>2. loaded' = <<>> /\ DOMAIN loaded' = {}
      BY <1>6, <1>14
    <3> QED BY <1>6, <1>13, <3>1, <3>2 DEF Loaded
  <2>3. At(1)'
    BY <1>2, <1>3, <1>4, <1>5, <1>6 DEF At, InArchive, InCache, Behind, Archives
  <2>4. Where(1)'
    BY <1>5, <1>6 DEF Where, Labels
  <2> QED BY <2>1, <2>2, <2>3, <2>4
<1> QED BY <1>11, <1>12, <1>15, <1>16, <1>17, <1>18 DEF IInv

\* What the interrupt leaves alone: the loader is where it was, in a section that has begun
\* to come, as more has come.
LEMMA LoaderStays ==
  ASSUME Disk, Disk', UNCHANGED <<stage, loadVars>>, pos' >= pos, now' >= now, now # 0, Reading,
         NEW k \in FilesOf(tag), Loaded(k), At(k), Where(k), tag \in 0 .. End, limit \in Nat,
         \A i \in DOMAIN stage : Cells(stage, i, pos') >= Got(i)
  PROVE  Loaded(k)' /\ At(k)' /\ Where(k)' /\ FilesOf(tag)' = FilesOf(tag)
<1>1. UNCHANGED <<stage, tag, file, mark, current, remaining, pc, reads, limit, loaded, split>>
  BY DEF loadVars
<1>2. FilesOf(tag)' = FilesOf(tag) /\ Loaded(k)' /\ At(k)'
  BY <1>1 DEF FilesOf, Loaded, Done, At, InArchive, InCache, Behind, Archives
<1>3. /\ now \in 0 .. End /\ now' \in 0 .. End /\ Len(stage) \in Nat /\ End = Len(stage) + 1 /\ now < End
      /\ DOMAIN stage = 1 .. Len(stage)
  <2>1. (stage \in Layouts)' /\ (now \in 0 .. End)'
    BY DEF Disk
  <2>2. End' = End
    BY <1>1 DEF End
  <2> QED BY <2>1, <2>2, StageFacts DEF Reading
<1>4. now' # 0 /\ now' \in Nat
  BY <1>3
<1> DEFINE more == Cells(stage, tag, pos')
<1>5. ASSUME tag <= now, pc \in {"archive", "look", "limit", "next", "load", "loadCache"}
      PROVE  /\ Place(stage[tag]) \in Nat /\ Got(tag) \in Int /\ more \in Int /\ more >= Got(tag)
             /\ Offset(stage[tag], k + 1) \in Nat
  <2>1. tag \in DOMAIN stage
    BY <1>3, <1>5 DEF Where
  <2>2. stage[tag].mode # "sound" /\ stage[tag] \in Sections
    BY <1>5, <2>1, StageFacts DEF Where
  <2>3. Place(stage[tag]) \in Nat
    BY <2>1, <2>2, StageFacts, PlaceFacts
  <2>4. Got(tag) \in Int
    BY <2>1, GotFacts
  <2>5. more \in Int
    <3>1. stage \in Layouts /\ pos' \in Nat
      BY <1>1 DEF Disk
    <3> QED BY <2>1, <3>1, CellsFacts
  <2>6. Offset(stage[tag], k + 1) \in Nat
    <3>1. Len(stage[tag].files) \in Nat /\ DOMAIN stage[tag].files = 1 .. Len(stage[tag].files)
      BY <2>2, OffsetFacts
    <3>2. k + 1 \in 1 .. Len(stage[tag].files) + 1
      BY <2>1, <3>1 DEF FilesOf
    <3> QED BY <2>2, <3>2, OffsetFacts
  <2> QED BY <2>1, <2>3, <2>4, <2>5, <2>6
<1> HIDE DEF more
<1>6. /\ pc' \in Labels \ {"wrong"}
      /\ tag' <= now' + 1 /\ (tag' = 0 <=> now' = 0) /\ (pc' # "away" => tag' > 0)
  <2>1. /\ pc \in Labels \ {"wrong"} /\ tag <= now + 1 /\ (tag = 0 <=> now = 0)
        /\ pc # "away" => tag > 0
    BY DEF Where
  <2>2. tag # 0
    BY <2>1
  <2>3. tag \in Nat /\ now \in Nat /\ now' \in Nat /\ now' >= now
    BY <1>3, <1>4
  <2>4. tag <= now' + 1
    <3>1. tag <= now + 1
      BY <2>1
    <3>2. \A a, b, c \in Nat : a <= b + 1 /\ c >= b => a <= c + 1
      OBVIOUS
    <3> QED BY <2>3, <3>1, <3>2
  <2>5. tag > 0
    BY <2>2, <2>3
  <2> QED BY <1>1, <1>4, <2>1, <2>2, <2>4, <2>5
<1>7. /\ pc \in {"archive", "look", "limit", "next", "load"} => tag <= now' /\ Mode(tag)' = "archive"
      /\ pc \in {"cache", "lookCache", "endCache", "loadCache"} => tag <= now' /\ Mode(tag)' = "cache"
  <2>1. Mode(tag)' = Mode(tag)
    BY <1>1 DEF Mode, End
  <2>2. tag <= now => tag <= now'
    BY <1>3, <1>4
  <2> QED BY <2>1, <2>2 DEF Where
<1>8. pc = "limit" /\ ~reads => now' > tag
  BY <1>3, <1>4 DEF Where
<1>9. ASSUME pc \in {"next", "load"} PROVE InLimit'
  <2>1. tag <= now /\ InLimit
    BY <1>9 DEF Where
  <2>2. CASE now > tag
    BY <1>1, <1>3, <1>4, <2>2 DEF InLimit
  <2>3. CASE limit <= Place(stage[tag]) + Got(tag)
    <3>1. limit <= Place(stage[tag]) + more => InLimit'
      BY <1>1 DEF InLimit, Got, more
    <3>2. Place(stage[tag]) \in Nat /\ Got(tag) \in Int /\ more \in Int /\ more >= Got(tag)
      BY <1>5, <1>9, <2>1
    <3>3. limit <= Place(stage[tag]) + more
      BY <2>3, <3>2
    <3> QED BY <3>1, <3>3
  <2> QED BY <2>1, <2>2, <2>3 DEF InLimit
<1>10. ASSUME pc \in {"load", "loadCache"} PROVE Here(tag, k)'
  <2>1. tag <= now /\ Here(tag, k)
    BY <1>10 DEF Where
  <2>2. Here(tag, k)' = (Offset(stage[tag], k + 1) <= more)
    BY <1>1 DEF Here, Got, more
  <2> QED BY <1>5, <1>10, <2>1, <2>2 DEF Here
<1>11. pc # "done"
  BY <1>3 DEF Where
<1>12. (pc \in {"sync", "done"} => Behind)'
  BY <1>1 DEF Where, Behind
<1> QED BY <1>1, <1>2, <1>6, <1>7, <1>8, <1>9, <1>10, <1>11, <1>12 DEF Where

\* A file that has come, and whose time is over, is loaded.
LEMMA InTimeFacts ==
  ASSUME Disk, InTime, NEW f \in Files(stage), Here(f[1], f[2]),
         pos + 1 - Comes(stage, f[1], f[2]) > Lead
  PROVE  f \in Done
<1>1. Comes(stage, f[1], f[2]) <= pos
  BY StageFacts, FileFacts, ComesFacts DEF Here, Got
<1> QED BY <1>1 DEF InTime, Done

LEMMA ReadSectorKeeps == ASSUME IInv, ReadSector PROVE IInv'
<1>1. Disk /\ TypeOK /\ InMemory /\ Begun /\ Splits
  BY DEF IInv
<1>2. PICK k \in FilesOf(tag) : Loaded(k) /\ At(k) /\ Where(k)
  BY DEF IInv
<1>3. /\ stage \in Layouts /\ Fits(stage) /\ Len(stage) \in Nat
      /\ DOMAIN stage = 1 .. Len(stage) /\ End = Len(stage) + 1
      /\ \A i \in DOMAIN stage : stage[i] \in Sections
      /\ pos \in Nat /\ now \in 0 .. End
  BY <1>1, StageFacts
<1>4. /\ pos > 0 /\ Reading /\ InTime /\ pos' = pos + 1 /\ End' = End
      /\ UNCHANGED <<stage, loadVars>>
      /\ UNCHANGED <<tag, file, mark, current, remaining, pc, reads, limit, loaded, split>>
  BY DEF ReadSector, loadVars, End
<1>5. now \in DOMAIN stage /\ now # 0 /\ Reads(now)
  BY <1>1, <1>3, <1>4 DEF Disk, Reading
<1> DEFINE s == stage[now]
           got == Got(now)
<1>6. /\ Sector \in Nat \ {0} /\ Memory \in Nat
      /\ got \in Int /\ Size(s) \in Nat /\ 0 <= got /\ got < Size(s) /\ left = Size(s) - got
  BY <1>1, <1>5, GotFacts, StageAssumption DEF Reads
<1>7. /\ s.mode = "sound" => Place(s) = Elsewhere /\ buffer = Elsewhere
      /\ s.mode # "sound" => Place(s) \in Nat /\ buffer = Place(s) + got /\ end2 = buffer
  BY <1>3, <1>5, PlaceFacts DEF Reads
<1>8. s.mode # "sound" => buffer \in Nat /\ buffer # Elsewhere /\ buffer + Sector \in 0 .. Memory
  <2> DEFINE m == Sectors(s) * Sector
  <2>1. Place(s) + m <= Memory /\ m \in Int /\ got + Sector <= m
    BY <1>1, <1>3, <1>5, PlaceFacts, GotFacts
  <2> HIDE DEF m, s, got
  <2> QED BY <1>6, <1>7, <2>1 DEF Elsewhere
<1>9. mem' = IF s.mode = "sound" THEN mem
             ELSE [a \in DOMAIN mem |->
                     IF a \in buffer .. buffer + Sector - 1 THEN <<now, got + a - buffer>> ELSE mem[a]]
  <2>1. Size(s) - left = got
    BY <1>6
  <2> QED BY <1>7, <1>8, <2>1 DEF ReadSector
<1>10. \/ /\ Size(s) <= got + Sector /\ now' = now + 1 /\ SetupNextFile(now + 1)
       \/ /\ got + Sector < Size(s) /\ now' = now /\ left' = left - Sector /\ start2' = start2
          /\ buffer' = IF s.mode = "sound" THEN buffer ELSE buffer + Sector
          /\ end2' \in IF s.mode = "sound" THEN {end2, 0, Memory} ELSE {buffer + Sector}
  <2>1. left - Sector <= 0 <=> Size(s) <= got + Sector
    BY <1>6
  <2>2. ~(left - Sector <= 0) <=> got + Sector < Size(s)
    BY <1>6
  <2>3. buffer = Elsewhere <=> s.mode = "sound"
    BY <1>7, <1>8
  <2> HIDE DEF s, got
  <2> QED BY <2>1, <2>2, <2>3 DEF ReadSector, NowAtEnd
<1>11. ASSUME NEW i \in DOMAIN stage
       PROVE  Cells(stage, i, pos') = Got(i) + Sector /\ Got(i) \in Int /\ Cells(stage, i, pos') >= Got(i)
  <2>1. Cells(stage, i, pos + 1) = Got(i) + Sector /\ Got(i) \in Int
    BY <1>1, <1>3, CellsFacts, GotFacts DEF Got
  <2> QED BY <1>4, <1>6, <2>1
<1>12. ASSUME NEW i \in DOMAIN stage PROVE Got(i)' = Got(i) + Sector
  BY <1>4, <1>11 DEF Got
<1>13. /\ now + 1 \in 1 .. End /\ now \in 1 .. End
       /\ First(stage, now) \in Nat /\ First(stage, now + 1) \in Nat
       /\ First(stage, now) <= pos + 1 /\ pos + 1 < First(stage, now + 1)
       /\ Size(s) <= got + Sector <=> First(stage, now + 1) <= pos + 2
  <2>1. now + 1 \in 1 .. End /\ now \in 1 .. End
    BY <1>3, <1>5
  <2>2. First(stage, now) <= pos + 1 /\ pos + 1 < First(stage, now + 1)
    BY <1>5 DEF Reads
  <2>3. pos' \in Nat /\ pos' + 1 = pos + 2
    BY <1>3, <1>4
  <2>4. Size(s) <= Cells(stage, now, pos') <=> First(stage, now + 1) <= pos' + 1
    BY <1>3, <1>5, <2>3, CellsFacts
  <2>5. Size(s) <= got + Sector <=> First(stage, now + 1) <= pos + 2
    BY <1>5, <1>11, <2>3, <2>4
  <2>6. First(stage, now) \in Nat /\ First(stage, now + 1) \in Nat
    BY <1>3, <2>1, FirstFacts
  <2> QED BY <2>1, <2>2, <2>5, <2>6
<1>14. now' = now + 1 => First(stage, now + 1) = pos' + 1
  <2>1. now' = now + 1 => Size(s) <= got + Sector
    BY <1>3, <1>10
  <2> QED BY <1>3, <1>4, <1>13, <2>1
<1>15. now' = now => pos' + 1 < First(stage, now + 1)
  <2>1. now' = now => got + Sector < Size(s)
    BY <1>3, <1>10
  <2> QED BY <1>3, <1>4, <1>6, <1>13, <2>1
<1>16. now' \in {now, now + 1} /\ now' \in 1 .. End /\ now' >= now
  BY <1>3, <1>5, <1>10
<1> DEFINE t == stage[now + 1]
<1>17. ASSUME now' = now + 1, now + 1 # End
       PROVE  /\ now + 1 \in DOMAIN stage
              /\ buffer' = Place(t) /\ left' = Size(t)
              /\ start2' = IF t.mode = "archive" THEN Place(t) ELSE start2
              /\ end2' = IF t.mode = "sound" THEN end2 ELSE Place(t)
              /\ t.mode = "sound" => Place(t) = Elsewhere
              /\ t.mode # "sound" => Place(t) \in Nat /\ Place(t) \in 0 .. Memory - 1
              /\ Got(now + 1) + Sector = 0 /\ Size(t) \in Nat
              /\ First(stage, now + 2) \in Nat /\ First(stage, now + 1) < First(stage, now + 2)
  <2>1. now + 1 \in DOMAIN stage /\ now + 2 \in 1 .. End
    BY <1>3, <1>13, <1>17
  <2>2. SetupNextFile(now + 1)
    BY <1>3, <1>10, <1>17
  <2>3. /\ buffer' = Place(t) /\ left' = Size(t)
        /\ start2' = IF t.mode = "archive" THEN Place(t) ELSE start2
        /\ end2' = IF t.mode = "sound" THEN end2 ELSE Place(t)
    BY <1>17, <2>2 DEF SetupNextFile
  <2>4. /\ t.mode = "sound" => Place(t) = Elsewhere
        /\ t.mode # "sound" => Place(t) \in Nat /\ Place(t) \in 0 .. Memory - 1
    BY <1>3, <2>1, PlaceFacts
  <2>5. Got(now + 1) + Sector = 0 /\ Size(t) \in Nat
    <3>1. Cells(stage, now + 1, pos') = 0
      BY <1>3, <1>4, <1>14, <1>17, <2>1, CellsFacts
    <3> QED BY <1>1, <1>11, <2>1, <3>1, GotFacts
  <2>6. First(stage, now + 2) \in Nat /\ First(stage, now + 1) < First(stage, now + 2)
    <3>1. Sectors(t) \in Nat \ {0}
      BY <1>3, <2>1, SectorsFacts
    <3>2. (now + 1) + 1 = now + 2
      BY <1>3
    <3>3. First(stage, (now + 1) + 1) = First(stage, now + 1) + Sectors(t)
      BY <1>3, <2>1, FirstFacts
    <3> QED BY <1>13, <3>1, <3>2, <3>3
  <2> QED BY <2>1, <2>3, <2>4, <2>5, <2>6
<1> HIDE DEF s, t, got
<1>18. TypeOK'
  <2>1. buffer' \in {Elsewhere} \cup 0 .. Memory /\ start2' \in 0 .. Memory /\ end2' \in 0 .. Memory
    <3>1. CASE now' = now
      BY <1>1, <1>3, <1>6, <1>7, <1>8, <1>10, <3>1 DEF TypeOK
    <3>2. CASE now' = now + 1 /\ now + 1 # End
      BY <1>1, <1>6, <1>17, <3>2 DEF TypeOK
    <3>3. CASE now' = now + 1 /\ now + 1 = End
      BY <1>1, <1>3, <1>10, <3>3 DEF TypeOK, SetupNextFile
    <3> QED BY <1>16, <3>1, <3>2, <3>3
  <2> QED BY <1>1, <1>3, <1>4, <1>16, <2>1 DEF TypeOK
<1>19. Disk'
  <2>1. pos' \in Nat /\ pos' # 0 /\ now' \in 0 .. End /\ now' # 0
    BY <1>3, <1>4, <1>16
  <2>2. ASSUME now' = now PROVE Reads(now)' /\ left' \in Int /\ now' # End
    <3>1. /\ left' = left - Sector /\ got + Sector < Size(s)
          /\ buffer' = IF s.mode = "sound" THEN buffer ELSE buffer + Sector
          /\ end2' \in IF s.mode = "sound" THEN {end2, 0, Memory} ELSE {buffer + Sector}
      BY <1>3, <1>10, <2>2
    <3>2. Cells(stage, now, pos') = got + Sector
      BY <1>5, <1>11 DEF got
    <3>3. left' = Size(s) - Cells(stage, now, pos') /\ left' \in Int
      BY <1>6, <3>1, <3>2
    <3>4. First(stage, now) <= pos' + 1 /\ pos' + 1 < First(stage, now + 1)
      BY <1>3, <1>4, <1>13, <1>15, <2>2
    <3>5. IF s.mode = "sound" THEN buffer' = Elsewhere
                              ELSE buffer' = Place(s) + Cells(stage, now, pos') /\ end2' = buffer'
      BY <1>6, <1>7, <3>1, <3>2
    <3>6. now' # End
      BY <1>3, <1>5, <2>2
    <3> QED BY <1>4, <2>2, <3>3, <3>4, <3>5, <3>6 DEF Reads, Got, s
  <2>3. ASSUME now' = now + 1, now + 1 # End PROVE Reads(now)' /\ left' \in Int
    <3>1. Cells(stage, now + 1, pos') = 0
      BY <1>11, <1>17, <2>3
    <3>2. left' = Size(t) - Cells(stage, now + 1, pos') /\ left' \in Int
      BY <1>17, <2>3, <3>1
    <3>3. First(stage, now + 1) <= pos' + 1 /\ pos' + 1 < First(stage, now + 2) /\ (now + 1) + 1 = now + 2
      BY <1>3, <1>13, <1>14, <1>17, <2>1, <2>3
    <3>4. IF t.mode = "sound" THEN buffer' = Elsewhere
                              ELSE buffer' = Place(t) + Cells(stage, now + 1, pos') /\ end2' = buffer'
      BY <1>17, <2>3, <3>1
    <3> QED BY <1>4, <2>3, <3>2, <3>3, <3>4 DEF Reads, Got, t
  <2>4. ASSUME now' = now + 1, now + 1 = End PROVE left' \in Int /\ pos' + 1 = First(stage, End)
    <3>1. left' = left
      BY <1>3, <1>10, <2>4 DEF SetupNextFile
    <3> QED BY <1>6, <1>14, <2>4, <3>1
  <2>5. (stage \in Layouts /\ InOrder(stage) /\ Apart(stage) /\ Fits(stage))'
    BY <1>1, <1>4 DEF Disk
  <2>6. (now \in 1 .. Len(stage) => Reads(now))' /\ left' \in Int
    <3>1. now' \in 1 .. Len(stage) => now' # End
      BY <1>3
    <3> QED BY <1>4, <1>16, <2>2, <2>3, <2>4, <3>1
  <2>7. now' = End => pos' + 1 = First(stage, End)
    BY <1>16, <2>2, <2>4
  <2> QED BY <1>4, <2>1, <2>5, <2>6, <2>7 DEF Disk
<1>20. Done' = Done /\ Files(stage)' = Files(stage)
  BY <1>4 DEF Done
<1>21. InMemory'
  <2>1. DOMAIN mem' = DOMAIN mem /\ DOMAIN mem = 0 .. Memory - 1
    BY <1>1, <1>9 DEF InMemory
  <2>2. ASSUME NEW f \in Done PROVE Here(f[1], f[2])'
    <3>1. f \in Files(stage) /\ Here(f[1], f[2])
      BY <1>1, <1>2, <2>2 DEF Loaded, Done, InMemory
    <3>2. f[1] \in DOMAIN stage /\ Offset(stage[f[1]], f[2] + 1) \in Nat
      BY <1>1, <3>1, FileFacts
    <3>3. Offset(stage[f[1]], f[2] + 1) <= Cells(stage, f[1], pos')
      BY <1>6, <1>11, <3>1, <3>2 DEF Here
    <3> QED BY <1>4, <3>3 DEF Here, Got
  <2>3. ASSUME NEW f \in Files(stage), f \notin Done \/ stage[f[1]].mode = "cache",
               NEW c \in Offset(stage[f[1]], f[2]) .. Offset(stage[f[1]], f[2] + 1) - 1,
               c < Got(f[1]) + Sector
        PROVE  mem'[Place(stage[f[1]]) + c] = <<f[1], c>>
    <3> DEFINE u == stage[f[1]]
               a == Place(u) + c
    <3>1. /\ f[1] \in DOMAIN stage /\ f[2] \in 1 .. Len(u.files) /\ f = <<f[1], f[2]>>
          /\ u.mode # "sound" /\ Place(u) \in Nat
          /\ Offset(u, f[2]) \in Nat /\ Offset(u, f[2] + 1) \in Nat /\ u.files[f[2]] \in Nat \ {0}
          /\ Offset(u, f[2] + 1) = Offset(u, f[2]) + u.files[f[2]]
          /\ Offset(u, f[2] + 1) <= Size(u) /\ Size(u) \in Nat /\ Place(u) + Size(u) <= Memory
      BY <1>1, FileFacts
    <3>2. /\ Got(f[1]) \in Int
          /\ f[1] < now => Size(u) <= Got(f[1])
          /\ f[1] > now => Got(f[1]) <= 0
      BY <1>1, <3>1, GotFacts
    <3> HIDE DEF u
    <3>3. c \in Nat /\ Offset(u, f[2]) <= c /\ c < Offset(u, f[2] + 1)
      BY <3>1 DEF u
    <3>4. a \in DOMAIN mem /\ a \in Nat
      <4>0. /\ Memory \in Int /\ Place(u) \in Nat /\ c \in Nat /\ Size(u) \in Nat /\ c < Size(u)
            /\ Place(u) + Size(u) <= Memory
        BY <1>6, <3>1, <3>3
      <4>1. Memory \in Int /\ a \in Nat /\ a < Memory
        BY <4>0
      <4> QED BY <2>1, <4>1
    <3>5. c < Got(f[1]) => mem[a] = <<f[1], c>>
      BY <1>1, <2>3 DEF InMemory, u
    <3>6. CASE f[1] = now
      <4>1. u = s /\ Got(f[1]) = got
        BY <3>6 DEF u, s, got
      <4>2. CASE c < got
        <5>1. a \notin buffer .. buffer + Sector - 1
          BY <1>6, <1>7, <1>8, <3>1, <3>3, <4>1, <4>2
        <5> QED BY <1>9, <3>4, <3>5, <4>1, <4>2, <5>1 DEF u
      <4>3. CASE ~(c < got)
        <5>1. got <= c /\ c < got + Sector /\ buffer = Place(u) + got /\ Place(u) \in Nat
          BY <1>6, <1>7, <2>3, <3>1, <3>3, <4>1, <4>3
        <5>2. a \in buffer .. buffer + Sector - 1 /\ got + a - buffer = c
          BY <1>6, <3>3, <5>1
        <5> QED BY <1>9, <3>1, <3>4, <3>6, <4>1, <5>2 DEF u
      <4> QED BY <4>2, <4>3
    <3>7. CASE f[1] > now
      <4>1. Cells(stage, f[1], pos') = Got(f[1]) + Sector
        BY <1>11, <3>1
      <4>2. Cells(stage, f[1], pos') <= 0
        <5>1. f[1] \in 1 .. End /\ now + 1 <= f[1]
          <6>1. f[1] \in 1 .. Len(stage)
            BY <1>3, <3>1
          <6> QED BY <1>3, <3>7, <6>1
        <5>2. First(stage, now + 1) <= First(stage, f[1]) /\ First(stage, f[1]) \in Nat
          BY <1>3, <1>13, <5>1, FirstFacts
        <5>3. pos' \in Nat /\ pos' + 1 <= First(stage, f[1])
          BY <1>3, <1>4, <1>13, <5>2
        <5>4. /\ Cells(stage, f[1], pos') \in Int
              /\ First(stage, f[1]) > pos' + 1 => Cells(stage, f[1], pos') < 0
              /\ First(stage, f[1]) = pos' + 1 => Cells(stage, f[1], pos') = 0
          BY <1>3, <3>1, <5>3, CellsFacts
        <5> QED BY <5>2, <5>3, <5>4
      <4> QED BY <1>6, <2>3, <3>2, <3>3, <4>1, <4>2
    <3>8. CASE f[1] < now
      <4>1. c < Got(f[1]) /\ Offset(u, f[2] + 1) <= Got(f[1])
        BY <3>1, <3>2, <3>3, <3>8
      <4>2. SUFFICES ASSUME s.mode # "sound", a \in buffer .. buffer + Sector - 1 PROVE FALSE
        BY <1>9, <3>4, <3>5, <4>1 DEF u
      <4>3. u.mode = "archive"
        <5>1. u.mode # "cache"
          <6>1. SUFFICES ASSUME u.mode = "cache" PROVE FALSE
            OBVIOUS
          <6>2. PICK d \in DOMAIN stage :
                  /\ \A i \in DOMAIN stage : stage[i].mode = "cache" => i = d
                  /\ \A i \in Archives(stage) : i < d
            BY <1>1, OrderFacts
          <6>3. f[1] = d /\ stage[now].mode # "cache" /\ stage[now].mode # "sound"
            <7>1. f[1] = d /\ now # f[1]
              BY <1>3, <1>5, <3>1, <3>8, <6>1, <6>2 DEF u
            <7> QED BY <1>5, <4>2, <6>2, <7>1 DEF s
          <6>4. now \in Archives(stage)
            BY <1>1, <1>5, <6>3, StageFacts DEF Archives
          <6> QED BY <1>3, <1>5, <3>8, <6>2, <6>3, <6>4
        <5> QED BY <1>1, <3>1, <5>1, StageFacts DEF u
      <4> DEFINE n == pos + 1 - First(stage, now)
      <4>4. n \in 0 .. Sectors(s) - 1 /\ got = n * Sector
        <5>1. First(stage, now + 1) = First(stage, now) + Sectors(s) /\ Sectors(s) \in Nat
          BY <1>3, <1>5, FirstFacts, SectorsFacts DEF s
        <5> QED BY <1>3, <1>13, <5>1 DEF got, Got, Cells
      <4> HIDE DEF n
      <4>5. n * Sector \in Int /\ buffer = Place(s) + n * Sector
        BY <1>6, <1>7, <4>2, <4>4
      <4>6. /\ Place(u) + Offset(u, f[2]) < (Place(s) + n * Sector) + Sector
            /\ Place(s) + n * Sector < (Place(u) + Offset(u, f[2])) + u.files[f[2]]
        <5> DEFINE b == Place(s) + n * Sector
        <5>1. b = buffer /\ buffer \in Nat /\ b \in Int
          BY <1>8, <4>2, <4>5
        <5> HIDE DEF b
        <5>2. Place(u) + Offset(u, f[2]) < b + Sector /\ b < (Place(u) + Offset(u, f[2])) + u.files[f[2]]
          <6> DEFINE o == Offset(u, f[2])
                     e == Offset(u, f[2] + 1)
                     z == u.files[f[2]]
          <6>1. o \in Nat /\ e \in Nat /\ z \in Nat /\ e = o + z /\ Place(u) \in Nat /\ c \in Nat
                /\ o <= c /\ c < e
            BY <3>1, <3>3
          <6>2. Sector \in Nat /\ b \in Nat /\ b <= a /\ a < b + Sector
            BY <1>6, <4>2, <5>1
          <6> HIDE DEF o, e, z
          <6>3. Place(u) + o < b + Sector /\ b < (Place(u) + o) + z
            BY <6>1, <6>2
          <6> QED BY <6>3 DEF o, z
        <5> QED BY <5>2 DEF b
      <4>7. First(stage, now) + n - Comes(stage, f[1], f[2]) > Lead
        <5>1. Apart(stage) /\ f[1] \in Archives(stage)
          BY <1>1, <3>1, <4>3 DEF Disk, Archives, u
        <5> QED BY <1>5, <3>1, <3>8, <4>2, <4>4, <4>6, <5>1 DEF Apart, u, s
      <4>8. pos + 1 - Comes(stage, f[1], f[2]) > Lead
        <5>1. First(stage, now) + n = pos + 1
          BY <1>3, <1>13 DEF n
        <5>2. /\ Comes(stage, f[1], f[2]) \in Int /\ Lead \in Int /\ First(stage, now) \in Int /\ n \in Int
              /\ pos \in Int
          <6>1. Comes(stage, f[1], f[2]) \in Int
            BY <1>3, <3>1, ComesFacts DEF u
          <6>2. Lead \in Int
            BY StageAssumption
          <6> QED BY <1>3, <1>13, <4>4, <6>1, <6>2
        <5> QED BY <4>7, <5>1, <5>2
      <4>9. f \in Done
        BY <1>1, <1>4, <4>1, <4>8, InTimeFacts DEF Here, u
      <4> QED BY <2>3, <4>3, <4>9 DEF u
    <3>9. f[1] \in Nat /\ now \in Nat
      BY <1>3, <3>1
    <3> QED BY <3>6, <3>7, <3>8, <3>9
  <2>4. \A f \in Files(stage) : Got(f[1])' = Got(f[1]) + Sector
    BY <1>1, <1>12, FileFacts
  <2> QED BY <1>4, <1>20, <2>1, <2>2, <2>3, <2>4 DEF InMemory
<1>22. Begun'
  <2>1. ASSUME NEW i \in Archives(stage), NEW j \in Archives(stage), i < j, j <= now'
        PROVE  <<i, 1>> \in Done
    <3>1. i \in DOMAIN stage /\ j \in DOMAIN stage
      BY DEF Archives
    <3>2. CASE j <= now
      BY <1>1, <2>1, <3>2 DEF Begun
    <3>3. CASE ~(j <= now)
      <4>1. j = now + 1 /\ now' = now + 1
        BY <1>3, <1>16, <2>1, <3>1, <3>3
      <4>2. First(stage, j) - 1 - Comes(stage, i, 1) > Lead /\ pos + 1 - Comes(stage, i, 1) > Lead
        <5>1. First(stage, j) = pos' + 1 /\ First(stage, j) \in Nat
          BY <1>13, <1>14, <4>1
        <5>2. First(stage, j) - 1 - Comes(stage, i, 1) > Lead
          BY <1>1, <2>1 DEF Disk, Apart
        <5>3. First(stage, j) - 1 = pos + 1
          BY <1>3, <1>4, <5>1
        <5>4. Comes(stage, i, 1) \in Int /\ Lead \in Int
          <6>1. 1 \in 1 .. Len(stage[i].files)
            BY <1>3, <3>1, OffsetFacts
          <6>2. Comes(stage, i, 1) \in Int
            BY <1>3, <3>1, <6>1, ComesFacts
          <6> QED BY <6>2, StageAssumption
        <5> QED BY <1>3, <5>1, <5>2, <5>3, <5>4
      <4> DEFINE f == <<i, 1>>
      <4>3. f \in Files(stage) /\ f[1] = i /\ f[2] = 1
        <5>1. 1 \in 1 .. Len(stage[i].files)
          BY <1>3, <3>1, OffsetFacts
        <5> QED BY <3>1, <5>1 DEF Files, Archives
      <4>4. Comes(stage, i, 1) \in Int /\ Comes(stage, i, 1) <= pos
        <5>1. Comes(stage, i, 1) \in Int
          BY <1>1, <1>3, <4>3, FileFacts, ComesFacts
        <5> QED BY <1>3, <4>2, <5>1, StageAssumption
      <4>5. Here(i, 1)
        BY <1>1, <1>3, <4>3, <4>4, FileFacts, ComesFacts DEF Here, Got
      <4> HIDE DEF f
      <4>6. f \in Done
        <5>1. pos + 1 - Comes(stage, f[1], f[2]) > Lead
          BY <4>2, <4>3, Zenon
        <5> QED BY <1>1, <1>4, <4>3, <4>5, <5>1, InTimeFacts
      <4> QED BY <4>6 DEF f
    <3> QED BY <3>2, <3>3
  <2>2. ASSUME NEW i \in Archives(stage), i <= now', \A j \in Archives(stage) : j <= now' => j <= i
        PROVE  start2' = Place(stage[i])
    <3>1. i \in DOMAIN stage /\ stage[i].mode = "archive"
      BY DEF Archives
    <3>2. CASE i <= now
      <4>1. start2 = Place(stage[i])
        <5>1. \A j \in Archives(stage) : j <= now => j <= now'
          BY <1>3, <1>16 DEF Archives
        <5> QED BY <1>1, <2>2, <3>2, <5>1 DEF Begun
      <4>2. start2' = start2
        <5>1. CASE now' = now
          BY <1>3, <1>10, <5>1
        <5>2. CASE now' = now + 1 /\ now + 1 = End
          BY <1>3, <1>10, <5>2 DEF SetupNextFile
        <5>3. CASE now' = now + 1 /\ now + 1 # End
          <6>1. now + 1 \notin Archives(stage)
            BY <1>3, <2>2, <3>1, <3>2, <5>3
          <6> QED BY <1>17, <5>3, <6>1 DEF Archives, t
        <5> QED BY <1>16, <5>1, <5>2, <5>3
      <4> QED BY <4>1, <4>2
    <3>3. CASE ~(i <= now)
      <4>1. i = now + 1 /\ now' = now + 1 /\ now + 1 # End
        BY <1>3, <1>16, <2>2, <3>1, <3>3
      <4> QED BY <1>17, <3>1, <4>1 DEF t
    <3> QED BY <3>2, <3>3
  <2> QED BY <1>4, <1>20, <2>1, <2>2 DEF Begun
<1>23. Splits'
  BY <1>1, <1>3, <1>4, <1>16 DEF Splits
<1>24. k \in FilesOf(tag)' /\ Loaded(k)' /\ At(k)' /\ Where(k)'
  <2>1. tag \in 0 .. End /\ limit \in Nat /\ pos' >= pos
    BY <1>1, <1>3, <1>4 DEF TypeOK
  <2> QED BY <1>1, <1>2, <1>4, <1>5, <1>11, <1>16, <1>19, <2>1, LoaderStays
<1> QED BY <1>18, <1>19, <1>21, <1>22, <1>23, <1>24 DEF IInv

(*------------------------------ the loader -------------------------------*)

\* The files of a section that is before the one that is read have come.
LEMMA HereBefore ==
  ASSUME Disk, NEW i \in DOMAIN stage, NEW k \in 1 .. Len(stage[i].files), stage[i].mode # "sound", i < now
  PROVE  Here(i, k)
<1> DEFINE f == <<i, k>>
<1>1. f \in Files(stage) /\ f[1] = i /\ f[2] = k
  BY DEF Files
<1> HIDE DEF f
<1>2. Offset(stage[i], k + 1) \in Nat /\ Offset(stage[i], k + 1) <= Size(stage[i]) /\ Size(stage[i]) \in Nat
  BY <1>1, FileFacts
<1>3. Size(stage[i]) <= Got(i) /\ Got(i) \in Int
  BY GotFacts
<1> QED BY <1>2, <1>3 DEF Here

\* What the mark says of the place of the loader.
LEMMA AtFacts ==
  ASSUME Disk, NEW k \in FilesOf(tag), At(k), tag \in DOMAIN stage
  PROVE  /\ stage[tag].mode = "archive" => IF mark = 0 THEN InArchive(k) ELSE mark = 2 /\ k = 1
         /\ stage[tag].mode = "cache"   => IF mark = 1 THEN InCache(k) ELSE mark = 2 /\ k = 1
         /\ stage[tag].mode = "sound"   => k = 1 /\ (mark = 2 \/ (mark = 1 /\ Behind))
         /\ k \in 1 .. Len(stage[tag].files)
         /\ stage[tag].mode # "sound" => <<tag, k>> \in Files(stage)
<1>1. /\ Len(stage) \in Nat /\ DOMAIN stage = 1 .. Len(stage)
      /\ \A i \in DOMAIN stage : stage[i] \in Sections
  BY StageFacts
<1>2. PICK c \in DOMAIN stage :
        /\ stage[c].mode = "cache"
        /\ \A i \in DOMAIN stage : stage[i].mode = "cache" => i = c
        /\ \A i \in Archives(stage) : i < c
  BY OrderFacts
<1>3. Behind => c < tag
  BY <1>2 DEF Behind
<1>4. c \in Nat /\ tag \in Nat
  BY <1>1
<1>5. stage[tag].mode = "archive" \/ stage[tag].mode = "cache" => ~Behind
  BY <1>2, <1>3, <1>4 DEF Archives
<1>6. k \in 1 .. Len(stage[tag].files)
  BY <1>1, OffsetFacts DEF FilesOf
<1> QED BY <1>5, <1>6 DEF At, InArchive, InCache, Archives, Files

\* The section that is loaded is one of the stage, when it has a mode.
LEMMA TagFacts ==
  ASSUME Disk, TypeOK, NEW k, Where(k), pc # "away"
  PROVE  /\ tag \in 1 .. End /\ (tag \in DOMAIN stage \/ tag = End)
         /\ Mode(tag) # "none" => tag \in DOMAIN stage /\ Mode(tag) = stage[tag].mode
         /\ Mode(tag) = "none" => tag = End
<1>1. /\ Len(stage) \in Nat /\ DOMAIN stage = 1 .. Len(stage) /\ End = Len(stage) + 1
      /\ \A i \in DOMAIN stage : stage[i].mode \in {"archive", "cache", "sound"} /\ Mode(i) = stage[i].mode
      /\ Mode(End) = "none"
  BY StageFacts
<1>2. tag \in 0 .. End /\ tag > 0
  BY DEF TypeOK, Where
<1>3. tag \in 1 .. End /\ (tag \in DOMAIN stage \/ tag = End)
  BY <1>1, <1>2
<1> QED BY <1>1, <1>3

\* What the loader leaves alone when it loads nothing.
LEMMA DiskStays ==
  ASSUME IInv, UNCHANGED <<stage, diskVars>>, UNCHANGED <<loaded, split>>, TypeOK',
         NEW k \in FilesOf(tag)', Loaded(k)', At(k)', Where(k)'
  PROVE  IInv'
<1>1. UNCHANGED <<stage, pos, mem, now, buffer, left, start2, end2, loaded, split>>
  BY DEF diskVars
<1>2. Disk'
  BY <1>1 DEF IInv, Disk, Reads, Got, End
<1>3. InMemory' /\ Begun' /\ Splits'
  BY <1>1 DEF IInv, InMemory, Begun, Splits, Got, Here, Done
<1> QED BY <1>2, <1>3 DEF IInv

LEMMA LoadStageSyncKeeps == ASSUME IInv, LoadStageSync, UNCHANGED <<stage, diskVars>> PROVE IInv'
<1>1. PICK k \in FilesOf(tag) : Loaded(k) /\ At(k) /\ Where(k)
  BY DEF IInv
<1>2. /\ UNCHANGED <<stage, pos, mem, now, buffer, left, start2, end2, tag, file, mark,
                     current, remaining, reads, limit, loaded, split>>
      /\ pc = "away" /\ tag > 0 /\ pc' = "loop"
  BY DEF LoadStageSync, diskVars, unlessTag, Goto
<1>3. TypeOK' /\ k \in FilesOf(tag)' /\ Loaded(k)' /\ At(k)'
  BY <1>1, <1>2 DEF IInv, TypeOK, End, FilesOf, Loaded, Done, At, InArchive, InCache, Behind
<1>4. Where(k)'
  BY <1>1, <1>2 DEF Where, Labels
<1> QED BY <1>2, <1>3, <1>4, DiskStays

LEMMA LoadStageFilesKeeps == ASSUME IInv, LoadStageFiles, UNCHANGED <<stage, diskVars>> PROVE IInv'
<1>1. PICK k \in FilesOf(tag) : Loaded(k) /\ At(k) /\ Where(k)
  BY DEF IInv
<1>2. /\ UNCHANGED <<stage, pos, mem, now, buffer, left, start2, end2, file, mark,
                     current, remaining, reads, limit, loaded, split>>
      /\ pc = "loop"
  BY DEF LoadStageFiles, diskVars, unlessTag
<1>3. Disk /\ TypeOK
  BY DEF IInv
<1>4. /\ Len(stage) \in Nat /\ DOMAIN stage = 1 .. Len(stage) /\ End = Len(stage) + 1
      /\ now \in 0 .. End /\ End' = End
      /\ \A i \in DOMAIN stage : stage[i] \in Sections
  BY <1>2, <1>3, StageFacts DEF End
<1>5. /\ tag \in 1 .. End /\ (tag \in DOMAIN stage \/ tag = End)
      /\ Mode(tag) # "none" => tag \in DOMAIN stage /\ Mode(tag) = stage[tag].mode
      /\ Mode(tag) = "none" => tag = End
  BY <1>1, <1>2, <1>3, TagFacts
<1>6. now # 0 /\ tag # 0
  BY <1>1, <1>2, <1>5 DEF Where
<1>7. CASE tag' = tag
  <2>1. TypeOK' /\ k \in FilesOf(tag)' /\ Loaded(k)' /\ At(k)'
    BY <1>1, <1>2, <1>7 DEF IInv, TypeOK, End, FilesOf, Loaded, Done, At, InArchive, InCache, Behind
  <2>2. \/ pc' = "away"
        \/ tag <= now /\ Mode(tag) = "archive" /\ pc' = "archive"
        \/ tag <= now /\ Mode(tag) = "cache" /\ pc' = "cache"
        \/ tag = End /\ pc' = "sync"
    BY <1>5, <1>7 DEF LoadStageFiles, Goto
  <2>3. Mode(tag)' = Mode(tag)
    BY <1>2, <1>7 DEF Mode, End
  <2>4. tag = End => Behind'
    BY <1>2, <1>4, <1>7 DEF Behind
  <2>5. Where(k)'
    BY <1>1, <1>2, <1>5, <1>7, <2>2, <2>3, <2>4 DEF Where, Labels
  <2> QED BY <1>2, <2>1, <2>5, DiskStays
<1>8. CASE tag' # tag
  <2>1. tag <= now /\ Mode(tag) = "sound" /\ tag' = tag + 1 /\ pc' = "loop"
    BY <1>2, <1>8 DEF LoadStageFiles
  <2>2. tag \in DOMAIN stage /\ stage[tag].mode = "sound"
    BY <1>5, <2>1
  <2>3. k = 1 /\ (mark = 2 \/ (mark = 1 /\ Behind))
    BY <1>1, <1>3, <2>2, AtFacts
  <2>4. tag + 1 \in 1 .. End
    BY <1>4, <2>2
  <2>5. TypeOK'
    BY <1>2, <1>3, <1>4, <2>1, <2>4 DEF TypeOK
  <2>6. 1 \in FilesOf(tag)'
    <3>1. tag + 1 \in DOMAIN stage => 1 \in DOMAIN stage[tag + 1].files
      BY <1>4, OffsetFacts
    <3> QED BY <1>2, <2>1, <3>1 DEF FilesOf
  <2>7. Loaded(1)'
    <3>1. ASSUME NEW f \in Files(stage) PROVE Before(f, <<tag + 1, 1>>) <=> Before(f, <<tag, 1>>)
      <4>1. f[1] \in 1 .. Len(stage) /\ f[2] \in Nat /\ f[2] >= 1 /\ f[1] # tag
        <5>1. f[1] \in DOMAIN stage /\ f[2] \in 1 .. Len(stage[f[1]].files) /\ stage[f[1]].mode # "sound"
          BY <1>3, FileFacts
        <5>2. Len(stage[f[1]].files) \in Nat
          BY <1>4, <5>1, OffsetFacts
        <5> QED BY <1>4, <2>2, <5>1, <5>2
      <4> QED BY <1>4, <2>2, <4>1 DEF Before
    <3>2. \A n \in DOMAIN loaded : loaded[n] \in Files(stage)
      BY <1>1 DEF Loaded
    <3> QED BY <1>1, <1>2, <2>1, <2>3, <3>1, <3>2 DEF Loaded, Done
  <2>8. At(1)'
    <3>1. Behind => Behind'
      BY <1>2, <1>4, <2>1, <2>2 DEF Behind
    <3> QED BY <1>2, <2>3, <3>1 DEF At
  <2>9. Where(1)'
    <3>1. tag + 1 <= now + 1 /\ tag + 1 > 0 /\ tag + 1 # 0
      BY <1>4, <2>1, <2>2
    <3> QED BY <1>2, <1>6, <2>1, <3>1 DEF Where, Labels
  <2> QED BY <1>2, <2>5, <2>6, <2>7, <2>8, <2>9, DiskStays
<1> QED BY <1>7, <1>8

LEMMA BeginArchiveKeeps == ASSUME IInv, BeginArchive, UNCHANGED <<stage, diskVars>> PROVE IInv'
<1>1. PICK k \in FilesOf(tag) : Loaded(k) /\ At(k) /\ Where(k)
  BY DEF IInv
<1>2. /\ UNCHANGED <<stage, pos, mem, now, buffer, left, start2, end2, tag, file, reads, limit,
                     loaded, split>>
      /\ pc = "archive" /\ pc' = "look"
      /\ IF mark # 0 THEN mark' = 0 /\ current' = start2 /\ remaining' = Size(stage[tag])
                     ELSE UNCHANGED <<mark, current, remaining>>
  BY DEF BeginArchive, diskVars, Goto
<1>3. Disk /\ TypeOK /\ Begun
  BY DEF IInv
<1>4. tag <= now /\ Mode(tag) = "archive" /\ tag \in DOMAIN stage /\ stage[tag].mode = "archive"
  BY <1>1, <1>2, <1>3, TagFacts DEF Where
<1>5. /\ stage \in Layouts /\ Fits(stage) /\ Len(stage) \in Nat /\ DOMAIN stage = 1 .. Len(stage)
      /\ now \in 0 .. End /\ stage[tag] \in Sections
  BY <1>3, <1>4, StageFacts
<1>6. IF mark = 0 THEN InArchive(k) ELSE mark = 2 /\ k = 1
  BY <1>1, <1>3, <1>4, AtFacts
<1>7. start2 = Place(stage[tag]) \/ mark = 0
  <2>1. SUFFICES ASSUME mark # 0 PROVE start2 = Place(stage[tag])
    OBVIOUS
  <2>2. ASSUME NEW j \in Archives(stage), j <= now, ~(j <= tag) PROVE FALSE
    <3>1. tag < j
      BY <1>4, <1>5, <2>2 DEF Archives
    <3>2. <<tag, 1>> \in Done
      BY <1>3, <1>4, <2>2, <3>1 DEF Begun, Archives
    <3>3. Before(<<tag, 1>>, <<tag, 1>>)
      BY <1>1, <1>6, <2>1, <3>2 DEF Loaded, Done
    <3> QED BY <1>4, <1>5, <3>3 DEF Before
  <2> QED BY <1>3, <1>4, <2>2 DEF Begun, Archives
<1>8. Place(stage[tag]) \in 0 .. Memory - 1 /\ Place(stage[tag]) \in Nat /\ Size(stage[tag]) \in Nat
      /\ Offset(stage[tag], 1) = 0
  BY <1>4, <1>5, PlaceFacts, OffsetFacts
<1>9. TypeOK'
  BY <1>2, <1>3, <1>7, <1>8 DEF TypeOK, End
<1>10. InArchive(k)'
  <2>1. CASE mark = 0
    BY <1>2, <1>6, <2>1 DEF InArchive, Archives
  <2>2. CASE mark # 0
    BY <1>2, <1>4, <1>6, <1>7, <1>8, <2>2 DEF InArchive, Archives
  <2> QED BY <2>1, <2>2
<1>11. k \in FilesOf(tag)' /\ Loaded(k)' /\ At(k)'
  BY <1>1, <1>2, <1>10 DEF FilesOf, Loaded, Done, At
<1>12. Where(k)'
  <2>1. Mode(tag)' = Mode(tag) /\ mark' = 0
    BY <1>2 DEF Mode, End
  <2> QED BY <1>1, <1>2, <2>1 DEF Where, Labels
<1> QED BY <1>2, <1>9, <1>11, <1>12, DiskStays

LEMMA LookAtSectionKeeps == ASSUME IInv, LookAtSection, UNCHANGED <<stage, diskVars>> PROVE IInv'
<1>1. PICK k \in FilesOf(tag) : Loaded(k) /\ At(k) /\ Where(k)
  BY DEF IInv
<1>2. /\ UNCHANGED <<stage, pos, mem, now, buffer, left, start2, end2, tag, file, mark, current,
                     remaining, limit, loaded, split>>
      /\ pc = "look" /\ pc' = "limit" /\ reads' = (tag >= now)
  BY DEF LookAtSection, Look, diskVars, Goto
<1>3. TypeOK' /\ k \in FilesOf(tag)' /\ Loaded(k)' /\ At(k)'
  BY <1>1, <1>2 DEF IInv, TypeOK, End, FilesOf, Loaded, Done, At, InArchive, InCache, Behind
<1>4. ~reads' => now > tag
  <2>1. tag \in Int /\ now \in Int
    BY DEF IInv, TypeOK
  <2>2. ~(tag >= now) => now > tag
    BY <2>1
  <2> QED BY <1>2, <2>2, Zenon
<1>5. Mode(tag)' = Mode(tag)
  BY <1>2 DEF Mode, End
<1>6. Where(k)'
  BY <1>1, <1>2, <1>4, <1>5 DEF Where, Labels
<1> QED BY <1>2, <1>3, <1>6, DiskStays

LEMMA TakeLimitKeeps == ASSUME IInv, TakeLimit, UNCHANGED <<stage, diskVars>> PROVE IInv'
<1>1. PICK k \in FilesOf(tag) : Loaded(k) /\ At(k) /\ Where(k)
  BY DEF IInv
<1>2. /\ UNCHANGED <<stage, pos, mem, now, buffer, left, start2, end2, tag, file, mark, current,
                     remaining, reads, loaded, split>>
      /\ pc = "limit" /\ pc' = "next" /\ limit' = IF reads THEN end2 ELSE Memory
  BY DEF TakeLimit, diskVars, Goto
<1>3. Disk /\ TypeOK
  BY DEF IInv
<1>4. TypeOK' /\ k \in FilesOf(tag)' /\ Loaded(k)' /\ At(k)'
  <2>1. Memory \in Nat
    BY StageAssumption
  <2>2. limit' \in 0 .. Memory
    BY <1>2, <1>3, <2>1 DEF TypeOK
  <2> QED BY <1>1, <1>2, <1>3, <2>2 DEF TypeOK, End, FilesOf, Loaded, Done, At, InArchive, InCache, Behind
<1>5. tag <= now /\ Mode(tag) = "archive" /\ tag \in DOMAIN stage /\ stage[tag].mode = "archive"
      /\ (~reads => now > tag)
  BY <1>1, <1>2, <1>3, TagFacts DEF Where
<1>6. now > tag \/ limit' <= Place(stage[tag]) + Got(tag)
  <2>1. SUFFICES ASSUME ~(now > tag) PROVE limit' <= Place(stage[tag]) + Got(tag)
    OBVIOUS
  <2>2. now = tag /\ now \in 1 .. Len(stage)
    BY <1>3, <1>5, <2>1, StageFacts
  <2>3. end2 = Place(stage[tag]) + Got(tag)
    BY <1>3, <1>5, <2>2 DEF Disk, Reads
  <2>4. limit' = end2 /\ end2 \in Nat
    BY <1>2, <1>3, <1>5, <2>1 DEF TypeOK
  <2> QED BY <2>3, <2>4
<1>7. InLimit' /\ Mode(tag)' = Mode(tag)
  BY <1>2, <1>6 DEF InLimit, Got, Mode, End
<1>8. Where(k)'
  BY <1>1, <1>2, <1>7 DEF Where, Labels
<1> QED BY <1>2, <1>4, <1>8, DiskStays

\* A loader in an archive that has room below its limit is at a file whose head has come.
LEMMA HeadFacts ==
  ASSUME Disk, TypeOK, InMemory, NEW k \in FilesOf(tag), Loaded(k), At(k), Where(k), pc \in {"next", "load"}
  PROVE  /\ tag <= now /\ tag \in DOMAIN stage /\ stage[tag].mode = "archive" /\ InArchive(k)
         /\ <<tag, k>> \in Files(stage) /\ <<tag, k>> \notin Done
         /\ limit >= current + 1 => mem[current] = <<tag, Offset(stage[tag], k)>>
         /\ current + stage[tag].files[k] <= limit => Here(tag, k)
<1>1. tag <= now /\ Mode(tag) = "archive" /\ tag \in DOMAIN stage /\ stage[tag].mode = "archive" /\ mark = 0
      /\ InLimit
  BY TagFacts DEF Where
<1>2. InArchive(k) /\ <<tag, k>> \in Files(stage)
  BY <1>1, AtFacts
<1> DEFINE f == <<tag, k>>
           s == stage[tag]
<1>3. /\ Place(s) \in Nat /\ Offset(s, k) \in Nat /\ s.files[k] \in Nat \ {0}
      /\ Offset(s, k + 1) = Offset(s, k) + s.files[k]
      /\ Offset(s, k + 1) <= Size(s) /\ Size(s) \in Nat
  <2>1. f \in Files(stage) /\ f[1] = tag /\ f[2] = k
    BY <1>2
  <2> HIDE DEF f
  <2> QED BY <2>1, FileFacts
<1>4. f \notin Done
  <2>1. tag \in Nat /\ k \in Nat
    BY <1>1, <1>2, StageFacts, AtFacts
  <2>2. ~Before(f, f)
    BY <2>1 DEF Before
  <2> QED BY <2>2 DEF Loaded, Done
<1>5. current = Place(s) + Offset(s, k) /\ limit \in Nat
  BY <1>2 DEF InArchive, TypeOK
<1>6. Got(tag) \in Int /\ (now > tag => Size(s) <= Got(tag))
  <2>1. tag \in Int /\ now \in Int
    BY DEF TypeOK
  <2> QED BY <1>1, <2>1, GotFacts
<1>7. now > tag \/ limit <= Place(s) + Got(tag)
  BY <1>1 DEF InLimit
<1> HIDE DEF s
<1>8. ASSUME limit >= current + 1 PROVE Offset(s, k) < Got(tag)
  BY <1>3, <1>5, <1>6, <1>7, <1>8
<1>9. ASSUME limit >= current + 1 PROVE mem[current] = <<tag, Offset(s, k)>>
  <2> DEFINE c == Offset(s, k)
  <2>1. c \in Offset(s, k) .. Offset(s, k + 1) - 1
    BY <1>3
  <2>2. f \in Files(stage) /\ f[1] = tag /\ f[2] = k
    BY <1>2
  <2> HIDE DEF f
  <2>3. c < Got(tag)
    BY <1>8, <1>9
  <2> HIDE DEF c
  <2>4. mem[Place(s) + c] = <<tag, c>>
    BY <1>4, <2>1, <2>2, <2>3 DEF InMemory, s
  <2> QED BY <1>5, <2>4 DEF c
<1>10. ASSUME current + s.files[k] <= limit PROVE Offset(s, k + 1) <= Got(tag)
  BY <1>3, <1>5, <1>6, <1>7, <1>10
<1> QED BY <1>1, <1>2, <1>4, <1>9, <1>10 DEF Here, s

LEMMA NextInArchiveKeeps == ASSUME IInv, NextInArchive, UNCHANGED <<stage, diskVars>> PROVE IInv'
<1>1. PICK k \in FilesOf(tag) : Loaded(k) /\ At(k) /\ Where(k)
  BY DEF IInv
<1>2. /\ UNCHANGED <<stage, pos, mem, now, buffer, left, start2, end2, tag, mark, current,
                     remaining, reads, limit, loaded, split>>
      /\ pc = "next"
  BY DEF NextInArchive, diskVars, unlessTag
<1>3. Disk /\ TypeOK /\ InMemory
  BY DEF IInv
<1>4. /\ tag <= now /\ tag \in DOMAIN stage /\ stage[tag].mode = "archive" /\ InArchive(k)
      /\ <<tag, k>> \in Files(stage)
      /\ limit >= current + 1 => mem[current] = <<tag, Offset(stage[tag], k)>>
      /\ current + stage[tag].files[k] <= limit => Here(tag, k)
  BY <1>1, <1>2, <1>3, HeadFacts
<1>5. k \in 1 .. Len(stage[tag].files) /\ stage[tag] \in Sections /\ Len(stage[tag].files) \in Nat
  BY <1>1, <1>3, <1>4, AtFacts, StageFacts, OffsetFacts
<1>6. FileOf(tag, <<tag, Offset(stage[tag], k)>>) = k
  <2> DEFINE P(j) == j \in 1 .. Len(stage[tag].files) /\ Offset(stage[tag], j) = Offset(stage[tag], k)
  <2>1. ASSUME NEW j, P(j) PROVE j = k
    <3>1. \A a, b \in 1 .. Len(stage[tag].files) + 1 : a < b => Offset(stage[tag], a) < Offset(stage[tag], b)
      BY <1>5, OffsetFacts
    <3>2. j \in 1 .. Len(stage[tag].files) + 1 /\ k \in 1 .. Len(stage[tag].files) + 1
          /\ Offset(stage[tag], k) \in Nat
      BY <1>5, <2>1, OffsetFacts
    <3>3. j < k \/ k < j \/ j = k
      BY <3>2
    <3> QED BY <2>1, <3>1, <3>2, <3>3
  <2>2. P(k)
    BY <1>5
  <2>3. FileOf(tag, <<tag, Offset(stage[tag], k)>>) = CHOOSE j : P(j)
    BY Zenon DEF FileOf
  <2> HIDE DEF P
  <2> QED BY <2>1, <2>2, <2>3, Zenon
<1>7. mem[current] \in Heads(tag) \/ ~(limit >= current + 1)
  BY <1>4, <1>5 DEF Heads
<1>8. current \in Int /\ limit \in Int /\ stage[tag].files[k] \in Int
  BY <1>3, <1>5, OffsetFacts DEF TypeOK
<1>9. \/ pc' = "away" /\ file' = file
      \/ pc' = "load" /\ file' = k /\ Here(tag, k)
  <2>1. CASE limit < current + 1
    BY <1>8, <2>1 DEF NextInArchive, Goto
  <2>2. CASE ~(limit < current + 1)
    <3>1. limit >= current + 1 /\ mem[current] \in Heads(tag) /\ FileOf(tag, mem[current]) = k
      BY <1>4, <1>6, <1>7, <1>8, <2>2
    <3>2. IF current + stage[tag].files[k] > limit THEN pc' = "away" /\ file' = file
                                                  ELSE pc' = "load" /\ file' = k
      BY <2>2, <3>1 DEF NextInArchive, Goto
    <3> QED BY <1>4, <1>8, <3>2
  <2> QED BY <2>1, <2>2
<1>10. k \in FilesOf(tag)' /\ Loaded(k)' /\ At(k)'
  BY <1>1, <1>2, <1>4 DEF FilesOf, Loaded, Done, At, InArchive
<1>11. TypeOK'
  BY <1>2, <1>3 DEF TypeOK, End
<1>12. Where(k)'
  <2>1. Mode(tag)' = Mode(tag) /\ (InLimit => InLimit') /\ (Here(tag, k) => Here(tag, k)')
    BY <1>2 DEF Mode, End, InLimit, Here, Got
  <2> QED BY <1>1, <1>2, <1>9, <2>1 DEF Where, Labels
<1> QED BY <1>2, <1>10, <1>11, <1>12, DiskStays

\* The loader of file k has returned: the next file is the one behind it.
LEMMA LoadedNext ==
  ASSUME Disk, stage' = stage, NEW k \in FilesOf(tag), At(k), Loaded(k), tag \in DOMAIN stage,
         stage[tag].mode # "sound", loaded' = Append(loaded, <<tag, k>>)
  PROVE  /\ Done' = Done \cup {<<tag, k>>}
         /\ tag' = tag /\ k # Len(stage[tag].files) =>
              Loaded(k + 1)' /\ k + 1 \in FilesOf(tag)' /\ k + 1 \in 1 .. Len(stage[tag].files)
         /\ tag' = tag + 1 /\ k = Len(stage[tag].files) => Loaded(1)' /\ 1 \in FilesOf(tag)'
<1> DEFINE g == <<tag, k>>
           len == Len(stage[tag].files)
<1>1. /\ Len(stage) \in Nat /\ DOMAIN stage = 1 .. Len(stage)
      /\ \A i \in DOMAIN stage : stage[i] \in Sections
  BY StageFacts
<1>2. g \in Files(stage) /\ k \in 1 .. len
  BY AtFacts
<1>3. len \in Nat /\ \A i \in DOMAIN stage : Len(stage[i].files) \in Nat \ {0}
                                           /\ DOMAIN stage[i].files = 1 .. Len(stage[i].files)
  BY <1>1, OffsetFacts
<1>4. /\ loaded \in Seq(Files(stage)) /\ Len(loaded) \in Nat /\ DOMAIN loaded = 1 .. Len(loaded)
      /\ \A n \in DOMAIN loaded : Before(loaded[n], g)
      /\ \A f \in Files(stage) : Before(f, g) => f \in Done
      /\ \A m, n \in DOMAIN loaded : m < n => Before(loaded[m], loaded[n])
  <2>1. loaded \in Seq(Files(stage))
    BY DEF Loaded
  <2>2. Len(loaded) \in Nat /\ DOMAIN loaded = 1 .. Len(loaded)
    BY <2>1
  <2> QED BY <2>1, <2>2, Zenon DEF Loaded
<1> HIDE DEF g
<1>5. /\ loaded' \in Seq(Files(stage)) /\ DOMAIN loaded' = 1 .. Len(loaded) + 1
      /\ \A n \in 1 .. Len(loaded) : loaded'[n] = loaded[n]
      /\ loaded'[Len(loaded) + 1] = g
  BY <1>2, <1>4 DEF g
<1>6. Done' = Done \cup {g}
  BY <1>4, <1>5 DEF Done
<1>7. ASSUME NEW m \in DOMAIN loaded', NEW n \in DOMAIN loaded', m < n
      PROVE  Before(loaded'[m], loaded'[n])
  <2>1. CASE n \in 1 .. Len(loaded)
    BY <1>4, <1>5, <1>7, <2>1
  <2>2. CASE n = Len(loaded) + 1
    <3>1. m \in 1 .. Len(loaded)
      BY <1>4, <1>5, <1>7, <2>2
    <3> QED BY <1>4, <1>5, <2>2, <3>1
  <2> QED BY <1>4, <1>5, <2>1, <2>2
<1>8. ASSUME NEW h, \A f \in Files(stage) : Before(f, h) <=> Before(f, g) \/ f = g
      PROVE  /\ \A n \in DOMAIN loaded' : Before(loaded'[n], h)
             /\ \A f \in Files(stage) : Before(f, h) => f \in Done'
  <2>1. ASSUME NEW n \in DOMAIN loaded' PROVE Before(loaded'[n], h)
    <3>1. loaded'[n] \in Files(stage)
      BY <1>5
    <3>2. CASE n \in 1 .. Len(loaded)
      BY <1>4, <1>5, <1>8, <3>1, <3>2
    <3>3. CASE n = Len(loaded) + 1
      BY <1>5, <1>8, <3>1, <3>3
    <3> QED BY <1>4, <1>5, <3>2, <3>3
  <2> QED BY <1>4, <1>6, <1>8, <2>1
<1>9. ASSUME NEW f \in Files(stage)
      PROVE  /\ f[1] \in 1 .. Len(stage) /\ f[2] \in Nat /\ f[2] >= 1 /\ f = <<f[1], f[2]>>
             /\ (f[1] = tag => f[2] <= len)
             /\ (f = g <=> f[1] = tag /\ f[2] = k)
             /\ (Before(f, g) <=> f[1] < tag \/ (f[1] = tag /\ f[2] < k))
  <2>1. f[1] \in DOMAIN stage /\ f[2] \in 1 .. Len(stage[f[1]].files) /\ f = <<f[1], f[2]>>
    BY FileFacts
  <2>2. f[1] \in 1 .. Len(stage) /\ f[2] \in Nat /\ f[2] >= 1 /\ (f[1] = tag => f[2] <= len)
    BY <1>1, <1>3, <2>1
  <2>3. g[1] = tag /\ g[2] = k /\ (f = g <=> f[1] = tag /\ f[2] = k)
    BY <2>1 DEF g
  <2> QED BY <2>1, <2>2, <2>3 DEF Before
<1>10. ASSUME tag' = tag, k # len
       PROVE  Loaded(k + 1)' /\ k + 1 \in FilesOf(tag)' /\ k + 1 \in 1 .. len
  <2>1. k + 1 \in 1 .. len
    BY <1>2, <1>3, <1>10
  <2>2. k + 1 \in FilesOf(tag)'
    BY <1>3, <1>10, <2>1 DEF FilesOf
  <2>3. ASSUME NEW f \in Files(stage)
        PROVE  Before(f, <<tag, k + 1>>) <=> Before(f, g) \/ f = g
    <3>1. tag \in Nat /\ k \in Nat
      BY <1>1, <1>2
    <3> HIDE DEF len
    <3> QED BY <1>9, <3>1 DEF Before
  <2>4. /\ \A n \in DOMAIN loaded' : Before(loaded'[n], <<tag, k + 1>>)
        /\ \A f \in Files(stage) : Before(f, <<tag, k + 1>>) => f \in Done'
    BY <1>8, <2>3
  <2> QED BY <1>5, <1>7, <1>10, <2>1, <2>2, <2>4 DEF Loaded
<1>11. ASSUME tag' = tag + 1, k = len
       PROVE  Loaded(1)' /\ 1 \in FilesOf(tag)'
  <2>1. 1 \in FilesOf(tag)'
    BY <1>3, <1>11 DEF FilesOf
  <2>2. ASSUME NEW f \in Files(stage)
        PROVE  Before(f, <<tag + 1, 1>>) <=> Before(f, g) \/ f = g
    <3>1. tag \in Nat /\ k \in Nat /\ len \in Nat
      BY <1>1, <1>2, <1>3
    <3> HIDE DEF len
    <3> QED BY <1>9, <1>11, <3>1 DEF Before
  <2>3. /\ \A n \in DOMAIN loaded' : Before(loaded'[n], <<tag + 1, 1>>)
        /\ \A f \in Files(stage) : Before(f, <<tag + 1, 1>>) => f \in Done'
    BY <1>8, <2>2
  <2> QED BY <1>5, <1>7, <1>11, <2>1, <2>3 DEF Loaded
<1> QED BY <1>6, <1>10, <1>11 DEF g

\* What the loader leaves alone when it loads a file that has come.
LEMMA DiskLoads ==
  ASSUME IInv, UNCHANGED <<stage, diskVars>>, NEW i, NEW j, Here(i, j),
         Done' = Done \cup {<<i, j>>}, Splits', TypeOK',
         NEW k \in FilesOf(tag)', Loaded(k)', At(k)', Where(k)'
  PROVE  IInv'
<1>1. UNCHANGED <<stage, pos, mem, now, buffer, left, start2, end2>>
  BY DEF diskVars
<1>2. Disk'
  BY <1>1 DEF IInv, Disk, Reads, Got, End
<1>3. \A f \in Done' : Here(f[1], f[2])
  BY DEF IInv, InMemory
<1>4. InMemory'
  <2>1. \A f \in Done' : Here(f[1], f[2])'
    BY <1>1, <1>3 DEF Here, Got
  <2> QED BY <1>1, <2>1 DEF IInv, InMemory, Got
<1>5. Begun'
  BY <1>1 DEF IInv, Begun
<1> QED BY <1>2, <1>4, <1>5 DEF IInv

LEMMA LoadedFromArchiveKeeps == ASSUME IInv, LoadedFromArchive, UNCHANGED <<stage, diskVars>> PROVE IInv'
<1>1. PICK k \in FilesOf(tag) : Loaded(k) /\ At(k) /\ Where(k)
  BY DEF IInv
<1>2. /\ UNCHANGED <<stage, pos, mem, now, buffer, left, start2, end2, file, reads, limit, split>>
      /\ pc = "load"
  BY DEF LoadedFromArchive, diskVars
<1>3. Disk /\ TypeOK /\ InMemory /\ Splits
  BY DEF IInv
<1>4. /\ tag <= now /\ tag \in DOMAIN stage /\ stage[tag].mode = "archive" /\ InArchive(k)
      /\ file = k /\ Here(tag, k) /\ Mode(tag) = "archive"
  BY <1>1, <1>2, <1>3, HeadFacts DEF Where
<1> DEFINE s == stage[tag]
           len == Len(s.files)
<1>5. /\ Len(stage) \in Nat /\ DOMAIN stage = 1 .. Len(stage) /\ End = Len(stage) + 1 /\ s \in Sections
      /\ now \in 0 .. End /\ Place(s) \in Nat /\ Place(s) + Size(s) <= Memory
  <2>1. /\ stage \in Layouts /\ Fits(stage) /\ s \in Sections /\ now \in 0 .. End
        /\ Len(stage) \in Nat /\ DOMAIN stage = 1 .. Len(stage) /\ End = Len(stage) + 1
    BY <1>3, <1>4, StageFacts
  <2>2. <<tag, k>> \in Files(stage)
    BY <1>1, <1>3, <1>4, AtFacts
  <2> DEFINE f == <<tag, k>>
  <2>3. f \in Files(stage) /\ f[1] = tag
    BY <2>2
  <2> HIDE DEF f
  <2> QED BY <1>3, <2>1, <2>3, FileFacts
<1>6. k \in 1 .. len /\ len \in Nat \ {0}
  BY <1>1, <1>3, <1>4, <1>5, AtFacts, OffsetFacts
<1>7. /\ Offset(s, k) \in Nat /\ Offset(s, k + 1) \in Nat /\ s.files[k] \in Nat \ {0}
      /\ Offset(s, k + 1) = Offset(s, k) + s.files[k]
      /\ Size(s) = Offset(s, len + 1) /\ Size(s) \in Nat
      /\ k # len => Offset(s, k + 1) < Size(s)
  <2>1. k + 1 \in 1 .. len + 1 /\ len + 1 \in 1 .. len + 1 /\ k \in 1 .. len + 1 /\ (k # len => k + 1 < len + 1)
    BY <1>6
  <2> QED BY <1>5, <1>6, <2>1, OffsetFacts DEF Size
<1>8. current = Place(s) + Offset(s, k) /\ remaining = Size(s) - Offset(s, k) /\ mark = 0
  BY <1>4 DEF InArchive
<1> HIDE DEF s, len
<1>9. remaining - s.files[k] = Size(s) - Offset(s, k + 1) /\ current + s.files[k] = Place(s) + Offset(s, k + 1)
      /\ (remaining - s.files[k] <= 0 <=> k = len)
  <2>1. /\ Place(s) \in Nat /\ Offset(s, k) \in Nat /\ Offset(s, k + 1) \in Nat /\ s.files[k] \in Nat \ {0}
        /\ Size(s) \in Nat /\ Offset(s, k + 1) = Offset(s, k) + s.files[k]
    BY <1>5, <1>7
  <2>2. remaining - s.files[k] = Size(s) - Offset(s, k + 1) /\ current + s.files[k] = Place(s) + Offset(s, k + 1)
    BY <1>8, <2>1
  <2>3. k = len => Offset(s, k + 1) = Size(s)
    BY <1>7
  <2>4. k # len => Offset(s, k + 1) < Size(s)
    BY <1>7
  <2> QED BY <2>1, <2>2, <2>3, <2>4
<1>10. /\ loaded' = Append(loaded, <<tag, k>>) /\ remaining' = remaining - s.files[k]
       /\ \/ k = len /\ pc' = "loop" /\ mark' = 2 /\ tag' = tag + 1 /\ current' = current
          \/ k # len /\ pc' = "next" /\ current' = current + s.files[k] /\ mark' = mark /\ tag' = tag
  BY <1>4, <1>9 DEF LoadedFromArchive, Goto, s
<1>11. /\ Done' = Done \cup {<<tag, k>>}
       /\ tag' = tag /\ k # len => Loaded(k + 1)' /\ k + 1 \in FilesOf(tag)'
       /\ tag' = tag + 1 /\ k = len => Loaded(1)' /\ 1 \in FilesOf(tag)'
  BY <1>1, <1>2, <1>3, <1>4, <1>10, LoadedNext DEF s, len
<1>12. Splits'
  BY <1>2, <1>3 DEF Splits
<1>13. End' = End /\ tag + 1 \in 0 .. End
  BY <1>2, <1>4, <1>5 DEF End
<1>14. tag \in Nat /\ now \in Nat /\ tag # 0 /\ now # 0
  BY <1>4, <1>5
<1>15. CASE k = len
  <2>1. pc' = "loop" /\ mark' = 2 /\ tag' = tag + 1 /\ current' = current
    BY <1>10, <1>15
  <2>2. TypeOK'
    BY <1>2, <1>3, <1>13, <2>1 DEF TypeOK
  <2>3. At(1)'
    BY <2>1 DEF At
  <2>4. Where(1)'
    BY <1>2, <1>4, <1>14, <2>1 DEF Where, Labels
  <2> QED BY <1>4, <1>11, <1>12, <1>15, <2>1, <2>2, <2>3, <2>4, DiskLoads
<1>16. CASE k # len
  <2>1. pc' = "next" /\ current' = current + s.files[k] /\ mark' = 0 /\ tag' = tag
    BY <1>8, <1>10, <1>16
  <2>2. current' \in 0 .. Memory - 1
    <3>1. /\ Place(s) \in Nat /\ Offset(s, k + 1) \in Nat /\ Size(s) \in Nat /\ Memory \in Nat
          /\ Offset(s, k + 1) < Size(s) /\ Place(s) + Size(s) <= Memory
          /\ current' = Place(s) + Offset(s, k + 1)
      BY <1>5, <1>7, <1>9, <1>16, <2>1, StageAssumption
    <3> QED BY <3>1
  <2>3. TypeOK'
    BY <1>2, <1>3, <1>13, <2>1, <2>2 DEF TypeOK
  <2>4. At(k + 1)'
    BY <1>2, <1>4, <1>9, <1>10, <2>1 DEF At, InArchive, Archives, s
  <2>5. Where(k + 1)'
    <3>1. Mode(tag)' = Mode(tag) /\ (InLimit => InLimit')
      BY <1>2, <2>1 DEF Mode, End, InLimit, Got
    <3> QED BY <1>1, <1>2, <1>4, <2>1, <3>1 DEF Where, Labels
  <2> QED BY <1>4, <1>11, <1>12, <1>16, <2>1, <2>3, <2>4, <2>5, DiskLoads
<1> QED BY <1>15, <1>16

\* A loader in the cache.
LEMMA CacheFacts ==
  ASSUME Disk, TypeOK, NEW k \in FilesOf(tag), At(k), Where(k),
         pc \in {"cache", "lookCache", "endCache", "loadCache"}
  PROVE  /\ tag <= now /\ tag \in DOMAIN stage /\ stage[tag].mode = "cache" /\ Mode(tag) = "cache"
         /\ IF mark = 1 THEN InCache(k) ELSE mark = 2 /\ k = 1 /\ pc = "cache"
         /\ <<tag, k>> \in Files(stage) /\ k \in 1 .. Len(stage[tag].files)
         /\ now \in Nat /\ tag \in Nat /\ tag # 0 /\ now # 0
         /\ Place(stage[tag]) = Conf /\ Conf \in 0 .. Memory - 1
<1>1. tag <= now /\ tag \in DOMAIN stage /\ stage[tag].mode = "cache" /\ Mode(tag) = "cache"
  BY TagFacts DEF Where
<1>2. now \in Nat /\ tag \in Nat /\ tag # 0 /\ now # 0
  BY <1>1, StageFacts
<1>3. Place(stage[tag]) = Conf /\ Conf \in 0 .. Memory - 1
  <2>1. Place(stage[tag]) = Conf /\ Place(stage[tag]) \in 0 .. Memory - 1
    BY <1>1, StageFacts, PlaceFacts
  <2> QED BY <2>1
<1> QED BY <1>1, <1>2, <1>3, AtFacts DEF Where

LEMMA BeginCacheKeeps == ASSUME IInv, BeginCache, UNCHANGED <<stage, diskVars>> PROVE IInv'
<1>1. PICK k \in FilesOf(tag) : Loaded(k) /\ At(k) /\ Where(k)
  BY DEF IInv
<1>2. /\ UNCHANGED <<stage, pos, mem, now, buffer, left, start2, end2, tag, remaining, reads, limit,
                     loaded, split>>
      /\ pc = "cache" /\ pc' = "lookCache"
      /\ IF mark # 1 THEN mark' = 1 /\ current' = Conf /\ file' = 1 ELSE UNCHANGED <<mark, current, file>>
  BY DEF BeginCache, diskVars, Goto
<1>3. Disk /\ TypeOK
  BY DEF IInv
<1>4. /\ tag <= now /\ tag \in DOMAIN stage /\ stage[tag].mode = "cache" /\ Mode(tag) = "cache"
      /\ IF mark = 1 THEN InCache(k) ELSE mark = 2 /\ k = 1
      /\ Conf \in 0 .. Memory - 1
  BY <1>1, <1>2, <1>3, CacheFacts
<1>5. TypeOK'
  BY <1>2, <1>3, <1>4 DEF TypeOK, End
<1>6. k \in FilesOf(tag)' /\ Loaded(k)' /\ At(k)'
  BY <1>1, <1>2, <1>4 DEF FilesOf, Loaded, Done, At, InCache
<1>7. Where(k)'
  <2>1. Mode(tag)' = Mode(tag) /\ mark' = 1
    BY <1>2 DEF Mode, End
  <2> QED BY <1>1, <1>2, <2>1 DEF Where, Labels
<1> QED BY <1>2, <1>5, <1>6, <1>7, DiskStays

LEMMA LookAtCacheKeeps == ASSUME IInv, LookAtCache, UNCHANGED <<stage, diskVars>> PROVE IInv'
<1>1. PICK k \in FilesOf(tag) : Loaded(k) /\ At(k) /\ Where(k)
  BY DEF IInv
<1>2. /\ UNCHANGED <<stage, pos, mem, now, buffer, left, start2, end2, tag, file, mark, current,
                     remaining, reads, limit, loaded, split>>
      /\ pc = "lookCache" /\ pc' = IF Mode(now) # "cache" THEN "loadCache" ELSE "endCache"
  BY DEF LookAtCache, diskVars, unlessTag, Goto
<1>3. Disk /\ TypeOK
  BY DEF IInv
<1>4. TypeOK' /\ k \in FilesOf(tag)' /\ Loaded(k)' /\ At(k)'
  BY <1>1, <1>2 DEF IInv, TypeOK, End, FilesOf, Loaded, Done, At, InArchive, InCache, Behind
<1>5. /\ tag <= now /\ tag \in DOMAIN stage /\ stage[tag].mode = "cache" /\ Mode(tag) = "cache"
      /\ k \in 1 .. Len(stage[tag].files) /\ now \in Nat /\ tag \in Nat
  BY <1>1, <1>2, <1>3, CacheFacts
<1>6. pc' = "loadCache" => Here(tag, k)
  <2>1. SUFFICES ASSUME Mode(now) # "cache" PROVE Here(tag, k)
    BY <1>2
  <2>2. tag < now
    BY <1>5, <2>1
  <2> QED BY <1>3, <1>5, <2>2, HereBefore
<1>7. Where(k)'
  <2>1. Mode(tag)' = Mode(tag) /\ (Here(tag, k) => Here(tag, k)')
    BY <1>2 DEF Mode, End, Here, Got
  <2> QED BY <1>1, <1>2, <1>6, <2>1 DEF Where, Labels
<1> QED BY <1>2, <1>4, <1>7, DiskStays

LEMMA EndOfCacheKeeps == ASSUME IInv, EndOfCache, UNCHANGED <<stage, diskVars>> PROVE IInv'
<1>1. PICK k \in FilesOf(tag) : Loaded(k) /\ At(k) /\ Where(k)
  BY DEF IInv
<1>2. /\ UNCHANGED <<stage, pos, mem, now, buffer, left, start2, end2, tag, file, mark, current,
                     remaining, reads, limit, loaded, split>>
      /\ pc = "endCache" /\ pc' = IF end2 >= Bound THEN "loadCache" ELSE "away"
  BY DEF EndOfCache, diskVars, unlessTag, Goto
<1>3. Disk /\ TypeOK
  BY DEF IInv
<1>4. TypeOK' /\ k \in FilesOf(tag)' /\ Loaded(k)' /\ At(k)'
  BY <1>1, <1>2 DEF IInv, TypeOK, End, FilesOf, Loaded, Done, At, InArchive, InCache, Behind
<1>5. /\ tag <= now /\ tag \in DOMAIN stage /\ stage[tag].mode = "cache" /\ Mode(tag) = "cache"
      /\ k \in 1 .. Len(stage[tag].files) /\ now \in Nat /\ tag \in Nat
      /\ mark = 1 /\ InCache(k) /\ Place(stage[tag]) = Conf /\ <<tag, k>> \in Files(stage)
      /\ Conf \in Nat
  BY <1>1, <1>2, <1>3, CacheFacts
<1>6. pc' = "loadCache" => Here(tag, k)
  <2>1. SUFFICES ASSUME end2 >= Bound PROVE Here(tag, k)
    BY <1>2
  <2>2. CASE tag < now
    BY <1>3, <1>5, <2>2, HereBefore
  <2>3. CASE tag = now
    <3>1. now \in 1 .. Len(stage) /\ stage[now].mode # "sound"
      BY <1>3, <1>5, <2>3, StageFacts
    <3>2. end2 = Conf + Got(tag)
      BY <1>3, <1>5, <2>3, <3>1 DEF Disk, Reads
    <3>3. Bound = Conf + Offset(stage[tag], k + 1)
      BY <1>5 DEF Bound, InCache
    <3>4. Got(tag) \in Int /\ Offset(stage[tag], k + 1) \in Nat
      <4> DEFINE f == <<tag, k>>
      <4>1. f \in Files(stage) /\ f[1] = tag /\ f[2] = k
        BY <1>5
      <4> HIDE DEF f
      <4> QED BY <1>3, <1>5, <4>1, FileFacts, GotFacts
    <3>5. Offset(stage[tag], k + 1) <= Got(tag)
      BY <1>5, <2>1, <3>2, <3>3, <3>4
    <3> QED BY <3>5 DEF Here
  <2> QED BY <1>5, <2>2, <2>3
<1>7. Where(k)'
  <2>1. Mode(tag)' = Mode(tag) /\ (Here(tag, k) => Here(tag, k)')
    BY <1>2 DEF Mode, End, Here, Got
  <2> QED BY <1>1, <1>2, <1>6, <2>1 DEF Where, Labels
<1> QED BY <1>2, <1>4, <1>7, DiskStays

LEMMA LoadedFromCacheKeeps == ASSUME IInv, LoadedFromCache, UNCHANGED <<stage, diskVars>> PROVE IInv'
<1>1. PICK k \in FilesOf(tag) : Loaded(k) /\ At(k) /\ Where(k)
  BY DEF IInv
<1>2. /\ UNCHANGED <<stage, pos, mem, now, buffer, left, start2, end2, mark, current, remaining,
                     reads, limit>>
      /\ pc = "loadCache"
  BY DEF LoadedFromCache, diskVars
<1>3. Disk /\ TypeOK /\ Splits
  BY DEF IInv
<1> DEFINE s == stage[tag]
           len == Len(s.files)
<1>4. /\ tag <= now /\ tag \in DOMAIN stage /\ s.mode = "cache" /\ Mode(tag) = "cache"
      /\ k \in 1 .. len /\ now \in Nat /\ tag \in Nat /\ tag # 0 /\ now # 0
      /\ mark = 1 /\ InCache(k) /\ Place(s) = Conf /\ Conf \in Nat
      /\ <<tag, k>> \in Files(stage)
  BY <1>1, <1>2, <1>3, CacheFacts
<1>5. file = k /\ current = Conf /\ Here(tag, k)
  BY <1>1, <1>2, <1>4 DEF InCache, Where
<1>6. /\ Len(stage) \in Nat /\ DOMAIN stage = 1 .. Len(stage) /\ End = Len(stage) + 1 /\ End' = End
      /\ s \in Sections /\ len \in Nat \ {0}
  BY <1>2, <1>3, <1>4, StageFacts, OffsetFacts DEF End
<1>7. /\ loaded' = Append(loaded, <<tag, k>>) /\ file' = k + 1
      /\ \/ k = len /\ pc' = "sync" /\ tag' = tag + 1 /\ split' = Conf + Size(s)
         \/ k # len /\ pc' = "lookCache" /\ tag' = tag /\ split' = split
  BY <1>5 DEF LoadedFromCache, Goto, Kept, Size
<1>8. /\ Done' = Done \cup {<<tag, k>>}
      /\ tag' = tag /\ k # len => Loaded(k + 1)' /\ k + 1 \in FilesOf(tag)'
      /\ tag' = tag + 1 /\ k = len => Loaded(1)' /\ 1 \in FilesOf(tag)'
  BY <1>1, <1>2, <1>3, <1>4, <1>7, LoadedNext
<1>9. PICK c \in DOMAIN stage : \A i \in DOMAIN stage : stage[i].mode = "cache" => i = c
  BY <1>3, OrderFacts
<1>10. tag = c
  BY <1>4, <1>9
<1> HIDE DEF s, len
<1>11. CASE k = len
  <2>1. pc' = "sync" /\ tag' = tag + 1 /\ split' = Conf + Size(s)
    BY <1>7, <1>11
  <2>2. tag < now
    <3>1. Size(s) <= Got(tag)
      BY <1>5, <1>11 DEF Here, Size, s, len
    <3>2. Got(tag) \in Int /\ Size(s) \in Nat /\ (tag = now => Got(tag) < Size(s))
      BY <1>3, <1>4, GotFacts DEF s
    <3>3. tag # now
      BY <3>1, <3>2
    <3> QED BY <1>4, <3>3
  <2>3. split' \in 0 .. Memory
    <3> DEFINE f == <<tag, k>>
    <3>1. f \in Files(stage) /\ f[1] = tag
      BY <1>4
    <3> HIDE DEF f
    <3>2. Size(s) \in Nat /\ Conf + Size(s) <= Memory
      BY <1>3, <1>4, <3>1, FileFacts DEF s
    <3>3. Memory \in Nat
      BY StageAssumption
    <3> QED BY <1>4, <2>1, <3>2, <3>3
  <2>4. tag + 1 \in 0 .. End
    BY <1>4, <1>6
  <2>5. TypeOK'
    BY <1>2, <1>3, <1>6, <2>1, <2>3, <2>4 DEF TypeOK
  <2>6. Splits'
    BY <1>2, <1>9, <1>10, <2>1, <2>2 DEF Splits, s
  <2>7. Behind'
    BY <1>2, <1>4, <1>9, <1>10, <2>1 DEF Behind
  <2>8. At(1)'
    BY <1>2, <1>4, <2>7 DEF At
  <2>9. Where(1)'
    BY <1>2, <1>4, <2>1, <2>7 DEF Where, Labels
  <2> QED BY <1>5, <1>8, <1>11, <2>1, <2>5, <2>6, <2>8, <2>9, DiskLoads
<1>12. CASE k # len
  <2>1. pc' = "lookCache" /\ tag' = tag /\ split' = split
    BY <1>7, <1>12
  <2>2. TypeOK' /\ Splits'
    BY <1>2, <1>3, <1>6, <2>1 DEF TypeOK, Splits
  <2>3. At(k + 1)'
    BY <1>2, <1>4, <1>5, <1>7, <2>1 DEF At, InCache
  <2>4. Where(k + 1)'
    <3>1. Mode(tag)' = Mode(tag)
      BY <1>2, <2>1 DEF Mode, End
    <3> QED BY <1>1, <1>2, <1>4, <2>1, <3>1 DEF Where, Labels
  <2> QED BY <1>5, <1>8, <1>12, <2>1, <2>2, <2>3, <2>4, DiskLoads
<1> QED BY <1>11, <1>12

LEMMA SyncedKeeps == ASSUME IInv, Synced, UNCHANGED <<stage, diskVars>> PROVE IInv'
<1>1. PICK k \in FilesOf(tag) : Loaded(k) /\ At(k) /\ Where(k)
  BY DEF IInv
<1>2. /\ UNCHANGED <<stage, pos, mem, now, buffer, left, start2, end2, tag, file, mark, current,
                     remaining, reads, limit, loaded, split>>
      /\ pc = "sync" /\ pc' = IF Reading THEN "away" ELSE "done"
  BY DEF Synced, diskVars, unlessTag, Goto
<1>3. TypeOK' /\ k \in FilesOf(tag)' /\ Loaded(k)' /\ At(k)'
  BY <1>1, <1>2 DEF IInv, TypeOK, End, FilesOf, Loaded, Done, At, InArchive, InCache, Behind
<1>4. pc' = "done" => now = End
  <2>1. now \in 0 .. End /\ End \in Int
    BY StageFacts DEF IInv
  <2> QED BY <1>2, <2>1 DEF Reading
<1>5. Behind' /\ End' = End
  BY <1>1, <1>2 DEF Where, Behind, End
<1>6. Where(k)'
  BY <1>1, <1>2, <1>4, <1>5 DEF Where, Labels
<1> QED BY <1>2, <1>3, <1>6, DiskStays

(*----------------------------- the theorems ------------------------------*)

\* In every stage the invariant holds: what has come of a file is in its place until it is
\* loaded, and the loader is at the first file it has not loaded.
THEOREM Invariant == Spec => []IInv
<1>1. Init => IInv
  BY InitHolds
<1>2. IInv /\ [Next]_vars => IInv'
  <2> SUFFICES ASSUME IInv, [Next]_vars PROVE IInv'
    OBVIOUS
  <2>1. CASE ReadConfig
    BY <2>1, ReadConfigKeeps
  <2>2. CASE ReadSector
    BY <2>2, ReadSectorKeeps
  <2>3. CASE Loader
    BY <2>3, LoadStageSyncKeeps, LoadStageFilesKeeps, BeginArchiveKeeps, LookAtSectionKeeps,
       TakeLimitKeeps, NextInArchiveKeeps, LoadedFromArchiveKeeps, BeginCacheKeeps, LookAtCacheKeeps,
       EndOfCacheKeeps, LoadedFromCacheKeeps, SyncedKeeps DEF Loader
  <2>4. CASE UNCHANGED vars
    <3>1. UNCHANGED <<stage, pos, mem, now, buffer, left, start2, end2, tag, file, mark, current,
                      remaining, pc, reads, limit, loaded, split>>
          /\ UNCHANGED <<stage, diskVars>>
      BY <2>4 DEF vars, diskVars, loadVars
    <3>2. PICK k \in FilesOf(tag) : Loaded(k) /\ At(k) /\ Where(k)
      BY DEF IInv
    <3>3. TypeOK' /\ k \in FilesOf(tag)' /\ Loaded(k)' /\ At(k)'
      BY <3>1, <3>2 DEF IInv, TypeOK, End, FilesOf, Loaded, Done, At, InArchive, InCache, Behind
    <3>4. /\ Mode(tag)' = Mode(tag) /\ (InLimit => InLimit') /\ (Here(tag, k) => Here(tag, k)')
          /\ (Behind => Behind') /\ End' = End
      BY <3>1 DEF Mode, End, InLimit, Here, Got, Behind
    <3>5. Where(k)'
      BY <3>1, <3>2, <3>4 DEF Where
    <3> QED BY <3>1, <3>3, <3>5, DiskStays
  <2> QED BY <2>1, <2>2, <2>3, <2>4 DEF Next
<1> QED BY <1>1, <1>2, PTL DEF Spec

\* A file that has come is whole in its place until it is loaded, a cached one for good.
LEMMA WholeFacts ==
  ASSUME Disk, InMemory, NEW i, NEW k, <<i, k>> \in Files(stage), Here(i, k),
         <<i, k>> \notin Done \/ stage[i].mode = "cache"
  PROVE  Whole(i, k, Place(stage[i]) + Offset(stage[i], k))
<1> DEFINE f == <<i, k>>
           s == stage[i]
<1>1. f \in Files(stage) /\ f[1] = i /\ f[2] = k /\ (f \notin Done \/ s.mode = "cache")
  OBVIOUS
<1> HIDE DEF f
<1>2. /\ Place(s) \in Nat /\ Offset(s, k) \in Nat /\ Offset(s, k + 1) \in Nat /\ s.files[k] \in Nat \ {0}
      /\ Offset(s, k + 1) = Offset(s, k) + s.files[k] /\ i \in DOMAIN stage
  BY <1>1, FileFacts
<1>3. Got(i) \in Int /\ Offset(s, k + 1) <= Got(i)
  BY <1>2, GotFacts DEF Here
<1> SUFFICES ASSUME NEW n \in 0 .. s.files[k] - 1
             PROVE  mem[(Place(s) + Offset(s, k)) + n] = <<i, Offset(s, k) + n>>
  BY DEF Whole
<1> DEFINE c == Offset(s, k) + n
<1>4. c \in Offset(s, k) .. Offset(s, k + 1) - 1 /\ c < Got(i) /\ Place(s) + c = (Place(s) + Offset(s, k)) + n
  BY <1>2, <1>3
<1> HIDE DEF c
<1>5. mem[Place(s) + c] = <<i, c>>
  BY <1>1, <1>4 DEF InMemory
<1> QED BY <1>4, <1>5 DEF c

\* In every stage a file is whole in memory when it is given to its loader, and a cached
\* file stays so.
THEOREM LoadsWholeHolds == Spec => []LoadsWhole
<1>1. IInv => LoadsWhole
  <2> SUFFICES ASSUME IInv PROVE LoadsWhole
    OBVIOUS
  <2>1. PICK k \in FilesOf(tag) : Loaded(k) /\ At(k) /\ Where(k)
    BY DEF IInv
  <2>2. Disk /\ TypeOK /\ InMemory
    BY DEF IInv
  <2>3. pc # "wrong"
    BY <2>1 DEF Where
  <2>4. ASSUME pc = "load" PROVE Whole(tag, file, current)
    <3>1. InArchive(k) /\ <<tag, k>> \in Files(stage) /\ <<tag, k>> \notin Done
      BY <2>1, <2>2, <2>4, HeadFacts
    <3>2. file = k /\ Here(tag, k) /\ current = Place(stage[tag]) + Offset(stage[tag], k)
      BY <2>1, <2>4, <3>1 DEF Where, InArchive
    <3> QED BY <2>2, <3>1, <3>2, WholeFacts
  <2>5. ASSUME pc = "loadCache" PROVE Whole(tag, file, current + Offset(stage[tag], file))
    <3>1. InCache(k) /\ <<tag, k>> \in Files(stage) /\ Place(stage[tag]) = Conf /\ stage[tag].mode = "cache"
      BY <2>1, <2>2, <2>5, CacheFacts
    <3>2. file = k /\ Here(tag, k) /\ current = Conf
      BY <2>1, <2>5, <3>1 DEF Where, InCache
    <3> QED BY <2>2, <3>1, <3>2, WholeFacts
  <2>6. ASSUME NEW n \in DOMAIN loaded, stage[loaded[n][1]].mode = "cache"
        PROVE  Whole(loaded[n][1], loaded[n][2],
                     Conf + Offset(stage[loaded[n][1]], loaded[n][2]))
    <3> DEFINE f == loaded[n]
    <3>1. f \in Files(stage) /\ Here(f[1], f[2])
      BY <2>1, <2>2 DEF Loaded, InMemory, Done
    <3>2. f = <<f[1], f[2]>> /\ f[1] \in DOMAIN stage
      BY <2>2, <3>1, FileFacts
    <3>3. Place(stage[f[1]]) = Conf
      BY <2>2, <2>6, <3>2, StageFacts, PlaceFacts
    <3> QED BY <2>2, <2>6, <3>1, <3>2, <3>3, WholeFacts
  <2> QED BY <2>2, <2>3, <2>4, <2>5, <2>6 DEF LoadsWhole
<1> QED BY <1>1, Invariant, PTL

\* In every stage the files are loaded in order, all of them when the load is over; the
\* cached ones lie in what is kept, and nothing is read behind it.
THEOREM EndsWholeHolds == Spec => []EndsWhole
<1>1. IInv => EndsWhole
  <2> SUFFICES ASSUME IInv PROVE EndsWhole
    OBVIOUS
  <2>1. PICK k \in FilesOf(tag) : Loaded(k) /\ At(k) /\ Where(k)
    BY DEF IInv
  <2>2. Disk /\ Splits
    BY DEF IInv
  <2>3. /\ stage \in Layouts /\ Fits(stage) /\ Len(stage) \in Nat
        /\ DOMAIN stage = 1 .. Len(stage) /\ End = Len(stage) + 1
        /\ \A i \in DOMAIN stage : stage[i] \in Sections
        /\ now \in 0 .. End
    BY <2>2, StageFacts
  <2>4. /\ loaded \in Seq(Files(stage)) /\ Len(loaded) \in Nat /\ DOMAIN loaded = 1 .. Len(loaded)
        /\ \A n \in DOMAIN loaded : loaded[n] \in Files(stage) /\ Before(loaded[n], <<tag, k>>)
        /\ \A f \in Files(stage) : Before(f, <<tag, k>>) => f \in Done
        /\ \A m, n \in DOMAIN loaded : m < n => Before(loaded[m], loaded[n])
    <3>1. loaded \in Seq(Files(stage))
      BY <2>1 DEF Loaded
    <3>2. Len(loaded) \in Nat /\ DOMAIN loaded = 1 .. Len(loaded)
          /\ \A n \in DOMAIN loaded : loaded[n] \in Files(stage)
      BY <3>1
    <3> QED BY <2>1, <3>1, <3>2, Zenon DEF Loaded
  <2>5. \A f \in Files(stage) : f[1] \in Nat /\ f[2] \in Nat
    <3>1. ASSUME NEW f \in Files(stage) PROVE f[1] \in Nat /\ f[2] \in Nat
      <4>1. f[1] \in DOMAIN stage /\ f[2] \in 1 .. Len(stage[f[1]].files)
        BY <2>2, FileFacts
      <4>2. Len(stage[f[1]].files) \in Nat
        BY <2>3, <4>1, OffsetFacts
      <4> QED BY <2>3, <4>1, <4>2
    <3> QED BY <3>1
  <2>6. \A f, g \in Files(stage) : ~(Before(f, g) /\ (Before(g, f) \/ f = g))
    BY <2>5 DEF Before
  <2>7. tag \in Nat /\ k \in Nat
    <3>1. tag \in 0 .. End
      BY DEF IInv, TypeOK
    <3>2. tag \in DOMAIN stage => k \in 1 .. Len(stage[tag].files) /\ Len(stage[tag].files) \in Nat
      BY <2>1, <2>2, <2>3, AtFacts, OffsetFacts
    <3>3. tag \notin DOMAIN stage => k = 1
      BY <2>1 DEF FilesOf
    <3> QED BY <2>3, <3>1, <3>2, <3>3
  <2>8. ASSUME NEW n \in DOMAIN loaded, NEW f \in Files(stage)
        PROVE  Before(f, loaded[n]) <=> \E m \in 1 .. n - 1 : loaded[m] = f
    <3>1. ASSUME Before(f, loaded[n]) PROVE \E m \in 1 .. n - 1 : loaded[m] = f
      <4>1. Before(f, <<tag, k>>)
        <5>1. loaded[n] \in Files(stage) /\ Before(loaded[n], <<tag, k>>)
          BY <2>4
        <5> QED BY <2>5, <2>7, <3>1, <5>1 DEF Before
      <4>2. PICK m \in DOMAIN loaded : loaded[m] = f
        BY <2>4, <4>1 DEF Done
      <4>3. m # n /\ ~(n < m)
        BY <2>4, <2>6, <3>1, <4>2
      <4>4. m \in 1 .. n - 1
        BY <2>4, <4>3
      <4> QED BY <4>2, <4>4
    <3>2. ASSUME NEW m \in 1 .. n - 1, loaded[m] = f PROVE Before(f, loaded[n])
      <4>1. m \in DOMAIN loaded /\ m < n
        BY <2>4
      <4> QED BY <2>4, <3>2, <4>1
    <3> QED BY <3>1, <3>2
  <2>9. PICK c \in DOMAIN stage :
          /\ stage[c].mode = "cache"
          /\ \A i \in DOMAIN stage : stage[i].mode = "cache" => i = c
          /\ \A i \in Archives(stage) : i < c
    BY <2>2, OrderFacts
  <2>10. ASSUME pc = "done" PROVE Len(loaded) = Cardinality(Files(stage)) /\ ~Reading
    <3>1. now = End /\ c < tag
      BY <2>1, <2>9, <2>10 DEF Where, Behind
    <3>2. ASSUME NEW f \in Files(stage) PROVE \E n \in 1 .. Len(loaded) : loaded[n] = f
      <4>1. f[1] \in DOMAIN stage /\ stage[f[1]].mode # "sound"
        BY <2>2, FileFacts
      <4>2. stage[f[1]].mode = "archive" \/ stage[f[1]].mode = "cache"
        BY <2>2, <4>1, StageFacts
      <4>3. f[1] < c \/ f[1] = c
        BY <2>9, <4>1, <4>2 DEF Archives
      <4>4. f[1] < tag
        BY <2>3, <2>7, <3>1, <4>1, <4>3
      <4>5. f \in Done
        BY <2>4, <4>4 DEF Before
      <4> QED BY <2>4, <4>5 DEF Done
    <3>3. ASSUME NEW m \in 1 .. Len(loaded), NEW n \in 1 .. Len(loaded), loaded[m] = loaded[n]
          PROVE  m = n
      <4>1. ~(m < n) /\ ~(n < m)
        BY <2>4, <2>6, <3>3
      <4> QED BY <2>4, <4>1
    <3>4. loaded \in [1 .. Len(loaded) -> Files(stage)]
      BY <2>4
    <3>5. loaded \in Bijection(1 .. Len(loaded), Files(stage))
      BY <3>2, <3>3, <3>4 DEF Bijection, Injection, Surjection, IsInjective
    <3>6. Cardinality(Files(stage)) = Len(loaded)
      BY <2>4, <3>5, FS_CountingElements DEF ExistsBijection
    <3> QED BY <2>3, <3>1, <3>6 DEF Reading
  <2>11. ASSUME split # None
         PROVE  /\ \A f \in Files(stage) : stage[f[1]].mode = "cache" =>
                      Conf + Offset(stage[f[1]], f[2] + 1) <= split
                /\ buffer = Elsewhere \/ ~Reading
    <3>1. c < now /\ split = Conf + Size(stage[c])
      BY <2>2, <2>9, <2>11 DEF Splits
    <3>2. ASSUME NEW f \in Files(stage), stage[f[1]].mode = "cache"
          PROVE  Conf + Offset(stage[f[1]], f[2] + 1) <= split
      <4>1. f[1] = c
        BY <2>2, <2>9, <3>2, FileFacts
      <4>2. /\ Offset(stage[c], f[2] + 1) \in Nat /\ Size(stage[c]) \in Nat
            /\ Offset(stage[c], f[2] + 1) <= Size(stage[c]) /\ Conf \in Nat
        BY <2>2, <4>1, FileFacts, StageAssumption
      <4> QED BY <3>1, <4>1, <4>2
    <3>3. ASSUME Reading PROVE buffer = Elsewhere
      <4>1. now \in DOMAIN stage
        BY <2>3, <2>9, <3>1, <3>3 DEF Reading
      <4>2. now # c /\ ~(now < c)
        BY <2>3, <2>9, <3>1
      <4>3. stage[now].mode = "sound"
        BY <2>2, <2>9, <4>1, <4>2, StageFacts DEF Archives
      <4> QED BY <2>2, <2>3, <4>1, <4>3 DEF Disk, Reads
    <3> QED BY <3>2, <3>3
  <2> QED BY <2>8, <2>10, <2>11 DEF EndsWhole
<1> QED BY <1>1, Invariant, PTL
=============================================================================
